---------------------------- MODULE RecordStores ----------------------------
(***************************************************************************)
(* The fifteen stores of packages/persistence that keep the records of the *)
(* audit catalog and the history of the tool calls.  Every one of them is  *)
(* written five times over: in memory, in a JSON file, and, over one set   *)
(* of SQL statements, in Postgres and in the exported SQLite database.     *)
(*                                                                         *)
(* A store object (a handle) belongs to a process.  It migrates the        *)
(* database once, on its first use, and keeps the promise of that; its     *)
(* file and SQLite forms let one call at a time through.  The handles of   *)
(* one process and of several share the files or the database.  How a file *)
(* is replaced under its lock is the subject of module FileStore; here     *)
(* that is one step, and a holder may still die before it lets go.         *)
(***************************************************************************)
EXTENDS Naturals, Sequences

CONSTANTS Callers,      \* what calls the stores, one call at a time each
          Processes,    \* processes that hold handles
          Homes,        \* the placements of the callers in processes
          Entries,      \* catalog entries, the keys of the catalog's stores
          Setups,       \* what a run starts from: the driver, the store of the
                        \* catalog in use, how many tasks there are, and the
                        \* migrations an earlier release has applied
          MaxFaults     \* bound on crashes and failing writes or commits

ToolHistory == "tool_history"

CatalogStores ==
  {"saved_views", "catalog_entries", "visibility", "review_signals",
   "review_assignments", "checklists", "progress", "blockers", "resolutions",
   "verifications", "evidence", "attestations", "acknowledgments", "signoffs"}

Stores  == CatalogStores \cup {ToolHistory}
Drivers == {"memory", "file", "postgres", "sqlite"}

VARIABLES setup,   \* the element of Setups this behaviour started from
          home,    \* home[c] : the process c runs in
          disk,    \* [applied, rows] : the migrations and the records stored
          lock,    \* the lock files that exist
          ready,   \* ready[p][s] : the handle's schemaReadyPromise
          queue,   \* queue[p][s] : the handle's accessQueue
          call,    \* call[c] : the call c is making
          faults   \* faults so far

storeVars == <<setup, home, disk, lock, ready, queue, call, faults>>

driver == setup.driver
InUse  == {setup.store, ToolHistory}

\* Two stores never delete: createConfigured... of saved views and catalog
\* entries has no delete method, nor have visibility and tool history.
Deletes(s) == s \notin {"saved_views", "catalog_entries", "visibility", ToolHistory}

Operations(s) == IF s = ToolHistory THEN {"list", "save"}
                 ELSE {"get", "list", "save"} \cup (IF Deletes(s) THEN {"delete"} ELSE {})

-----------------------------------------------------------------------------
(* The migrations *)

Migration(id, tables) == [id |-> id, tables |-> tables]

baseline                  == Migration(1, {"runs", "approvals", "checkpoints", "events"})
dispatchQueue             == Migration(2, {"dispatch_jobs"})
toolHistory               == Migration(3, {ToolHistory})
savedAuditViews           == Migration(4, {"saved_views"})
auditViewCatalogEntries   == Migration(5, {"catalog_entries"})
auditCatalogVisibility    == Migration(6, {"visibility"})
reviewSignals             == Migration(7, {"review_signals"})
reviewAssignments         == Migration(8, {"review_assignments"})
assignmentChecklists      == Migration(9, {"checklists"})
checklistItemProgress     == Migration(10, {"progress"})
checklistItemBlockers     == Migration(11, {"blockers"})
checklistItemResolutions  == Migration(12, {"resolutions"})
checklistItemVerifications == Migration(13, {"verifications"})
checklistItemEvidence     == Migration(14, {"evidence"})
checklistItemAttestation  == Migration(15, {"attestations"})
checklistItemSignoff      == Migration(17, {"signoffs"})
checklistItemAcknowledgment == Migration(16, {"acknowledgments"})

runtimePersistenceMigrations ==
  {baseline, dispatchQueue, toolHistory, savedAuditViews,
   auditViewCatalogEntries, auditCatalogVisibility, reviewSignals,
   reviewAssignments, assignmentChecklists, checklistItemProgress,
   checklistItemBlockers, checklistItemResolutions,
   checklistItemVerifications, checklistItemEvidence,
   checklistItemAttestation, checklistItemSignoff,
   checklistItemAcknowledgment}

AllVersions == {m.id : m \in runtimePersistenceMigrations}

ASSUME RecordStoresAssumption ==
  /\ Setups \subseteq [driver : Drivers, store : CatalogStores, tasks : Nat,
                       applied : SUBSET AllVersions]
  /\ Homes \subseteq [Callers -> Processes]
  /\ MaxFaults \in Nat

TablesOf(applied) ==
  UNION {m.tables : m \in {n \in runtimePersistenceMigrations : n.id \in applied}}

\* Mutant: a migration runs if its id is above the newest one applied; the
\* list has 0017 before 0016.
applyRuntimePersistenceMigrations_Newest(applied) == applied \cup (AllVersions \ {16})

\* Whatever is not in runroot_schema_migrations is executed and entered.
applyRuntimePersistenceMigrations(applied) ==
  applied \cup {m.id : m \in {n \in runtimePersistenceMigrations : n.id \notin applied}}

-----------------------------------------------------------------------------
(* Calls *)

NoImage == [applied |-> {}, rows |-> <<>>]
NoKey   == <<"none", 0>>

\* pc : where the call is; [store, op, key, val] what it asks; image : the
\* snapshot or database it has in memory; edit : what it does to the rows.
Call(pc, s, op, k, v) == [pc |-> pc, store |-> s, op |-> op, key |-> k, val |-> v,
                          image |-> NoImage, edit |-> "none"]
Idle == Call("idle", ToolHistory, "list", NoKey, NoKey)

Goto(c, pc) == call' = [call EXCEPT ![c].pc = pc]

me(c)    == home[c]
Ready(c) == ready[me(c)][call[c].store]
SetReady(c, r) == ready' = [ready EXCEPT ![me(c)][call[c].store] = r]

Line(c)   == queue[me(c)][call[c].store]
InLine(c) == Line(c) # <<>> /\ Head(Line(c)) = c
Joins(c)  == queue' = [queue EXCEPT ![me(c)][call[c].store] = Append(@, c)]
\* The next in line gets its turn; over Postgres nobody waits in line.
Leaves(c) == queue' = [queue EXCEPT ![me(c)][call[c].store] =
                         IF InLine(c) THEN Tail(@) ELSE @]

\* The call is over: it returned, or it threw.
Ends(c, how) == call' = [call EXCEPT ![c] = Call(how, @.store, @.op, @.key, @.val)]

Mutates(c) == call[c].op \in {"save", "delete"}

Holding(r, k, v) == [x \in DOMAIN r \cup {k} |-> IF x = k THEN v ELSE r[x]]
Without(r, k)    == [x \in DOMAIN r \ {k} |-> r[x]]

\* The rows of the call's store once its edit is done to them.
Edited(c, rows) ==
  CASE call[c].edit = "save"   -> Holding(rows, call[c].key, call[c].val)
    [] call[c].edit = "delete" -> Without(rows, call[c].key)
    [] OTHER                   -> rows

\* All the stores of a database are one file; a JSON file holds one store.
FileOf(s) == IF driver = "sqlite" THEN "database" ELSE s

\* A call that leaves the rest of the world alone.
Quietly == UNCHANGED <<setup, home>>

\* A failing operation takes one from the budget of faults.
Fails == faults < MaxFaults /\ faults' = faults + 1

-----------------------------------------------------------------------------
(* In memory: an operation is one turn of the event loop *)

Rows(c) == disk.rows[call[c].store]

Stored(c, rows) == disk' = [disk EXCEPT !.rows[call[c].store] = rows]

InMemory(c, op, rows) ==
  /\ call[c].pc = "called" /\ call[c].op = op
  /\ Stored(c, rows)
  /\ Ends(c, "returned")
  /\ Quietly /\ UNCHANGED <<lock, ready, queue, faults>>

memoryDelete(c) == InMemory(c, "delete", Without(Rows(c), call[c].key))
memoryGet(c)    == InMemory(c, "get", Rows(c))
memoryList(c)   == InMemory(c, "list", Rows(c))
memorySave(c)   == InMemory(c, "save", Holding(Rows(c), call[c].key, call[c].val))

-----------------------------------------------------------------------------
(* The access queue and the lock file *)

\* enqueueAccess: one call of a handle at a time, in the order they came.
enqueueAccess(c, from) ==
  /\ call[c].pc = from
  /\ Joins(c) /\ Goto(c, "queued")
  /\ Quietly /\ UNCHANGED <<disk, lock, ready, faults>>

\* Reading takes no lock; what is read is the whole file.
ReadsFile(c) ==
  /\ call[c].pc = "queued" /\ InLine(c) /\ ~Mutates(c)
  /\ call' = [call EXCEPT ![c].pc = "task", ![c].image = disk]
  /\ Quietly /\ UNCHANGED <<disk, lock, ready, queue, faults>>

\* Mutant: the lock file is opened without the flag "wx".
LockIsFree_Always(f) == TRUE

LockIsFree(f) == f \notin lock

\* open(lockPath, "wx") succeeds, and the file is read under the lock.
withFileLock(c, from, to) ==
  /\ call[c].pc = from
  /\ LockIsFree(FileOf(call[c].store))
  /\ lock' = lock \cup {FileOf(call[c].store)}
  /\ call' = [call EXCEPT ![c].pc = to, ![c].image = disk]
  /\ Quietly /\ UNCHANGED <<disk, ready, queue, faults>>

\* Mutant: a call waits for the lock file until it is gone.
TimesOut_Never(c) == FALSE

\* The lock file was there for lockTimeoutMs: the call throws.
TimesOut(c) ==
  /\ call[c].pc = "queued" /\ InLine(c) /\ Mutates(c)
  /\ ~LockIsFree(FileOf(call[c].store))
  /\ Leaves(c) /\ Ends(c, "threw")
  /\ Quietly /\ UNCHANGED <<disk, lock, ready, faults>>

\* Mutant: the early return of a delete that finds nothing keeps the lock.
ReleasesLock_AfterWrite(c) ==
  /\ call[c].pc \in {"unlock", "unlockFailed"}
  /\ lock' = IF call[c].edit = "none" THEN lock ELSE lock \ {FileOf(call[c].store)}
  /\ Leaves(c)
  /\ Ends(c, IF call[c].pc = "unlock" THEN "returned" ELSE "threw")
  /\ Quietly /\ UNCHANGED <<disk, ready, faults>>

\* The finally block: the lock file is removed, the queue moves on.
ReleasesLock(c) ==
  /\ call[c].pc \in {"unlock", "unlockFailed"}
  /\ lock' = lock \ {FileOf(call[c].store)}
  /\ Leaves(c)
  /\ Ends(c, IF call[c].pc = "unlock" THEN "returned" ELSE "threw")
  /\ Quietly /\ UNCHANGED <<disk, ready, faults>>

\* writeFile or rename fails: the file is what it was.
WriteFails(c, from, to) ==
  /\ call[c].pc = from
  /\ Fails /\ Goto(c, to)
  /\ Quietly /\ UNCHANGED <<disk, lock, ready, queue>>

-----------------------------------------------------------------------------
(* JSON files: a file of its own for every store *)

withReadOnlySnapshot(c) == ReadsFile(c)

withMutableSnapshot(c) == InLine(c) /\ Mutates(c) /\ withFileLock(c, "queued", "task")

Snapshot(c) == call[c].image.rows[call[c].store]

Task(c, op) == call[c].pc = "task" /\ call[c].op = op

Answers(c) == /\ Leaves(c) /\ Ends(c, "returned")
              /\ Quietly /\ UNCHANGED <<disk, lock, ready, faults>>

Edits(c, edit, pc) == /\ call' = [call EXCEPT ![c].edit = edit, ![c].pc = pc]
                      /\ Quietly /\ UNCHANGED <<disk, lock, ready, queue, faults>>

\* What is not there is not deleted, and nothing is written.
fileDelete(c) ==
  /\ Task(c, "delete")
  /\ IF call[c].key \in DOMAIN Snapshot(c) THEN Edits(c, "delete", "write")
                                           ELSE Edits(c, "none", "unlock")
fileGet(c)  == Task(c, "get") /\ Answers(c)
fileList(c) == Task(c, "list") /\ Answers(c)
fileSave(c) == Task(c, "save") /\ Edits(c, "save", "write")

writeSnapshot(c) ==
  /\ call[c].pc = "write"
  /\ Stored(c, Edited(c, Snapshot(c)))
  /\ Goto(c, "unlock")
  /\ Quietly /\ UNCHANGED <<lock, ready, queue, faults>>

\* How a file store gets at its file.
SnapshotAccess(c) ==
  \/ withReadOnlySnapshot(c) \/ withMutableSnapshot(c)
  \/ writeSnapshot(c) \/ WriteFails(c, "write", "unlockFailed")
  \/ TimesOut(c) \/ ReleasesLock(c)

-----------------------------------------------------------------------------
(* ensureSchema: schemaReadyPromise ??= migrate...() *)

\* The first call of a handle migrates, the others wait for its promise.
\* A promise that was rejected stays: every later call of the handle throws.
ensureSchema(c) ==
  /\ call[c].pc = "called"
  /\ CASE Ready(c) = "none"     -> SetReady(c, "pending") /\ Goto(c, "migrating")
       [] Ready(c) = "ready"    -> Goto(c, "ready") /\ UNCHANGED ready
       [] Ready(c) = "rejected" -> Ends(c, "threw") /\ UNCHANGED ready
       [] OTHER                 -> FALSE
  /\ Quietly /\ UNCHANGED <<disk, lock, queue, faults>>

Migrated(c) == SetReady(c, "ready") /\ Goto(c, "ready")
Rejected(c) == SetReady(c, "rejected") /\ Ends(c, "threw")

\* The whole database is written whether or not a migration was missing.
migrateSqlitePersistence(c) ==
  \/ withFileLock(c, "migrating", "applying")
  \/ /\ call[c].pc = "migrating"
     /\ ~LockIsFree(FileOf(call[c].store))
     /\ Rejected(c)
     /\ Quietly /\ UNCHANGED <<disk, lock, queue, faults>>
  \/ /\ call[c].pc = "applying"
     /\ disk' = [call[c].image EXCEPT !.applied = applyRuntimePersistenceMigrations(@)]
     /\ Goto(c, "migrated")
     /\ Quietly /\ UNCHANGED <<lock, ready, queue, faults>>
  \/ WriteFails(c, "applying", "notMigrated")
  \/ /\ call[c].pc \in {"migrated", "notMigrated"}
     /\ lock' = lock \ {FileOf(call[c].store)}
     /\ IF call[c].pc = "migrated" THEN Migrated(c) ELSE Rejected(c)
     /\ Quietly /\ UNCHANGED <<disk, queue, faults>>

\* One transaction.  The versions are read first; CREATE and INSERT then wait
\* for the transaction of another migration and, once that has committed,
\* find what it made: a unique violation.
migratePostgresPersistence(c) ==
  \/ /\ call[c].pc = "migrating"
     /\ IF applyRuntimePersistenceMigrations(disk.applied) = disk.applied
        THEN Migrated(c)
        ELSE /\ call' = [call EXCEPT ![c].pc = "applying", ![c].image = disk]
             /\ UNCHANGED ready
     /\ Quietly /\ UNCHANGED <<disk, lock, queue, faults>>
  \/ /\ call[c].pc = "applying"
     /\ \A d \in Callers : call[d].pc # "applied"
     /\ IF disk.applied = call[c].image.applied
        THEN Goto(c, "applied") /\ UNCHANGED ready
        ELSE Rejected(c)
     /\ Quietly /\ UNCHANGED <<disk, lock, queue, faults>>
  \/ /\ call[c].pc = "applied"
     /\ \/ Migrated(c) /\ UNCHANGED faults
        \/ Rejected(c) /\ Fails
     /\ \/ disk' = [disk EXCEPT !.applied =
                      applyRuntimePersistenceMigrations(call[c].image.applied)]
        \/ faults' # faults /\ UNCHANGED disk
     /\ Quietly /\ UNCHANGED <<lock, queue>>

-----------------------------------------------------------------------------
(* The SQL of a store, over a client of either database *)

\* What a SELECT sees.
Selects(c) == IF driver = "postgres" THEN Rows(c) ELSE Snapshot(c)

\* Postgres keeps the row for a transaction that wrote it until it commits.
RowIsFree(c) == \A d \in Callers :
                  ~(/\ call[d].pc = "commit" /\ call[d].edit # "none"
                    /\ call[d].store = call[c].store /\ call[d].key = call[c].key)

deleteRow(c) ==
  \/ Task(c, "delete") /\ IF call[c].key \in DOMAIN Selects(c)
                          THEN Edits(c, "none", "delete")
                          ELSE Edits(c, "none", "commit")
  \/ call[c].pc = "delete" /\ RowIsFree(c) /\ Edits(c, "delete", "commit")
getRow(c)   == Task(c, "get") /\ Answers(c)
listRows(c) == Task(c, "list") /\ Answers(c)
saveRow(c)  == Task(c, "save") /\ RowIsFree(c) /\ Edits(c, "save", "commit")

-----------------------------------------------------------------------------
(* SQLite: one exported database for all stores *)

withSqliteClient(c) == ReadsFile(c)

\* The transaction ends with the export of the database over the file.
withSqliteTransaction(c) ==
  \/ InLine(c) /\ Mutates(c) /\ withFileLock(c, "queued", "task")
  \/ /\ call[c].pc = "commit"
     /\ disk' = [call[c].image EXCEPT !.rows[call[c].store] = Edited(c, @)]
     /\ Goto(c, "unlock")
     /\ Quietly /\ UNCHANGED <<lock, ready, queue, faults>>
  \/ WriteFails(c, "commit", "unlockFailed")

SqliteAccess(c) ==
  ensureSchema(c) \/ migrateSqlitePersistence(c) \/ enqueueAccess(c, "ready")

-----------------------------------------------------------------------------
(* Postgres: a pool, no queue and no lock file *)

withPostgresClient(c) ==
  /\ call[c].pc = "ready" /\ ~Mutates(c)
  /\ Goto(c, "task")
  /\ Quietly /\ UNCHANGED <<disk, lock, ready, queue, faults>>

\* Where the connection is lost at COMMIT, the transaction may have been
\* committed; the ROLLBACK after it fails too and the call throws.
withPostgresTransaction(c) ==
  \/ /\ call[c].pc = "ready" /\ Mutates(c)
     /\ Goto(c, "task")
     /\ Quietly /\ UNCHANGED <<disk, lock, ready, queue, faults>>
  \/ /\ call[c].pc = "commit"
     /\ Stored(c, Edited(c, Rows(c))) /\ Ends(c, "returned")
     /\ Quietly /\ UNCHANGED <<lock, ready, queue, faults>>
  \/ /\ call[c].pc = "commit"
     /\ Fails /\ Ends(c, "threw")
     /\ Stored(c, Edited(c, Rows(c))) \/ UNCHANGED disk
     /\ Quietly /\ UNCHANGED <<lock, ready, queue>>

PostgresAccess(c) == ensureSchema(c) \/ migratePostgresPersistence(c)

\* How a store gets at its database, once the schema is there.
ClientAccess(c) ==
  \/ /\ driver = "postgres"
     /\ withPostgresClient(c) \/ withPostgresTransaction(c)
  \/ /\ driver = "sqlite"
     /\ \/ withSqliteClient(c) \/ withSqliteTransaction(c)
        \/ TimesOut(c) \/ ReleasesLock(c)

-----------------------------------------------------------------------------
\* The other side of a call: somebody asks, somebody takes the answer.
Asks(c, s, op, k, v) ==
  /\ call' = [call EXCEPT ![c] = Call("called", s, op, k, v)]
  /\ UNCHANGED <<setup, home, disk, lock, ready, queue, faults>>

Takes(c) == /\ call[c].pc \in {"returned", "threw"}
            /\ call' = [call EXCEPT ![c] = Idle]
            /\ UNCHANGED <<setup, home, disk, lock, ready, queue, faults>>

\* A process dies: its calls and its promises are gone, its files and its
\* lock files are not.  What the server has of its transaction is undone.
Dies(p) ==
  /\ Fails
  /\ call' = [c \in Callers |-> IF me(c) = p THEN Idle ELSE call[c]]
  /\ ready' = [ready EXCEPT ![p] = [s \in InUse |-> "none"]]
  /\ queue' = [queue EXCEPT ![p] = [s \in InUse |-> <<>>]]
  /\ disk' = IF driver = "memory" THEN [disk EXCEPT !.rows = [s \in InUse |-> <<>>]]
             ELSE disk
  /\ Quietly /\ UNCHANGED lock

StoresInit ==
  /\ setup \in Setups
  /\ home \in Homes
  /\ driver = "memory" => \A c, d \in Callers : home[c] = home[d]
  /\ disk = [applied |-> setup.applied, rows |-> [s \in InUse |-> <<>>]]
  /\ lock = {}
  /\ ready = [p \in Processes |-> [s \in InUse |-> "none"]]
  /\ queue = [p \in Processes |-> [s \in InUse |-> <<>>]]
  /\ call = [c \in Callers |-> Idle]
  /\ faults = 0

-----------------------------------------------------------------------------
(* Properties *)

\* A delete in Postgres has had its moment once its SELECT finds no row.
FoundNothing(c) == /\ driver = "postgres" /\ call[c].pc = "commit"
                   /\ call[c].op = "delete" /\ call[c].edit = "none"

\* Where a caller is, as the abstract stores see it.
Asked(c) ==
  [state |-> CASE call[c].pc \in {"idle", "returned", "threw"} -> call[c].pc
               [] call[c].pc = "unlock" \/ FoundNothing(c)     -> "applied"
               [] OTHER                                        -> "pending",
   store |-> call[c].store, op |-> call[c].op,
   key |-> call[c].key, val |-> call[c].val]

Abstract == INSTANCE AtomicRecords WITH
              records <- disk.rows,
              asked <- [c \in Callers |-> Asked(c)],
              volatile <- driver = "memory"

\* Every operation of a store is atomic: it changes its own record and no
\* other one, though files and the SQLite database are read and written whole
\* by many handles of many processes, and one that returned was done.
StoresAreAtomic == Abstract!Spec

\* No statement is executed before the migration that makes its table, also
\* by a handle whose database was made by an earlier release.
TableExists ==
  \A c \in Callers :
    driver \in {"postgres", "sqlite"} /\ call[c].pc \in {"task", "delete", "commit"}
      => call[c].store \in TablesOf(IF driver = "sqlite" THEN call[c].image.applied
                                    ELSE disk.applied)

\* A Postgres handle that is refused for ever by its rejected promise is
\* refused for nothing unless the connection failed: the schema is there,
\* another handle that migrated at the same time has made it.
RejectedByTheOther ==
  \A p \in Processes, s \in InUse :
    driver = "postgres" /\ faults = 0 /\ ready[p][s] = "rejected"
      => disk.applied = AllVersions

\* The handles of a process and of several migrate one database on their
\* first use, at any time: none ever works without its table, and none is
\* refused but where another one has done the work.
SchemaReady == TableExists /\ RejectedByTheOther
=============================================================================
