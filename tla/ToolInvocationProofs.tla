------------------------ MODULE ToolInvocationProofs ------------------------
(***************************************************************************)
(* Proofs about the record stores and the history of tool calls, for any   *)
(* number of callers, processes, entries, attempts, crashes and failing    *)
(* operations, and on every driver.                                        *)
(***************************************************************************)
EXTENDS ToolInvocation, TLAPS

-----------------------------------------------------------------------------
(* The steps of a store, whichever module they come from *)

MemoryStep(c) == memoryDelete(c) \/ memoryGet(c) \/ memoryList(c) \/ memorySave(c)

FileStep(c) ==
  \/ enqueueAccess(c, "called")
  \/ fileDelete(c) \/ fileGet(c) \/ fileList(c) \/ fileSave(c)
  \/ SnapshotAccess(c)

RowStep(c) == deleteRow(c) \/ getRow(c) \/ listRows(c) \/ saveRow(c)

AccessStep(c) ==
  \/ driver = "memory" /\ MemoryStep(c)
  \/ driver = "file" /\ FileStep(c)
  \/ driver = "postgres" /\ (PostgresAccess(c) \/ RowStep(c) \/ ClientAccess(c))
  \/ driver = "sqlite" /\ (SqliteAccess(c) \/ RowStep(c) \/ ClientAccess(c))

\* The stores of memory, of files and of databases make no other steps.
LEMMA InProcessStep ==
  ASSUME NEW c \in Callers, InProcess(c)
  PROVE  MemoryStep(c)
BY DEF InProcess, MemoryStep,
   createInMemorySavedAuditViewStore, createInMemoryAuditViewCatalogStore,
   createInMemoryAuditCatalogVisibilityStore,
   createInMemoryAuditCatalogReviewSignalStore,
   createInMemoryAuditCatalogReviewAssignmentStore,
   createInMemoryAuditCatalogAssignmentChecklistStore,
   createInMemoryAuditCatalogChecklistItemProgressStore,
   createInMemoryAuditCatalogChecklistItemBlockerStore,
   createInMemoryAuditCatalogChecklistItemResolutionStore,
   createInMemoryAuditCatalogChecklistItemVerificationStore,
   createInMemoryAuditCatalogChecklistItemEvidenceStore,
   createInMemoryAuditCatalogChecklistItemAttestationStore,
   createInMemoryAuditCatalogChecklistItemAcknowledgmentStore,
   createInMemoryAuditCatalogChecklistItemSignoffStore,
   createInMemoryToolHistoryStore

LEMMA ConfiguredStep ==
  ASSUME NEW c \in Callers, Configured(c)
  PROVE  AccessStep(c)
<1>1. ASSUME driver = "file" PROVE FileStep(c)
  BY <1>1 DEF Configured, FileStep,
     createConfiguredSavedAuditViewStore, createFileSavedAuditViewStore,
     createConfiguredAuditViewCatalogStore, createFileAuditViewCatalogStore,
     createConfiguredAuditCatalogVisibilityStore,
     createFileAuditCatalogVisibilityStore,
     createConfiguredAuditCatalogReviewSignalStore,
     createFileAuditCatalogReviewSignalStore,
     createConfiguredAuditCatalogReviewAssignmentStore,
     createFileAuditCatalogReviewAssignmentStore,
     createConfiguredAuditCatalogAssignmentChecklistStore,
     createFileAuditCatalogAssignmentChecklistStore,
     createConfiguredAuditCatalogChecklistItemProgressStore,
     createFileAuditCatalogChecklistItemProgressStore,
     createConfiguredAuditCatalogChecklistItemBlockerStore,
     createFileAuditCatalogChecklistItemBlockerStore,
     createConfiguredAuditCatalogChecklistItemResolutionStore,
     createFileAuditCatalogChecklistItemResolutionStore,
     createConfiguredAuditCatalogChecklistItemVerificationStore,
     createFileAuditCatalogChecklistItemVerificationStore,
     createConfiguredAuditCatalogChecklistItemEvidenceStore,
     createFileAuditCatalogChecklistItemEvidenceStore,
     createConfiguredAuditCatalogChecklistItemAttestationStore,
     createFileAuditCatalogChecklistItemAttestationStore,
     createConfiguredAuditCatalogChecklistItemAcknowledgmentStore,
     createFileAuditCatalogChecklistItemAcknowledgmentStore,
     createConfiguredAuditCatalogChecklistItemSignoffStore,
     createFileAuditCatalogChecklistItemSignoffStore,
     createConfiguredToolHistoryStore, createFileToolHistoryStore,
     SavedAuditViewSnapshots, AuditViewCatalogSnapshots,
     AuditCatalogVisibilitySnapshots, AuditCatalogReviewSignalSnapshots,
     AuditCatalogReviewAssignmentSnapshots,
     AuditCatalogAssignmentChecklistSnapshots,
     AuditCatalogChecklistItemProgressSnapshots,
     AuditCatalogChecklistItemBlockerSnapshots,
     AuditCatalogChecklistItemResolutionSnapshots,
     AuditCatalogChecklistItemVerificationSnapshots,
     AuditCatalogChecklistItemEvidenceSnapshots,
     AuditCatalogChecklistItemAttestationSnapshots,
     AuditCatalogChecklistItemAcknowledgmentSnapshots,
     AuditCatalogChecklistItemSignoffSnapshots, ToolHistorySnapshots
<1>2. ASSUME driver # "file"
      PROVE  /\ driver = "postgres" => PostgresAccess(c) \/ RowStep(c) \/ ClientAccess(c)
             /\ driver = "sqlite" => SqliteAccess(c) \/ RowStep(c) \/ ClientAccess(c)
             /\ driver \in {"postgres", "sqlite"}
  BY <1>2 DEF Configured, RowStep,
     createConfiguredSavedAuditViewStore, createPostgresSavedAuditViewStore,
     createSqliteSavedAuditViewStore, createDatabaseSavedAuditViewStore,
     createConfiguredAuditViewCatalogStore,
     createPostgresAuditViewCatalogStore, createSqliteAuditViewCatalogStore,
     createDatabaseAuditViewCatalogStore,
     createConfiguredAuditCatalogVisibilityStore,
     createPostgresAuditCatalogVisibilityStore,
     createSqliteAuditCatalogVisibilityStore,
     createDatabaseAuditCatalogVisibilityStore,
     createConfiguredAuditCatalogReviewSignalStore,
     createPostgresAuditCatalogReviewSignalStore,
     createSqliteAuditCatalogReviewSignalStore,
     createDatabaseAuditCatalogReviewSignalStore,
     createConfiguredAuditCatalogReviewAssignmentStore,
     createPostgresAuditCatalogReviewAssignmentStore,
     createSqliteAuditCatalogReviewAssignmentStore,
     createDatabaseAuditCatalogReviewAssignmentStore,
     createConfiguredAuditCatalogAssignmentChecklistStore,
     createPostgresAuditCatalogAssignmentChecklistStore,
     createSqliteAuditCatalogAssignmentChecklistStore,
     createDatabaseAuditCatalogAssignmentChecklistStore,
     createConfiguredAuditCatalogChecklistItemProgressStore,
     createPostgresAuditCatalogChecklistItemProgressStore,
     createSqliteAuditCatalogChecklistItemProgressStore,
     createDatabaseAuditCatalogChecklistItemProgressStore,
     createConfiguredAuditCatalogChecklistItemBlockerStore,
     createPostgresAuditCatalogChecklistItemBlockerStore,
     createSqliteAuditCatalogChecklistItemBlockerStore,
     createDatabaseAuditCatalogChecklistItemBlockerStore,
     createConfiguredAuditCatalogChecklistItemResolutionStore,
     createPostgresAuditCatalogChecklistItemResolutionStore,
     createSqliteAuditCatalogChecklistItemResolutionStore,
     createDatabaseAuditCatalogChecklistItemResolutionStore,
     createConfiguredAuditCatalogChecklistItemVerificationStore,
     createPostgresAuditCatalogChecklistItemVerificationStore,
     createSqliteAuditCatalogChecklistItemVerificationStore,
     createDatabaseAuditCatalogChecklistItemVerificationStore,
     createConfiguredAuditCatalogChecklistItemEvidenceStore,
     createPostgresAuditCatalogChecklistItemEvidenceStore,
     createSqliteAuditCatalogChecklistItemEvidenceStore,
     createDatabaseAuditCatalogChecklistItemEvidenceStore,
     createConfiguredAuditCatalogChecklistItemAttestationStore,
     createPostgresAuditCatalogChecklistItemAttestationStore,
     createSqliteAuditCatalogChecklistItemAttestationStore,
     createDatabaseAuditCatalogChecklistItemAttestationStore,
     createConfiguredAuditCatalogChecklistItemAcknowledgmentStore,
     createPostgresAuditCatalogChecklistItemAcknowledgmentStore,
     createSqliteAuditCatalogChecklistItemAcknowledgmentStore,
     createDatabaseAuditCatalogChecklistItemAcknowledgmentStore,
     createConfiguredAuditCatalogChecklistItemSignoffStore,
     createPostgresAuditCatalogChecklistItemSignoffStore,
     createSqliteAuditCatalogChecklistItemSignoffStore,
     createDatabaseAuditCatalogChecklistItemSignoffStore,
     createConfiguredToolHistoryStore, createPostgresToolHistoryStore,
     createSqliteToolHistoryStore, createDatabaseToolHistoryStore,
     SavedAuditViewClients, AuditViewCatalogClients,
     AuditCatalogVisibilityClients, AuditCatalogReviewSignalClients,
     AuditCatalogReviewAssignmentClients,
     AuditCatalogAssignmentChecklistClients,
     AuditCatalogChecklistItemProgressClients,
     AuditCatalogChecklistItemBlockerClients,
     AuditCatalogChecklistItemResolutionClients,
     AuditCatalogChecklistItemVerificationClients,
     AuditCatalogChecklistItemEvidenceClients,
     AuditCatalogChecklistItemAttestationClients,
     AuditCatalogChecklistItemAcknowledgmentClients,
     AuditCatalogChecklistItemSignoffClients, ToolHistoryClients
<1> QED BY <1>1, <1>2 DEF AccessStep, Configured,
     createConfiguredSavedAuditViewStore,
     createConfiguredAuditViewCatalogStore,
     createConfiguredAuditCatalogVisibilityStore,
     createConfiguredAuditCatalogReviewSignalStore,
     createConfiguredAuditCatalogReviewAssignmentStore,
     createConfiguredAuditCatalogAssignmentChecklistStore,
     createConfiguredAuditCatalogChecklistItemProgressStore,
     createConfiguredAuditCatalogChecklistItemBlockerStore,
     createConfiguredAuditCatalogChecklistItemResolutionStore,
     createConfiguredAuditCatalogChecklistItemVerificationStore,
     createConfiguredAuditCatalogChecklistItemEvidenceStore,
     createConfiguredAuditCatalogChecklistItemAttestationStore,
     createConfiguredAuditCatalogChecklistItemAcknowledgmentStore,
     createConfiguredAuditCatalogChecklistItemSignoffStore,
     createConfiguredToolHistoryStore

LEMMA StoreStepIs ==
  ASSUME NEW c \in Callers, StoreStep(c)
  PROVE  AccessStep(c)
BY InProcessStep, ConfiguredStep DEF StoreStep, AccessStep

-----------------------------------------------------------------------------
(* Types *)

KeysOf(s)   == IF s = ToolHistory THEN CallIds ELSE Entries
ValuesOf(s) == IF s = ToolHistory THEN Outcomes ELSE Processes

\* What a store may hold.
Tables(s) == UNION {[D -> ValuesOf(s)] : D \in SUBSET KeysOf(s)}

Database ==
  {d \in [applied : SUBSET AllVersions,
          rows : [InUse -> UNION {Tables(s) : s \in InUse}]] :
     \A s \in InUse : d.rows[s] \in Tables(s)}

PcsOf(d) ==
  CASE d = "memory"   -> {"idle", "called", "returned"}
    [] d = "file"     -> {"idle", "called", "queued", "task", "write", "unlock",
                          "unlockFailed", "returned", "threw"}
    [] d = "postgres" -> {"idle", "called", "migrating", "applying", "applied",
                          "ready", "task", "delete", "commit", "returned", "threw"}
    [] OTHER          -> {"idle", "called", "migrating", "applying", "migrated",
                          "notMigrated", "ready", "queued", "task", "delete",
                          "commit", "unlock", "unlockFailed", "returned", "threw"}

CallRecords ==
  [pc : PcsOf(driver), store : InUse, op : {"get", "list", "save", "delete"},
   key : CallIds \cup Entries \cup {NoKey}, val : Outcomes \cup Processes \cup {NoKey},
   image : Database \cup {NoImage}, edit : {"none", "save", "delete"}]

ReadyStates == {"none", "pending", "ready", "rejected"}

StoreTypes ==
  /\ setup \in Setups /\ home \in Homes
  /\ disk \in Database
  /\ call \in [Callers -> CallRecords]
  /\ ready \in [Processes -> [InUse -> ReadyStates]]
  /\ queue \in [Processes -> [InUse -> Seq(Callers)]]
  /\ \A p \in Processes, s \in InUse :
       queue[p][s] \in Seq({c \in Callers : home[c] = p})
  /\ faults \in 0 .. MaxFaults
  /\ driver = "memory" => \A c, d \in Callers : home[c] = home[d]

\* The rows of one store after a save and after a delete.
LEMMA TableIs ==
  ASSUME NEW s, NEW r
  PROVE  r \in Tables(s) <=> DOMAIN r \subseteq KeysOf(s) /\ r \in [DOMAIN r -> ValuesOf(s)]
BY DEF Tables

LEMMA HoldingIn ==
  ASSUME NEW s, NEW r \in Tables(s), NEW k \in KeysOf(s), NEW v \in ValuesOf(s)
  PROVE  /\ Holding(r, k, v) \in Tables(s)
         /\ DOMAIN Holding(r, k, v) = DOMAIN r \cup {k}
         /\ Holding(r, k, v)[k] = v
         /\ \A x \in DOMAIN r : x # k => Holding(r, k, v)[x] = r[x]
<1>1. DOMAIN r \subseteq KeysOf(s) /\ r \in [DOMAIN r -> ValuesOf(s)]
  BY TableIs
<1> DEFINE h == Holding(r, k, v)
<1>2. /\ DOMAIN h = DOMAIN r \cup {k} /\ h[k] = v
      /\ \A x \in DOMAIN r : x # k => h[x] = r[x]
      /\ h = [x \in DOMAIN h |-> h[x]]
  BY DEF Holding
<1> HIDE DEF h
<1>3. DOMAIN h \subseteq KeysOf(s) /\ \A x \in DOMAIN h : h[x] \in ValuesOf(s)
  BY <1>1, <1>2
<1>4. h \in [DOMAIN h -> ValuesOf(s)]
  BY <1>2, <1>3
<1>5. h \in Tables(s)
  BY <1>3, <1>4, TableIs
<1> QED BY <1>2, <1>5 DEF h

LEMMA WithoutIn ==
  ASSUME NEW s, NEW r \in Tables(s), NEW k
  PROVE  /\ Without(r, k) \in Tables(s)
         /\ DOMAIN Without(r, k) = DOMAIN r \ {k}
         /\ k \notin DOMAIN r => Without(r, k) = r
<1>1. DOMAIN r \subseteq KeysOf(s) /\ r \in [DOMAIN r -> ValuesOf(s)]
  BY TableIs
<1> DEFINE h == Without(r, k)
<1>2. /\ DOMAIN h = DOMAIN r \ {k} /\ \A x \in DOMAIN h : h[x] = r[x]
      /\ h = [x \in DOMAIN h |-> h[x]]
  BY DEF Without
<1>3. k \notin DOMAIN r => h = r
  <2>1. k \notin DOMAIN r => DOMAIN r \ {k} = DOMAIN r
    OBVIOUS
  <2> QED BY <1>1, <2>1 DEF Without
<1> HIDE DEF h
<1>4. h \in [DOMAIN h -> ValuesOf(s)]
  BY <1>1, <1>2
<1>5. h \in Tables(s)
  BY <1>1, <1>2, <1>4, TableIs
<1> QED BY <1>2, <1>3, <1>5 DEF h

LEMMA EmptyIn ==
  ASSUME NEW s
  PROVE  <<>> \in Tables(s) /\ DOMAIN <<>> = {}
<1>1. DOMAIN <<>> = {}
  OBVIOUS
<1>2. <<>> \in [{} -> ValuesOf(s)]
  OBVIOUS
<1> QED BY <1>1, <1>2, TableIs

\* The database with the rows of one store replaced.
LEMMA StoredIn ==
  ASSUME NEW d \in Database, NEW s \in InUse, NEW r \in Tables(s)
  PROVE  LET e == [d EXCEPT !.rows[s] = r] IN
         /\ e \in Database
         /\ e.applied = d.applied /\ e.rows = [d.rows EXCEPT ![s] = r]
         /\ e.rows[s] = r /\ \A q \in InUse : q # s => e.rows[q] = d.rows[q]
<1> DEFINE all == UNION {Tables(q) : q \in InUse}
           rs == [d.rows EXCEPT ![s] = r]
           e == [d EXCEPT !.rows[s] = r]
<1>1. /\ d \in [applied : SUBSET AllVersions, rows : [InUse -> all]]
      /\ \A q \in InUse : d.rows[q] \in Tables(q)
  BY DEF Database
<1>2. r \in all
  OBVIOUS
<1> HIDE DEF all
<1>3. rs \in [InUse -> all] /\ rs[s] = r /\ \A q \in InUse : q # s => rs[q] = d.rows[q]
  BY <1>1, <1>2
<1>4. e = [d EXCEPT !.rows = rs]
  OBVIOUS
<1> HIDE DEF rs
<1>5. /\ e \in [applied : SUBSET AllVersions, rows : [InUse -> all]]
      /\ e.applied = d.applied /\ e.rows = rs
  BY <1>1, <1>3, <1>4
<1> HIDE DEF e
<1>6. \A q \in InUse : e.rows[q] \in Tables(q)
  BY <1>1, <1>3, <1>5
<1>7. e \in Database
  BY <1>5, <1>6 DEF Database, all
<1> QED BY <1>3, <1>5, <1>7 DEF e, rs

\* The database with all migrations applied.
LEMMA AppliedIn ==
  ASSUME NEW d \in Database, NEW v \in SUBSET AllVersions
  PROVE  LET e == [d EXCEPT !.applied = v] IN
         e \in Database /\ e.applied = v /\ e.rows = d.rows
BY DEF Database

LEMMA DatabaseHas ==
  ASSUME NEW d \in Database
  PROVE  /\ d.applied \in SUBSET AllVersions
         /\ d.rows = [s \in InUse |-> d.rows[s]] /\ DOMAIN d.rows = InUse
         /\ \A s \in InUse : d.rows[s] \in Tables(s)
BY DEF Database

\* A database that is written with what it holds is what it was.
LEMMA StoredAgain ==
  ASSUME NEW d \in Database, NEW s \in InUse
  PROVE  [d EXCEPT !.rows[s] = d.rows[s]] = d
<1>1. d \in [applied : SUBSET AllVersions,
             rows : [InUse -> UNION {Tables(q) : q \in InUse}]]
  BY DEF Database
<1> DEFINE all == UNION {Tables(q) : q \in InUse}
<1> HIDE DEF all
<1>2. d \in [applied : SUBSET AllVersions, rows : [InUse -> all]]
  BY <1>1 DEF all
<1>3. [d.rows EXCEPT ![s] = d.rows[s]] = d.rows
  BY <1>2
<1>4. [d EXCEPT !.rows[s] = d.rows[s]] = [d EXCEPT !.rows = [d.rows EXCEPT ![s] = d.rows[s]]]
  OBVIOUS
<1>5. [d EXCEPT !.rows = d.rows] = d
  BY <1>2
<1> QED BY <1>3, <1>4, <1>5

\* Every store is among those of setup and history, and they differ.
LEMMA StoresInUse ==
  ASSUME setup \in Setups
  PROVE  /\ setup.store \in CatalogStores /\ setup.store # ToolHistory
         /\ driver \in Drivers /\ setup.tasks \in Nat
         /\ InUse = {setup.store, ToolHistory} /\ InUse \subseteq Stores
         /\ setup.applied \in SUBSET AllVersions
BY RecordStoresAssumption DEF driver, InUse, CatalogStores, ToolHistory, Stores

-----------------------------------------------------------------------------
(* The migrations *)

\* Applying what is not applied applies everything, in whatever order the list
\* has its migrations.
LEMMA AppliesAll ==
  ASSUME NEW applied \in SUBSET AllVersions
  PROVE  applyRuntimePersistenceMigrations(applied) = AllVersions
BY DEF applyRuntimePersistenceMigrations, AllVersions

\* Every store has its table once all migrations are applied.
LEMMA TablesOfAll ==
  ASSUME NEW s \in Stores
  PROVE  s \in TablesOf(AllVersions)
<1> DEFINE M == runtimePersistenceMigrations
<1>1. TablesOf(AllVersions) = UNION {m.tables : m \in M}
  BY DEF TablesOf, AllVersions
<1>2. \E m \in M : s \in m.tables
  BY DEF Stores, CatalogStores, ToolHistory, runtimePersistenceMigrations,
         baseline, dispatchQueue, toolHistory, savedAuditViews,
         auditViewCatalogEntries, auditCatalogVisibility, reviewSignals,
         reviewAssignments, assignmentChecklists, checklistItemProgress,
         checklistItemBlockers, checklistItemResolutions,
         checklistItemVerifications, checklistItemEvidence,
         checklistItemAttestation, checklistItemSignoff,
         checklistItemAcknowledgment, Migration
<1> QED BY <1>1, <1>2

-----------------------------------------------------------------------------
(* The invariant of the stores *)

\* A request asks for what its store has, and edits what it asked for.
Shape(t) ==
  /\ t.op \in Operations(t.store)
  /\ t.op # "list" => t.key \in KeysOf(t.store) /\ t.val \in ValuesOf(t.store)
  /\ t.pc = "write" => t.edit = t.op
  /\ t.pc = "delete" => t.op = "delete"
  /\ t.pc = "commit" =>
       \/ t.edit = t.op
       \/ /\ t.op = "delete" /\ t.edit = "none"
          /\ driver = "sqlite" => t.key \notin DOMAIN t.image.rows[t.store]

\* The calls that have made the lock file of their file.
HoldsLock(t) ==
  /\ driver \in {"file", "sqlite"}
  /\ \/ t.pc \in {"applying", "migrated", "notMigrated", "delete", "commit",
                  "write", "unlock", "unlockFailed"}
     \/ t.pc = "task" /\ t.op \in {"save", "delete"}

Holds(c) == HoldsLock(call[c])

FileUsed(c) == FileOf(call[c].store)

\* Two holders have different files, and a lock file that nobody holds was left
\* by a process that died.
LockInv ==
  /\ \A c \in Callers : Holds(c) => FileUsed(c) \in lock
  /\ \A c, d \in Callers : Holds(c) /\ Holds(d) /\ c # d => FileUsed(c) # FileUsed(d)
  /\ faults = 0 => \A f \in lock : \E c \in Callers : Holds(c) /\ FileUsed(c) = f

\* What a holder has read is what is stored, until it has written.
Fresh(c) ==
  Holds(c) /\ call[c].pc \in {"applying", "task", "delete", "commit", "write"} =>
    /\ call[c].image \in Database
    /\ Snapshot(c) = Rows(c)
    /\ driver = "sqlite" => call[c].image = disk

Migrates(t) ==
  t.pc \in {"migrating", "applying", "applied", "migrated", "notMigrated"}

Migrating(c) == Migrates(call[c])

\* One call of a handle migrates, and the others wait for it.
MigrationInv ==
  /\ \A c \in Callers : Migrating(c) => Ready(c) = "pending"
  /\ \A c, d \in Callers :
       Migrating(c) /\ Migrating(d) /\ c # d =>
         me(c) # me(d) \/ call[c].store # call[d].store

\* The schema is there as soon as a handle is ready, and stays.
SchemaInv ==
  /\ disk.applied \in {setup.applied, AllVersions}
  /\ driver \in {"postgres", "sqlite"} =>
       \A p \in Processes, s \in InUse :
         ready[p][s] = "ready" => disk.applied = AllVersions
  /\ RejectedByTheOther

\* What a call knows of it.
Schema(c) ==
  /\ call[c].pc \in {"ready", "migrated"} => disk.applied = AllVersions
  /\ /\ driver \in {"postgres", "sqlite"}
     /\ call[c].pc \in {"queued", "task", "delete", "commit"}
     => /\ disk.applied = AllVersions
        /\ driver = "sqlite" /\ call[c].pc # "queued" =>
             call[c].image.applied = AllVersions
  /\ driver = "postgres" /\ call[c].pc \in {"applying", "applied"} =>
       call[c].image.applied = setup.applied
  /\ driver = "postgres" /\ faults = 0 /\ call[c].pc = "threw" => Ready(c) = "rejected"

StoreInv ==
  /\ StoreTypes /\ LockInv /\ MigrationInv /\ SchemaInv
  /\ \A c \in Callers : Shape(call[c]) /\ Fresh(c) /\ Schema(c)

-----------------------------------------------------------------------------
(* What a step of one call may change *)

\* Where a call is, as the abstract stores see it.
StateOf(t) ==
  CASE t.pc \in {"idle", "returned", "threw"} -> t.pc
    [] \/ t.pc = "unlock"
       \/ driver = "postgres" /\ t.pc = "commit" /\ t.op = "delete" /\ t.edit = "none"
                                              -> "applied"
    [] OTHER                                  -> "pending"

SameRequest(t, u) ==
  t.store = u.store /\ t.op = u.op /\ t.key = u.key /\ t.val = u.val

\* The rows of its store once the call has had its effect.
Effected(c) ==
  CASE call[c].op = "save"   -> Holding(Rows(c), call[c].key, call[c].val)
    [] call[c].op = "delete" -> Without(Rows(c), call[c].key)
    [] OTHER                 -> Rows(c)

LockMoves(c) ==
  \/ lock' = lock /\ (HoldsLock(call'[c]) <=> Holds(c))
  \/ /\ FileUsed(c) \notin lock /\ lock' = lock \cup {FileUsed(c)}
     /\ HoldsLock(call'[c]) /\ ~Holds(c)
  \/ /\ lock' = lock \ {FileUsed(c)}
     /\ Holds(c) /\ ~HoldsLock(call'[c])

QueueMoves(c) == queue' = queue \/ Joins(c) \/ Leaves(c)

ReadyMoves(c) ==
  \/ ready' = ready /\ (Migrates(call'[c]) => Migrating(c))
  \/ Ready(c) = "none" /\ SetReady(c, "pending") /\ ~Migrating(c)
  \/ /\ Migrating(c) /\ ~Migrates(call'[c])
     /\ \/ SetReady(c, "ready") /\ disk'.applied = AllVersions
        \/ /\ SetReady(c, "rejected")
           /\ driver = "postgres" /\ faults' = 0 => disk'.applied = AllVersions

\* Rows change under the lock of their file, and at once to what they are when
\* the call has had its effect.
DiskMoves(c) ==
  \/ disk' = disk
  \/ /\ disk' = [disk EXCEPT !.rows[call[c].store] = Effected(c)]
     /\ driver \in {"file", "sqlite"} => Holds(c)
  \/ /\ disk' = [disk EXCEPT !.applied = AllVersions]
     /\ Migrating(c) /\ (driver \in {"file", "sqlite"} => Holds(c))

StateMoves(c) ==
  LET from == StateOf(call[c])
      to   == StateOf(call'[c])
  IN \/ /\ disk'.rows = disk.rows
        /\ \/ to = from
           \/ from = "applied" /\ to \in {"returned", "threw"}
           \/ from = "pending" /\ to = "threw"
     \/ /\ from = "pending" /\ to \in {"applied", "returned", "threw"}
        /\ disk' = [disk EXCEPT !.rows[call[c].store] = Effected(c)]

Moves(c) ==
  /\ UNCHANGED <<setup, home>>
  /\ call' = [call EXCEPT ![c] = call'[c]]
  /\ call'[c] \in CallRecords /\ SameRequest(call'[c], call[c])
  /\ call[c].pc \notin {"idle", "returned", "threw"} /\ call'[c].pc # "idle"
  /\ LockMoves(c) /\ QueueMoves(c) /\ ReadyMoves(c) /\ DiskMoves(c) /\ StateMoves(c)
  /\ faults' \in faults .. MaxFaults
  /\ Shape(call'[c]) /\ Fresh(c)' /\ Schema(c)'

-----------------------------------------------------------------------------
(* Such a step keeps the invariant *)

LEMMA EffectedIn ==
  ASSUME StoreInv, NEW c \in Callers
  PROVE  /\ Rows(c) \in Tables(call[c].store)
         /\ Effected(c) \in Tables(call[c].store)
<1> DEFINE t == call[c]
<1>1. t \in CallRecords /\ Shape(t) /\ disk \in Database
  BY DEF StoreInv, StoreTypes
<1>2. t.store \in InUse /\ t.op \in {"get", "list", "save", "delete"}
  BY <1>1 DEF CallRecords
<1>3. Rows(c) \in Tables(t.store)
  BY <1>1, <1>2, DatabaseHas DEF Rows
<1>4. t.op # "list" => t.key \in KeysOf(t.store) /\ t.val \in ValuesOf(t.store)
  BY <1>1 DEF Shape
<1>5. t.op = "save" => Holding(Rows(c), t.key, t.val) \in Tables(t.store)
  BY <1>3, <1>4, HoldingIn
<1>6. Without(Rows(c), t.key) \in Tables(t.store)
  BY <1>3, WithoutIn
<1> QED BY <1>2, <1>3, <1>5, <1>6 DEF Effected

\* The database after a step.
LEMMA DiskMovesIn ==
  ASSUME StoreInv, NEW c \in Callers, DiskMoves(c)
  PROVE  /\ disk' \in Database
         /\ disk'.applied \in {disk.applied, AllVersions}
         /\ \A s \in InUse : s # call[c].store => disk'.rows[s] = disk.rows[s]
         /\ disk'.applied # disk.applied => disk'.rows = disk.rows
<1>1. disk \in Database /\ call[c].store \in InUse
  BY DEF StoreInv, StoreTypes, CallRecords
<1>2. CASE disk' = disk
  BY <1>1, <1>2
<1>3. CASE disk' = [disk EXCEPT !.rows[call[c].store] = Effected(c)]
  BY <1>1, <1>3, EffectedIn, StoredIn
<1>4. CASE disk' = [disk EXCEPT !.applied = AllVersions]
  <2>1. AllVersions \in SUBSET AllVersions
    OBVIOUS
  <2> QED BY <1>1, <1>4, <2>1, AppliedIn
<1> QED BY <1>2, <1>3, <1>4 DEF DiskMoves

LEMMA QueueMovesIn ==
  ASSUME StoreTypes, NEW c \in Callers, QueueMoves(c), UNCHANGED <<setup, home>>
  PROVE  /\ queue' \in [Processes -> [InUse -> Seq(Callers)]]
         /\ \A p \in Processes, s \in InUse :
              queue'[p][s] \in Seq({d \in Callers : home[d] = p})
<1> DEFINE s0 == call[c].store
           p0 == home[c]
           q == queue[p0][s0]
<1>1. /\ queue \in [Processes -> [InUse -> Seq(Callers)]] /\ p0 \in Processes
      /\ \A p \in Processes, s \in InUse :
           queue[p][s] \in Seq({d \in Callers : home[d] = p})
      /\ s0 \in InUse
  BY RecordStoresAssumption DEF StoreTypes, CallRecords
<1>2. q \in Seq(Callers) /\ q \in Seq({d \in Callers : home[d] = p0})
  BY <1>1
<1>3. /\ Append(q, c) \in Seq(Callers)
      /\ Append(q, c) \in Seq({d \in Callers : home[d] = p0})
  BY <1>2
<1>4. q # <<>> => Tail(q) \in Seq(Callers) /\ Tail(q) \in Seq({d \in Callers : home[d] = p0})
  BY <1>2
<1>5. PICK n : /\ queue' = queue \/ queue' = [queue EXCEPT ![p0][s0] = n]
               /\ n \in Seq(Callers) /\ n \in Seq({d \in Callers : home[d] = p0})
  <2>1. CASE queue' = queue
    BY <1>2, <2>1
  <2>2. CASE Joins(c)
    BY <1>3, <2>2 DEF Joins, me
  <2>3. CASE Leaves(c)
    <3>1. queue' = [queue EXCEPT ![p0][s0] = IF InLine(c) THEN Tail(q) ELSE q]
      BY <2>3 DEF Leaves, me
    <3>2. InLine(c) => q # <<>>
      BY DEF InLine, Line, me
    <3> QED BY <1>2, <1>4, <3>1, <3>2
  <2> QED BY <2>1, <2>2, <2>3 DEF QueueMoves
<1> HIDE DEF p0, s0, q
<1>6. \A p \in Processes, s \in InUse :
        \/ queue'[p][s] = queue[p][s]
        \/ p = p0 /\ queue'[p][s] = n
  BY <1>1, <1>5
<1>7. queue' \in [Processes -> [InUse -> Seq(Callers)]]
  <2> DEFINE Line1 == [queue[p0] EXCEPT ![s0] = n]
             Lines == [InUse -> Seq(Callers)]
  <2>1. Line1 \in Lines
    BY <1>1, <1>5
  <2>2. \/ queue' = queue
        \/ queue' = [queue EXCEPT ![p0] = Line1]
    BY <1>5
  <2>3. queue \in [Processes -> Lines]
    BY <1>1
  <2> HIDE DEF Line1, Lines
  <2>4. queue' \in [Processes -> Lines]
    BY <1>1, <2>1, <2>2, <2>3
  <2> QED BY <2>4 DEF Lines
<1>8. ASSUME NEW p \in Processes, NEW s \in InUse
      PROVE  queue'[p][s] \in Seq({d \in Callers : home[d] = p})
  <2>1. CASE queue'[p][s] = queue[p][s]
    BY <1>1, <2>1
  <2>2. CASE p = p0 /\ queue'[p][s] = n
    BY <1>5, <2>2
  <2> QED BY <1>6, <2>1, <2>2
<1> QED BY <1>7, <1>8

\* One call moves, and the others are where they were.
LEMMA OneMoves ==
  ASSUME StoreInv, NEW c \in Callers, Moves(c)
  PROVE  /\ \A d \in Callers : d # c => call'[d] = call[d]
         /\ SameRequest(call'[c], call[c])
         /\ driver' = driver /\ InUse' = InUse
         /\ \A d \in Callers :
              /\ FileUsed(d)' = FileUsed(d) /\ me(d)' = me(d)
              /\ call'[d].store = call[d].store /\ call[d].store \in InUse
              /\ me(d) \in Processes
         /\ \A d \in Callers : d # c =>
              (Holds(d)' <=> Holds(d)) /\ (Migrating(d)' <=> Migrating(d))
         /\ (Holds(c)' <=> HoldsLock(call'[c])) /\ (Migrating(c)' <=> Migrates(call'[c]))
<1>1. /\ call \in [Callers -> CallRecords] /\ call' = [call EXCEPT ![c] = call'[c]]
      /\ setup' = setup /\ home' = home /\ home \in [Callers -> Processes]
  BY RecordStoresAssumption DEF StoreInv, StoreTypes, Moves
<1>2. \A d \in Callers : d # c => call'[d] = call[d]
  BY <1>1
<1>3. SameRequest(call'[c], call[c])
  BY DEF Moves
<1>4. driver' = driver /\ InUse' = InUse
  BY <1>1 DEF driver, InUse
<1>5. \A d \in Callers : call'[d].store = call[d].store /\ call[d].store \in InUse
  BY <1>1, <1>2, <1>3 DEF SameRequest, CallRecords
<1> QED BY <1>1, <1>2, <1>3, <1>4, <1>5
        DEF FileUsed, FileOf, me, Holds, HoldsLock, Migrating, Migrates

LEMMA TypesKept ==
  ASSUME StoreInv, NEW c \in Callers, Moves(c)
  PROVE  StoreTypes'
<1>1. UNCHANGED <<setup, home>> /\ setup \in Setups /\ home \in Homes
  BY DEF Moves, StoreInv, StoreTypes
<1>2. /\ driver' = driver /\ InUse' = InUse /\ CallRecords' = CallRecords
      /\ Database' = Database /\ \A s : Tables(s)' = Tables(s)
  BY <1>1 DEF driver, InUse, CallRecords, PcsOf, Database, Tables, KeysOf, ValuesOf
<1>3. disk' \in Database
  BY DiskMovesIn DEF Moves
<1>4. call' \in [Callers -> CallRecords]
  BY DEF Moves, StoreInv, StoreTypes
<1>5. /\ queue' \in [Processes -> [InUse -> Seq(Callers)]]
      /\ \A p \in Processes, s \in InUse :
           queue'[p][s] \in Seq({d \in Callers : home[d] = p})
  <2>1. StoreTypes /\ QueueMoves(c) /\ UNCHANGED <<setup, home>>
    BY DEF Moves, StoreInv
  <2> QED BY <2>1, QueueMovesIn
<1>6. ready' \in [Processes -> [InUse -> ReadyStates]]
  <2>1. /\ ready \in [Processes -> [InUse -> ReadyStates]]
        /\ me(c) \in Processes /\ call[c].store \in InUse
    BY OneMoves DEF StoreInv, StoreTypes
  <2>2. PICK r \in ReadyStates : ready' = ready \/ SetReady(c, r)
    BY DEF Moves, ReadyMoves, ReadyStates
  <2> QED BY <2>1, <2>2 DEF SetReady
<1>7. faults' \in 0 .. MaxFaults
  BY RecordStoresAssumption DEF Moves, StoreInv, StoreTypes
<1>8. driver = "memory" => \A a, b \in Callers : home[a] = home[b]
  BY DEF StoreInv, StoreTypes
<1> QED BY <1>1, <1>2, <1>3, <1>4, <1>5, <1>6, <1>7, <1>8 DEF StoreTypes, ReadyStates

LEMMA LocksKept ==
  ASSUME StoreInv, NEW c \in Callers, Moves(c)
  PROVE  LockInv'
<1> USE OneMoves
<1>1. LockInv /\ LockMoves(c) /\ faults' \in faults .. MaxFaults /\ faults \in Nat
  BY DEF Moves, StoreInv, StoreTypes
<1>2. faults' = 0 => faults = 0
  BY RecordStoresAssumption, <1>1
<1>3. CASE lock' = lock /\ (HoldsLock(call'[c]) <=> Holds(c))
  <2>1. \A d \in Callers : Holds(d)' <=> Holds(d)
    BY <1>3
  <2> QED BY <1>1, <1>2, <1>3, <2>1 DEF LockInv
<1>4. CASE /\ FileUsed(c) \notin lock /\ lock' = lock \cup {FileUsed(c)}
           /\ HoldsLock(call'[c]) /\ ~Holds(c)
  BY <1>1, <1>2, <1>4 DEF LockInv
<1>5. CASE /\ lock' = lock \ {FileUsed(c)}
           /\ Holds(c) /\ ~HoldsLock(call'[c])
  BY <1>1, <1>2, <1>5 DEF LockInv
<1> QED BY <1>1, <1>3, <1>4, <1>5 DEF LockMoves

\* The promise of a handle changes only when its migration starts or ends.
LEMMA ReadyIs ==
  ASSUME StoreInv, NEW c \in Callers, Moves(c)
  PROVE  /\ \A p \in Processes, s \in InUse :
              p # me(c) \/ s # call[c].store => ready'[p][s] = ready[p][s]
         /\ \/ ready' = ready
            \/ Ready(c) \in {"none", "pending"}
         /\ \/ ready'[me(c)][call[c].store] = Ready(c)
            \/ Ready(c) = "none" /\ ready'[me(c)][call[c].store] = "pending"
            \/ /\ Ready(c) = "pending"
               /\ ready'[me(c)][call[c].store] = "ready" /\ disk'.applied = AllVersions
            \/ /\ Ready(c) = "pending"
               /\ ready'[me(c)][call[c].store] = "rejected"
               /\ driver = "postgres" /\ faults' = 0 => disk'.applied = AllVersions
<1>1. /\ ready \in [Processes -> [InUse -> ReadyStates]]
      /\ me(c) \in Processes /\ call[c].store \in InUse
      /\ Migrating(c) => Ready(c) = "pending"
      /\ ReadyMoves(c)
  BY OneMoves DEF StoreInv, StoreTypes, MigrationInv, Moves
<1>2. \A r : SetReady(c, r) =>
        /\ ready'[me(c)][call[c].store] = r
        /\ \A p \in Processes, s \in InUse :
             p # me(c) \/ s # call[c].store => ready'[p][s] = ready[p][s]
  BY <1>1 DEF SetReady
<1> QED BY <1>1, <1>2 DEF ReadyMoves, Ready

LEMMA MigrationsKept ==
  ASSUME StoreInv, NEW c \in Callers, Moves(c)
  PROVE  MigrationInv'
<1>1. /\ MigrationInv /\ ReadyMoves(c)
      /\ ready \in [Processes -> [InUse -> ReadyStates]]
  BY DEF StoreInv, StoreTypes, Moves
<1>2. ASSUME NEW d \in Callers, Migrating(d)' PROVE Ready(d)' = "pending"
  <2>1. Ready(d)' = ready'[me(d)][call[d].store]
    BY OneMoves DEF Ready
  <2>2. CASE d = c
    <3>1. Migrates(call'[c])
      BY <1>2, <2>2, OneMoves
    <3> QED BY <1>1, <2>1, <2>2, <3>1, ReadyIs, OneMoves
            DEF ReadyMoves, SetReady, MigrationInv, Ready
  <2>3. CASE d # c
    <3>1. Migrating(d) /\ Ready(d) = "pending"
      BY <1>1, <1>2, <2>3, OneMoves DEF MigrationInv
    <3>2. CASE me(d) # me(c) \/ call[d].store # call[c].store
      BY <2>1, <3>1, <3>2, ReadyIs, OneMoves DEF Ready
    <3>3. CASE me(d) = me(c) /\ call[d].store = call[c].store
      <4>1. ~Migrating(c) /\ Ready(c) = "pending"
        BY <1>1, <2>3, <3>1, <3>3 DEF MigrationInv, Ready
      <4> QED BY <1>1, <2>1, <3>1, <3>3, <4>1 DEF ReadyMoves, Ready
    <3> QED BY <3>2, <3>3
  <2> QED BY <2>2, <2>3
<1>3. ASSUME NEW d \in Callers, NEW e \in Callers, d # e,
             Migrating(d)', Migrating(e)'
      PROVE  me(d) # me(e) \/ call[d].store # call[e].store
  <2>1. CASE d # c /\ e # c
    BY <1>1, <1>3, <2>1, OneMoves DEF MigrationInv
  <2>2. ASSUME NEW f \in Callers, f # c, Migrating(f)', Migrating(c)'
        PROVE  me(f) # me(c) \/ call[f].store # call[c].store
    <3>1. Migrating(f) /\ Ready(f) = "pending"
      BY <1>1, <2>2, OneMoves DEF MigrationInv
    <3>2. Migrating(c) \/ Ready(c) = "none"
      BY <1>1, <2>2, OneMoves DEF ReadyMoves
    <3> QED BY <1>1, <2>2, <3>1, <3>2 DEF MigrationInv, Ready
  <2> QED BY <1>3, <2>1, <2>2
<1> QED BY <1>2, <1>3, OneMoves DEF MigrationInv

LEMMA SchemaKept ==
  ASSUME StoreInv, NEW c \in Callers, Moves(c)
  PROVE  SchemaInv'
<1>1. /\ disk'.applied \in {disk.applied, AllVersions}
      /\ setup' = setup /\ driver' = driver /\ InUse' = InUse
      /\ SchemaInv /\ AllVersions' = AllVersions
  BY DiskMovesIn, OneMoves DEF Moves, StoreInv, AllVersions
<1>2. disk'.applied \in {setup.applied, AllVersions}
  BY <1>1 DEF SchemaInv
<1>3. faults' = 0 => faults = 0
  BY RecordStoresAssumption DEF Moves, StoreInv, StoreTypes
<1>4. \A p \in Processes, s \in InUse :
        \/ ready'[p][s] = ready[p][s]
        \/ ready'[p][s] = "pending"
        \/ ready'[p][s] = "ready" /\ disk'.applied = AllVersions
        \/ /\ ready'[p][s] = "rejected"
           /\ driver = "postgres" /\ faults' = 0 => disk'.applied = AllVersions
  BY ReadyIs DEF Ready
<1> QED BY <1>1, <1>2, <1>3, <1>4 DEF SchemaInv, RejectedByTheOther

\* What another call has read and knows is still so.
LEMMA OthersKept ==
  ASSUME StoreInv, NEW c \in Callers, Moves(c), NEW d \in Callers, d # c
  PROVE  Shape(call[d])' /\ Fresh(d)' /\ Schema(d)'
<1> DEFINE t == call[d]
<1>1. /\ call'[d] = t /\ driver' = driver /\ setup' = setup
      /\ Shape(t) /\ Fresh(d) /\ Schema(d) /\ t \in CallRecords
      /\ call[c].store \in InUse /\ t.store \in InUse /\ disk \in Database
  BY OneMoves DEF Moves, StoreInv, StoreTypes
<1>2. /\ disk' \in Database
      /\ disk'.applied \in {disk.applied, AllVersions}
      /\ disk' = disk \/ (driver \in {"file", "sqlite"} => Holds(c))
      /\ disk' = disk \/ disk'.rows[t.store] = disk.rows[t.store] \/ t.store = call[c].store
  BY <1>1, DiskMovesIn DEF DiskMoves, Moves
<1>3. Shape(call[d])'
  BY <1>1 DEF Shape, Operations, Deletes, KeysOf, ValuesOf
<1>4. Fresh(d)'
  <2>1. (Holds(d)' <=> Holds(d)) /\ call'[d] = call[d] /\ Database' = Database
        /\ Snapshot(d)' = Snapshot(d)
    BY <1>1, OneMoves DEF Snapshot, Database, Tables, KeysOf, ValuesOf, InUse
  <2>2. CASE disk' = disk
    BY <1>1, <2>1, <2>2 DEF Fresh, Rows
  <2>3. CASE Holds(d) /\ disk' # disk
    <3>1. driver \in {"file", "sqlite"} /\ Holds(c)
      BY <1>2, <2>3 DEF Holds, HoldsLock
    <3>2. FileUsed(c) # FileUsed(d)
      BY <2>3, <3>1 DEF StoreInv, LockInv
    <3>3. driver = "file" /\ call[c].store # t.store
      BY <3>1, <3>2 DEF FileUsed, FileOf
    <3>4. Rows(d)' = Rows(d)
      BY <1>1, <1>2, <2>3, <3>3 DEF Rows
    <3> QED BY <1>1, <2>1, <3>3, <3>4 DEF Fresh
  <2> QED BY <2>1, <2>2, <2>3 DEF Fresh
<1>5. Schema(d)'
  <2>1. AllVersions' = AllVersions
    BY DEF AllVersions
  <2>2. disk.applied = AllVersions => disk'.applied = AllVersions
    BY <1>2
  <2>3. faults' = 0 => faults = 0
    BY RecordStoresAssumption DEF Moves, StoreInv, StoreTypes
  <2>4. Ready(d) = "rejected" => Ready(d)' = "rejected"
    BY ReadyIs, OneMoves DEF Ready
  <2> QED BY <1>1, <2>1, <2>2, <2>3, <2>4 DEF Schema
<1> QED BY <1>3, <1>4, <1>5

LEMMA MovesKeep ==
  ASSUME StoreInv, NEW c \in Callers, Moves(c)
  PROVE  StoreInv'
<1>1. Shape(call[c])' /\ Fresh(c)' /\ Schema(c)'
  <2>1. driver' = driver
    BY OneMoves
  <2> QED BY <2>1 DEF Moves, Shape, Operations, Deletes, KeysOf, ValuesOf
<1>2. \A d \in Callers : Shape(call[d])' /\ Fresh(d)' /\ Schema(d)'
  BY <1>1, OthersKept
<1> QED BY <1>2, TypesKept, LocksKept, MigrationsKept, SchemaKept DEF StoreInv

-----------------------------------------------------------------------------
(* Every step of a store is such a step *)

\* The call goes to pc, with an image and an edit.
Becomes(c, pc, image, edit) ==
  /\ call' = [call EXCEPT ![c] = call'[c]]
  /\ call'[c] = [pc |-> pc, store |-> call[c].store, op |-> call[c].op,
                 key |-> call[c].key, val |-> call[c].val,
                 image |-> image, edit |-> edit]

LEMMA CallIs ==
  ASSUME StoreInv, NEW c \in Callers
  PROVE  /\ call \in [Callers -> CallRecords] /\ call[c] \in CallRecords
         /\ call[c] = [pc |-> call[c].pc, store |-> call[c].store, op |-> call[c].op,
                       key |-> call[c].key, val |-> call[c].val,
                       image |-> call[c].image, edit |-> call[c].edit]
         /\ call[c].pc \in PcsOf(driver) /\ call[c].store \in InUse
         /\ call[c].op \in {"get", "list", "save", "delete"}
         /\ call[c].image \in Database \cup {NoImage}
         /\ call[c].edit \in {"none", "save", "delete"}
         /\ call[c].op \in Operations(call[c].store)
         /\ disk \in Database /\ setup \in Setups /\ home \in Homes /\ driver \in Drivers
<1>1. call \in [Callers -> CallRecords] /\ Shape(call[c]) /\ setup \in Setups
      /\ disk \in Database /\ home \in Homes
  BY DEF StoreInv, StoreTypes
<1>2. call[c] \in CallRecords /\ driver \in Drivers
  BY <1>1, StoresInUse
<1> QED BY <1>1, <1>2 DEF CallRecords, Shape

LEMMA GotoIs ==
  ASSUME StoreInv, NEW c \in Callers, NEW pc, Goto(c, pc)
  PROVE  Becomes(c, pc, call[c].image, call[c].edit)
<1>1. call \in [Callers -> CallRecords] /\ call' = [call EXCEPT ![c].pc = pc]
  BY CallIs DEF Goto
<1>2. call'[c] = [call[c] EXCEPT !.pc = pc]
  BY <1>1
<1>3. call'[c] = [pc |-> pc, store |-> call[c].store, op |-> call[c].op,
                  key |-> call[c].key, val |-> call[c].val,
                  image |-> call[c].image, edit |-> call[c].edit]
  BY <1>2, CallIs
<1> QED BY <1>1, <1>2, <1>3 DEF Becomes

LEMMA EndsIs ==
  ASSUME StoreInv, NEW c \in Callers, NEW how, Ends(c, how)
  PROVE  Becomes(c, how, NoImage, "none")
BY CallIs DEF Ends, Call, Becomes

LEMMA ReadsIs ==
  ASSUME StoreInv, NEW c \in Callers, NEW pc, NEW image,
         call' = [call EXCEPT ![c].pc = pc, ![c].image = image]
  PROVE  Becomes(c, pc, image, call[c].edit)
<1>1. call \in [Callers -> CallRecords]
  BY CallIs
<1>2. call'[c] = [call[c] EXCEPT !.pc = pc, !.image = image]
  BY <1>1
<1>3. call'[c] = [pc |-> pc, store |-> call[c].store, op |-> call[c].op,
                  key |-> call[c].key, val |-> call[c].val,
                  image |-> image, edit |-> call[c].edit]
  BY <1>2, CallIs
<1>4. call' = [call EXCEPT ![c] = call'[c]]
  BY <1>1
<1> QED BY <1>3, <1>4 DEF Becomes

LEMMA EditsIs ==
  ASSUME StoreInv, NEW c \in Callers, NEW edit, NEW pc, Edits(c, edit, pc)
  PROVE  Becomes(c, pc, call[c].image, edit)
<1>1. /\ call \in [Callers -> CallRecords]
      /\ call' = [call EXCEPT ![c].edit = edit, ![c].pc = pc]
  BY CallIs DEF Edits
<1>2. call'[c] = [call[c] EXCEPT !.edit = edit, !.pc = pc]
  BY <1>1
<1>3. call'[c] = [pc |-> pc, store |-> call[c].store, op |-> call[c].op,
                  key |-> call[c].key, val |-> call[c].val,
                  image |-> call[c].image, edit |-> edit]
  BY <1>2, CallIs
<1>4. call' = [call EXCEPT ![c] = call'[c]]
  BY <1>1
<1> QED BY <1>3, <1>4 DEF Becomes

\* The record of a call that moved.
LEMMA BecomesIs ==
  ASSUME StoreInv, NEW c \in Callers, setup' = setup, home' = home,
         NEW pc \in PcsOf(driver), NEW image \in Database \cup {NoImage},
         NEW edit \in {"none", "save", "delete"}, Becomes(c, pc, image, edit)
  PROVE  /\ call'[c] \in CallRecords /\ SameRequest(call'[c], call[c])
         /\ call' = [call EXCEPT ![c] = call'[c]]
         /\ call'[c].pc = pc /\ call'[c].image = image /\ call'[c].edit = edit
         /\ call'[c].op = call[c].op /\ call'[c].store = call[c].store
         /\ call'[c].key = call[c].key /\ call'[c].val = call[c].val
         /\ driver' = driver /\ setup' = setup /\ me(c)' = me(c)
         /\ driver \in Drivers /\ faults \in 0 .. MaxFaults
         /\ Database' = Database /\ AllVersions' = AllVersions
<1>1. /\ call[c].store \in InUse /\ call[c].op \in {"get", "list", "save", "delete"}
      /\ call[c] \in CallRecords
      /\ driver \in Drivers /\ faults \in 0 .. MaxFaults
  BY CallIs DEF StoreInv, StoreTypes
<1>2. call[c].key \in CallIds \cup Entries \cup {NoKey}
      /\ call[c].val \in Outcomes \cup Processes \cup {NoKey}
  BY <1>1 DEF CallRecords
<1>3. call'[c] \in CallRecords
  BY <1>1, <1>2 DEF CallRecords, Becomes
<1>4. driver' = driver /\ setup' = setup /\ me(c)' = me(c) /\ Database' = Database
      /\ AllVersions' = AllVersions
  BY DEF driver, me, Database, Tables, KeysOf, ValuesOf, InUse, AllVersions
<1> QED BY <1>1, <1>3, <1>4 DEF Becomes, SameRequest

\* In memory the step is the whole call.
LEMMA MemoryMoves ==
  ASSUME StoreInv, NEW c \in Callers, driver = "memory", MemoryStep(c)
  PROVE  Moves(c)
<1>1. /\ call[c].pc = "called" /\ UNCHANGED <<setup, home, lock, ready, queue, faults>>
      /\ disk' = [disk EXCEPT !.rows[call[c].store] = Effected(c)]
  BY DEF MemoryStep, memoryDelete, memoryGet, memoryList, memorySave, InMemory,
         Stored, Effected, Quietly
<1>2. Becomes(c, "returned", NoImage, "none")
  BY EndsIs DEF MemoryStep, memoryDelete, memoryGet, memoryList, memorySave, InMemory
<1>3. "returned" \in PcsOf(driver)
  BY DEF PcsOf
<1>4. /\ call'[c] \in CallRecords /\ SameRequest(call'[c], call[c])
      /\ call' = [call EXCEPT ![c] = call'[c]]
      /\ call'[c].pc = "returned" /\ driver' = driver /\ faults \in 0 .. MaxFaults
  BY <1>1, <1>2, <1>3, BecomesIs
<1>5. Shape(call'[c]) /\ Fresh(c)' /\ Schema(c)'
  BY <1>4 DEF StoreInv, Shape, SameRequest, Fresh, Schema, Holds, HoldsLock
<1>6. LockMoves(c) /\ QueueMoves(c) /\ ReadyMoves(c)
  BY <1>1, <1>4 DEF LockMoves, QueueMoves, ReadyMoves, Holds, HoldsLock, Migrates
<1>7. DiskMoves(c) /\ StateMoves(c)
  BY <1>1, <1>4 DEF DiskMoves, StateMoves, StateOf
<1> QED BY <1>1, <1>4, <1>5, <1>6, <1>7 DEF Moves

LEMMA EnqueueMoves ==
  ASSUME StoreInv, NEW c \in Callers, NEW from,
         \/ driver = "file" /\ from = "called"
         \/ driver = "sqlite" /\ from = "ready",
         enqueueAccess(c, from)
  PROVE  Moves(c)
<1>1. /\ call[c].pc = from /\ Joins(c)
      /\ UNCHANGED <<setup, home, disk, lock, ready, faults>>
  BY DEF enqueueAccess, Quietly
<1>2. PICK im \in Database \cup {NoImage}, ed \in {"none", "save", "delete"} :
        Becomes(c, "queued", im, ed)
  BY CallIs, GotoIs DEF enqueueAccess
<1>3. "queued" \in PcsOf(driver)
  BY DEF PcsOf
<1>4. /\ call'[c] \in CallRecords /\ SameRequest(call'[c], call[c])
      /\ call' = [call EXCEPT ![c] = call'[c]]
      /\ call'[c].pc = "queued" /\ driver' = driver /\ faults \in 0 .. MaxFaults
      /\ AllVersions' = AllVersions
  BY <1>1, <1>2, <1>3, BecomesIs
<1>5. Shape(call'[c]) /\ Fresh(c)' /\ Schema(c)'
  BY <1>1, <1>4 DEF StoreInv, Shape, SameRequest, Fresh, Schema, Holds, HoldsLock
<1>6. LockMoves(c) /\ QueueMoves(c) /\ ReadyMoves(c)
  BY <1>1, <1>4 DEF LockMoves, QueueMoves, ReadyMoves, Holds, HoldsLock, Migrates
<1>7. DiskMoves(c) /\ StateMoves(c)
  BY <1>1, <1>4 DEF DiskMoves, StateMoves, StateOf
<1> QED BY <1>1, <1>4, <1>5, <1>6, <1>7 DEF Moves

LEMMA ReadsFileMoves ==
  ASSUME StoreInv, NEW c \in Callers, driver \in {"file", "sqlite"}, ReadsFile(c)
  PROVE  Moves(c)
<1>1. /\ call[c].pc = "queued" /\ ~Mutates(c)
      /\ UNCHANGED <<setup, home, disk, lock, ready, queue, faults>>
  BY DEF ReadsFile, Quietly
<1>2. PICK im \in Database \cup {NoImage}, ed \in {"none", "save", "delete"} :
        Becomes(c, "task", im, ed) /\ im = disk
  BY CallIs, ReadsIs DEF ReadsFile
<1>3. "task" \in PcsOf(driver)
  BY DEF PcsOf
<1>4. /\ call'[c] \in CallRecords /\ SameRequest(call'[c], call[c])
      /\ call' = [call EXCEPT ![c] = call'[c]] /\ call'[c].image = disk
      /\ call'[c].pc = "task" /\ driver' = driver /\ faults \in 0 .. MaxFaults
      /\ AllVersions' = AllVersions
  BY <1>1, <1>2, <1>3, BecomesIs
<1>5. Shape(call'[c]) /\ Fresh(c)' /\ Schema(c)'
  BY <1>1, <1>4 DEF StoreInv, Shape, SameRequest, Fresh, Schema, Holds, HoldsLock,
                    Mutates
<1>6. LockMoves(c) /\ QueueMoves(c) /\ ReadyMoves(c)
  BY <1>1, <1>4 DEF LockMoves, QueueMoves, ReadyMoves, Holds, HoldsLock, Migrates,
                    Mutates, SameRequest
<1>7. DiskMoves(c) /\ StateMoves(c)
  BY <1>1, <1>4 DEF DiskMoves, StateMoves, StateOf
<1> QED BY <1>1, <1>4, <1>5, <1>6, <1>7 DEF Moves

\* Taking the lock, for a change or for the migration.
LEMMA LocksMoves ==
  ASSUME StoreInv, NEW c \in Callers, NEW from, NEW to,
         \/ driver \in {"file", "sqlite"} /\ from = "queued" /\ to = "task" /\ Mutates(c)
         \/ driver = "sqlite" /\ from = "migrating" /\ to = "applying",
         withFileLock(c, from, to)
  PROVE  Moves(c)
<1>1. /\ call[c].pc = from /\ FileUsed(c) \notin lock /\ lock' = lock \cup {FileUsed(c)}
      /\ UNCHANGED <<setup, home, disk, ready, queue, faults>>
  BY DEF withFileLock, Quietly, LockIsFree, FileUsed
<1>2. PICK im \in Database \cup {NoImage}, ed \in {"none", "save", "delete"} :
        Becomes(c, to, im, ed) /\ im = disk
  BY CallIs, ReadsIs DEF withFileLock
<1>3. to \in PcsOf(driver)
  BY DEF PcsOf
<1>4. /\ call'[c] \in CallRecords /\ SameRequest(call'[c], call[c])
      /\ call' = [call EXCEPT ![c] = call'[c]] /\ call'[c].image = disk
      /\ call'[c].pc = to /\ driver' = driver /\ faults \in 0 .. MaxFaults
      /\ AllVersions' = AllVersions /\ Database' = Database
  BY <1>1, <1>2, <1>3, BecomesIs
<1>5. Shape(call'[c])
  BY <1>4 DEF StoreInv, Shape, SameRequest
<1>6. Fresh(c)'
  BY <1>1, <1>4, CallIs DEF Fresh, Snapshot, Rows
<1>7. Schema(c)'
  BY <1>1, <1>4 DEF StoreInv, Schema
<1>8. LockMoves(c) /\ QueueMoves(c) /\ ReadyMoves(c)
  BY <1>1, <1>4 DEF LockMoves, QueueMoves, ReadyMoves, Holds, HoldsLock, Migrates,
                    Mutates, SameRequest, Migrating
<1>9. DiskMoves(c) /\ StateMoves(c)
  BY <1>1, <1>4 DEF DiskMoves, StateMoves, StateOf
<1> QED BY <1>1, <1>4, <1>5, <1>6, <1>7, <1>8, <1>9 DEF Moves

\* The call throws because the lock file was there for too long.
LEMMA TimesOutMoves ==
  ASSUME StoreInv, NEW c \in Callers, driver \in {"file", "sqlite"}, TimesOut(c)
  PROVE  Moves(c)
<1>1. /\ call[c].pc = "queued" /\ Leaves(c)
      /\ UNCHANGED <<setup, home, disk, lock, ready, faults>>
  BY DEF TimesOut, Quietly
<1>2. Becomes(c, "threw", NoImage, "none")
  BY EndsIs DEF TimesOut
<1>3. "threw" \in PcsOf(driver)
  BY DEF PcsOf
<1>4. /\ call'[c] \in CallRecords /\ SameRequest(call'[c], call[c])
      /\ call' = [call EXCEPT ![c] = call'[c]]
      /\ call'[c].pc = "threw" /\ driver' = driver /\ faults \in 0 .. MaxFaults
  BY <1>1, <1>2, <1>3, BecomesIs
<1>5. Shape(call'[c]) /\ Fresh(c)' /\ Schema(c)'
  BY <1>4 DEF StoreInv, Shape, SameRequest, Fresh, Schema, Holds, HoldsLock
<1>6. LockMoves(c) /\ QueueMoves(c) /\ ReadyMoves(c)
  BY <1>1, <1>4 DEF LockMoves, QueueMoves, ReadyMoves, Holds, HoldsLock, Migrates
<1>7. DiskMoves(c) /\ StateMoves(c)
  BY <1>1, <1>4 DEF DiskMoves, StateMoves, StateOf
<1> QED BY <1>1, <1>4, <1>5, <1>6, <1>7 DEF Moves

\* The lock file is removed, and the call is over.
LEMMA ReleasesMoves ==
  ASSUME StoreInv, NEW c \in Callers, driver \in {"file", "sqlite"}, ReleasesLock(c)
  PROVE  Moves(c)
<1>1. /\ call[c].pc \in {"unlock", "unlockFailed"} /\ Leaves(c)
      /\ lock' = lock \ {FileUsed(c)}
      /\ UNCHANGED <<setup, home, disk, ready, faults>>
  BY DEF ReleasesLock, Quietly, FileUsed
<1>2. PICK how \in {"returned", "threw"} :
        /\ Becomes(c, how, NoImage, "none")
        /\ how = "returned" => call[c].pc = "unlock"
  BY <1>1, EndsIs DEF ReleasesLock
<1>3. how \in PcsOf(driver)
  BY DEF PcsOf
<1>4. /\ call'[c] \in CallRecords /\ SameRequest(call'[c], call[c])
      /\ call' = [call EXCEPT ![c] = call'[c]]
      /\ call'[c].pc = how /\ driver' = driver /\ faults \in 0 .. MaxFaults
  BY <1>1, <1>2, <1>3, BecomesIs
<1>5. Shape(call'[c]) /\ Fresh(c)' /\ Schema(c)'
  BY <1>4 DEF StoreInv, Shape, SameRequest, Fresh, Schema, Holds, HoldsLock
<1>6. LockMoves(c) /\ QueueMoves(c) /\ ReadyMoves(c)
  BY <1>1, <1>4 DEF LockMoves, QueueMoves, ReadyMoves, Holds, HoldsLock, Migrates
<1>7. DiskMoves(c) /\ StateMoves(c)
  BY <1>1, <1>2, <1>4 DEF DiskMoves, StateMoves, StateOf
<1> QED BY <1>1, <1>4, <1>5, <1>6, <1>7 DEF Moves

\* A write that fails leaves the file what it was.
LEMMA WriteFailsMoves ==
  ASSUME StoreInv, NEW c \in Callers, NEW from, NEW to,
         \/ driver = "file" /\ from = "write" /\ to = "unlockFailed"
         \/ driver = "sqlite" /\ from = "commit" /\ to = "unlockFailed"
         \/ driver = "sqlite" /\ from = "applying" /\ to = "notMigrated",
         WriteFails(c, from, to)
  PROVE  Moves(c)
<1>1. /\ call[c].pc = from /\ faults < MaxFaults /\ faults' = faults + 1
      /\ UNCHANGED <<setup, home, disk, lock, ready, queue>>
  BY DEF WriteFails, Quietly, Fails
<1>2. PICK im \in Database \cup {NoImage}, ed \in {"none", "save", "delete"} :
        Becomes(c, to, im, ed)
  BY CallIs, GotoIs DEF WriteFails
<1>3. to \in PcsOf(driver)
  BY DEF PcsOf
<1>4. /\ call'[c] \in CallRecords /\ SameRequest(call'[c], call[c])
      /\ call' = [call EXCEPT ![c] = call'[c]]
      /\ call'[c].pc = to /\ driver' = driver /\ faults \in 0 .. MaxFaults
  BY <1>1, <1>2, <1>3, BecomesIs
<1>5. Shape(call'[c]) /\ Fresh(c)' /\ Schema(c)'
  BY <1>4 DEF StoreInv, Shape, SameRequest, Fresh, Schema, Holds, HoldsLock
<1>6. LockMoves(c) /\ QueueMoves(c) /\ ReadyMoves(c)
  BY <1>1, <1>4 DEF LockMoves, QueueMoves, ReadyMoves, Holds, HoldsLock,
                    Migrates, Migrating
<1>7. DiskMoves(c) /\ StateMoves(c)
  BY <1>1, <1>4 DEF DiskMoves, StateMoves, StateOf
<1>8. faults' \in faults .. MaxFaults
  BY <1>1, <1>4, RecordStoresAssumption
<1> QED BY <1>1, <1>4, <1>5, <1>6, <1>7, <1>8 DEF Moves

\* A read is answered from what was read.
LEMMA AnswersMoves ==
  ASSUME StoreInv, NEW c \in Callers, driver # "memory",
         Task(c, "get") \/ Task(c, "list"), Answers(c)
  PROVE  Moves(c)
<1>1. /\ call[c].pc = "task" /\ call[c].op \in {"get", "list"} /\ Leaves(c)
      /\ UNCHANGED <<setup, home, disk, lock, ready, faults>>
  BY DEF Answers, Quietly, Task
<1>2. Becomes(c, "returned", NoImage, "none")
  BY EndsIs DEF Answers
<1>3. "returned" \in PcsOf(driver)
  BY CallIs DEF PcsOf
<1>4. /\ call'[c] \in CallRecords /\ SameRequest(call'[c], call[c])
      /\ call' = [call EXCEPT ![c] = call'[c]]
      /\ call'[c].pc = "returned" /\ driver' = driver /\ faults \in 0 .. MaxFaults
  BY <1>1, <1>2, <1>3, BecomesIs
<1>5. Shape(call'[c]) /\ Fresh(c)' /\ Schema(c)'
  BY <1>4 DEF StoreInv, Shape, SameRequest, Fresh, Schema, Holds, HoldsLock
<1>6. LockMoves(c) /\ QueueMoves(c) /\ ReadyMoves(c)
  BY <1>1, <1>4 DEF LockMoves, QueueMoves, ReadyMoves, Holds, HoldsLock, Migrates
<1>7. disk' = [disk EXCEPT !.rows[call[c].store] = Effected(c)]
  BY <1>1, CallIs, StoredAgain DEF Effected, Rows
<1>8. DiskMoves(c) /\ StateMoves(c)
  BY <1>1, <1>4, <1>7 DEF DiskMoves, StateMoves, StateOf
<1> QED BY <1>1, <1>4, <1>5, <1>6, <1>8 DEF Moves

\* A change is noted, to be written, or found to be none.
LEMMA FileEditsMoves ==
  ASSUME StoreInv, NEW c \in Callers, driver = "file", fileDelete(c) \/ fileSave(c)
  PROVE  Moves(c)
<1>1. PICK ed \in {"none", "save", "delete"}, pc \in {"write", "unlock"} :
        /\ Edits(c, ed, pc) /\ call[c].pc = "task" /\ call[c].op \in {"save", "delete"}
        /\ pc = "write" => ed = call[c].op
        /\ pc = "unlock" => /\ call[c].op = "delete" /\ ed = "none"
                            /\ call[c].key \notin DOMAIN Snapshot(c)
  BY DEF fileDelete, fileSave, Task
<1>2. UNCHANGED <<setup, home, disk, lock, ready, queue, faults>>
  BY <1>1 DEF Edits, Quietly
<1>3. PICK im \in Database \cup {NoImage} :
        Becomes(c, pc, im, ed) /\ im = call[c].image
  BY <1>1, CallIs, EditsIs
<1>4. pc \in PcsOf(driver)
  BY <1>1 DEF PcsOf
<1>5. /\ call'[c] \in CallRecords /\ SameRequest(call'[c], call[c])
      /\ call' = [call EXCEPT ![c] = call'[c]] /\ call'[c].image = call[c].image
      /\ call'[c].pc = pc /\ call'[c].edit = ed /\ call'[c].op = call[c].op
      /\ driver' = driver /\ faults \in 0 .. MaxFaults
      /\ call'[c].store = call[c].store /\ Database' = Database
  BY <1>2, <1>3, <1>4, BecomesIs
<1>6. Shape(call'[c]) /\ Schema(c)'
  BY <1>1, <1>5 DEF StoreInv, Shape, SameRequest, Schema
<1>7. Holds(c) /\ call[c].image \in Database /\ Snapshot(c) = Rows(c)
  <2>1. Fresh(c)
    BY DEF StoreInv
  <2>2. Holds(c)
    BY <1>1 DEF Holds, HoldsLock
  <2> QED BY <1>1, <2>1, <2>2 DEF Fresh
<1>8. Fresh(c)'
  BY <1>2, <1>5, <1>7 DEF Fresh, Snapshot, Rows
<1>9. LockMoves(c) /\ QueueMoves(c) /\ ReadyMoves(c)
  BY <1>1, <1>2, <1>5, <1>7 DEF LockMoves, QueueMoves, ReadyMoves, HoldsLock, Migrates
<1>10. pc = "unlock" => disk' = [disk EXCEPT !.rows[call[c].store] = Effected(c)]
  <2>1. /\ disk \in Database /\ call[c].store \in InUse
        /\ Rows(c) \in Tables(call[c].store)
    BY CallIs, EffectedIn
  <2>2. pc = "unlock" => Without(Rows(c), call[c].key) = Rows(c)
    BY <1>1, <1>7, <2>1, WithoutIn
  <2> QED BY <1>1, <1>2, <2>1, <2>2, StoredAgain DEF Effected, Rows
<1>11. DiskMoves(c) /\ StateMoves(c)
  BY <1>1, <1>2, <1>5, <1>10 DEF DiskMoves, StateMoves, StateOf
<1> QED BY <1>1, <1>2, <1>5, <1>6, <1>8, <1>9, <1>11 DEF Moves

LEMMA RowEditsMoves ==
  ASSUME StoreInv, NEW c \in Callers, driver \in {"postgres", "sqlite"},
         deleteRow(c) \/ saveRow(c)
  PROVE  Moves(c)
<1>1. PICK ed \in {"none", "save", "delete"}, pc \in {"delete", "commit"} :
        /\ Edits(c, ed, pc) /\ call[c].pc \in {"task", "delete"}
        /\ call[c].op \in {"save", "delete"}
        /\ pc = "delete" => call[c].op = "delete"
        /\ \/ pc = "delete" /\ ed = "none"
           \/ pc = "commit" /\ ed = call[c].op
           \/ /\ pc = "commit" /\ call[c].op = "delete" /\ ed = "none"
              /\ call[c].pc = "task" /\ call[c].key \notin DOMAIN Selects(c)
  <2>1. call[c].pc = "delete" => call[c].op = "delete"
    BY DEF StoreInv, Shape
  <2> QED BY <2>1 DEF deleteRow, saveRow, Task
<1>2. UNCHANGED <<setup, home, disk, lock, ready, queue, faults>>
  BY <1>1 DEF Edits, Quietly
<1>3. PICK im \in Database \cup {NoImage} :
        Becomes(c, pc, im, ed) /\ im = call[c].image
  BY <1>1, CallIs, EditsIs
<1>4. pc \in PcsOf(driver)
  BY <1>1 DEF PcsOf
<1>5. /\ call'[c] \in CallRecords /\ SameRequest(call'[c], call[c])
      /\ call' = [call EXCEPT ![c] = call'[c]] /\ call'[c].image = call[c].image
      /\ call'[c].pc = pc /\ call'[c].edit = ed /\ call'[c].op = call[c].op
      /\ call'[c].key = call[c].key /\ call'[c].store = call[c].store
      /\ driver' = driver /\ faults \in 0 .. MaxFaults /\ Database' = Database
      /\ AllVersions' = AllVersions
  BY <1>2, <1>3, <1>4, BecomesIs
<1>6. driver = "sqlite" =>
        Holds(c) /\ call[c].image \in Database /\ Snapshot(c) = Rows(c)
                 /\ call[c].image = disk
  <2>1. Fresh(c)
    BY DEF StoreInv
  <2>2. driver = "sqlite" => Holds(c)
    BY <1>1 DEF Holds, HoldsLock
  <2> QED BY <1>1, <2>1, <2>2 DEF Fresh
<1>7. Shape(call'[c])
  BY <1>1, <1>5 DEF StoreInv, Shape, SameRequest, Selects, Snapshot
<1>8. Fresh(c)'
  BY <1>1, <1>2, <1>5, <1>6 DEF Fresh, Snapshot, Rows, Holds, HoldsLock
<1>9. Schema(c)'
  BY <1>1, <1>2, <1>5 DEF StoreInv, Schema
<1>10. LockMoves(c) /\ QueueMoves(c) /\ ReadyMoves(c)
  BY <1>1, <1>2, <1>5, <1>6 DEF LockMoves, QueueMoves, ReadyMoves, Holds, HoldsLock,
                                Migrates
<1>11. driver = "postgres" /\ pc = "commit" /\ ed = "none" =>
         disk' = [disk EXCEPT !.rows[call[c].store] = Effected(c)]
  <2>1. /\ disk \in Database /\ call[c].store \in InUse
        /\ Rows(c) \in Tables(call[c].store)
    BY CallIs, EffectedIn
  <2>2. driver = "postgres" /\ pc = "commit" /\ ed = "none" =>
          Without(Rows(c), call[c].key) = Rows(c)
    BY <1>1, <2>1, WithoutIn DEF Selects
  <2> QED BY <1>1, <1>2, <2>1, <2>2, StoredAgain DEF Effected, Rows
<1>12. DiskMoves(c) /\ StateMoves(c)
  <2>1. CASE driver = "postgres" /\ pc = "commit" /\ ed = "none"
    <3>1. StateOf(call[c]) = "pending"
      BY <1>1, <2>1 DEF StateOf
    <3>2. StateOf(call'[c]) = "applied"
      BY <1>1, <1>5, <2>1 DEF StateOf
    <3> QED BY <1>2, <1>11, <2>1, <3>1, <3>2 DEF DiskMoves, StateMoves
  <2>2. CASE ~(driver = "postgres" /\ pc = "commit" /\ ed = "none")
    <3>1. StateOf(call[c]) = "pending"
      BY <1>1 DEF StateOf
    <3>2. StateOf(call'[c]) = "pending"
      BY <1>1, <1>5, <2>2 DEF StateOf
    <3> QED BY <1>2, <3>1, <3>2 DEF DiskMoves, StateMoves
  <2> QED BY <2>1, <2>2
<1> QED BY <1>1, <1>2, <1>5, <1>7, <1>8, <1>9, <1>10, <1>12 DEF Moves

\* What a call writes is its effect, whichever rows it was read from.
LEMMA WritesEffect ==
  ASSUME StoreInv, NEW c \in Callers, call[c].pc \in {"write", "commit"}
  PROVE  /\ call[c].op \in {"save", "delete"}
         /\ call[c].edit # "none" => Edited(c, Rows(c)) = Effected(c)
         /\ call[c].edit = "none" =>
              /\ call[c].op = "delete" /\ call[c].pc = "commit"
              /\ Edited(c, Rows(c)) = Rows(c)
              /\ driver = "sqlite" => Effected(c) = Rows(c)
<1>1. /\ Shape(call[c]) /\ call[c].op \in {"get", "list", "save", "delete"}
      /\ call[c].edit \in {"none", "save", "delete"} /\ Fresh(c)
  BY CallIs DEF StoreInv
<1>2. call[c].op \in {"save", "delete"}
  BY <1>1 DEF Shape
<1>3. call[c].edit # "none" => call[c].edit = call[c].op
  BY <1>1 DEF Shape
<1>4. call[c].edit # "none" => Edited(c, Rows(c)) = Effected(c)
  BY <1>2, <1>3 DEF Edited, Effected
<1>5. ASSUME call[c].edit = "none"
      PROVE  /\ call[c].op = "delete" /\ call[c].pc = "commit"
             /\ Edited(c, Rows(c)) = Rows(c)
             /\ driver = "sqlite" => Effected(c) = Rows(c)
  <2>1. call[c].op = "delete" /\ call[c].pc = "commit"
    BY <1>1, <1>2, <1>5 DEF Shape
  <2>2. Edited(c, Rows(c)) = Rows(c)
    BY <1>5 DEF Edited
  <2>3. ASSUME driver = "sqlite" PROVE Effected(c) = Rows(c)
    <3>1. Holds(c)
      BY <2>1, <2>3 DEF Holds, HoldsLock
    <3>2. Snapshot(c) = Rows(c)
      BY <1>1, <2>1, <3>1 DEF Fresh
    <3>3. call[c].key \notin DOMAIN Rows(c)
      BY <1>1, <1>5, <2>1, <2>3, <3>2 DEF Shape, Snapshot
    <3> QED BY <2>1, <3>3, EffectedIn, WithoutIn DEF Effected
  <2> QED BY <2>1, <2>2, <2>3
<1> QED BY <1>2, <1>4, <1>5

\* The file is written under its lock.
LEMMA FileWritesMoves ==
  ASSUME StoreInv, NEW c \in Callers,
         \/ driver = "file" /\ writeSnapshot(c)
         \/ /\ driver = "sqlite" /\ call[c].pc = "commit"
            /\ disk' = [call[c].image EXCEPT !.rows[call[c].store] = Edited(c, @)]
            /\ Goto(c, "unlock")
            /\ Quietly /\ UNCHANGED <<lock, ready, queue, faults>>
  PROVE  Moves(c)
<1>1. /\ driver \in {"file", "sqlite"} /\ call[c].pc \in {"write", "commit"}
      /\ UNCHANGED <<setup, home, lock, ready, queue, faults>>
  BY DEF writeSnapshot, Quietly
<1>2. PICK im \in Database \cup {NoImage}, ed \in {"none", "save", "delete"} :
        Becomes(c, "unlock", im, ed)
  BY CallIs, GotoIs DEF writeSnapshot
<1>3. "unlock" \in PcsOf(driver)
  BY <1>1 DEF PcsOf
<1>4. /\ call'[c] \in CallRecords /\ SameRequest(call'[c], call[c])
      /\ call' = [call EXCEPT ![c] = call'[c]] /\ call'[c].pc = "unlock"
      /\ driver' = driver /\ faults \in 0 .. MaxFaults
  BY <1>1, <1>2, <1>3, BecomesIs
<1>5. /\ Holds(c) /\ Snapshot(c) = Rows(c)
      /\ driver = "sqlite" => call[c].image = disk
  <2>1. Fresh(c)
    BY DEF StoreInv
  <2>2. Holds(c)
    BY <1>1 DEF Holds, HoldsLock
  <2> QED BY <1>1, <2>1, <2>2 DEF Fresh
<1>6. Edited(c, Rows(c)) = Effected(c)
  <2>1. call[c].edit = "none" => driver = "sqlite"
    BY <1>1, WritesEffect DEF writeSnapshot
  <2> QED BY <1>1, <2>1, WritesEffect
<1>7. disk' = [disk EXCEPT !.rows[call[c].store] = Effected(c)]
  BY <1>5, <1>6 DEF writeSnapshot, Stored, Rows, Snapshot
<1>8. Shape(call'[c]) /\ Fresh(c)' /\ Schema(c)'
  BY <1>4 DEF StoreInv, Shape, SameRequest, Fresh, Schema, Holds, HoldsLock
<1>9. LockMoves(c) /\ QueueMoves(c) /\ ReadyMoves(c)
  BY <1>1, <1>4, <1>5 DEF LockMoves, QueueMoves, ReadyMoves, HoldsLock, Migrates
<1>10. DiskMoves(c) /\ StateMoves(c)
  BY <1>1, <1>4, <1>5, <1>7 DEF DiskMoves, StateMoves, StateOf
<1> QED BY <1>1, <1>4, <1>8, <1>9, <1>10 DEF Moves

\* A transaction of Postgres begins, and ends.
LEMMA ClientMoves ==
  ASSUME StoreInv, NEW c \in Callers, driver = "postgres", call[c].pc = "ready",
         withPostgresClient(c) \/ withPostgresTransaction(c)
  PROVE  Moves(c)
<1>1. UNCHANGED <<setup, home, disk, lock, ready, queue, faults>>
  BY DEF withPostgresClient, withPostgresTransaction, Quietly
<1>2. PICK im \in Database \cup {NoImage}, ed \in {"none", "save", "delete"} :
        Becomes(c, "task", im, ed)
  BY CallIs, GotoIs DEF withPostgresClient, withPostgresTransaction
<1>3. "task" \in PcsOf(driver)
  BY <1>1 DEF PcsOf
<1>4. /\ call'[c] \in CallRecords /\ SameRequest(call'[c], call[c])
      /\ call' = [call EXCEPT ![c] = call'[c]] /\ call'[c].pc = "task"
      /\ driver' = driver /\ faults \in 0 .. MaxFaults /\ AllVersions' = AllVersions
  BY <1>1, <1>2, <1>3, BecomesIs
<1>5. Shape(call'[c]) /\ Fresh(c)' /\ Schema(c)'
  BY <1>1, <1>4 DEF StoreInv, Shape, SameRequest, Fresh, Schema, Holds, HoldsLock
<1>6. LockMoves(c) /\ QueueMoves(c) /\ ReadyMoves(c)
  BY <1>1, <1>4 DEF LockMoves, QueueMoves, ReadyMoves, Holds, HoldsLock, Migrates
<1>7. DiskMoves(c) /\ StateMoves(c)
  BY <1>1, <1>4 DEF DiskMoves, StateMoves, StateOf
<1> QED BY <1>1, <1>4, <1>5, <1>6, <1>7 DEF Moves

LEMMA CommitMoves ==
  ASSUME StoreInv, NEW c \in Callers, driver = "postgres", call[c].pc = "commit",
         withPostgresTransaction(c)
  PROVE  Moves(c)
<1>1. /\ UNCHANGED <<setup, home, lock, ready, queue>>
      /\ faults' = faults \/ Fails
  BY DEF withPostgresTransaction, Quietly
<1>2. PICK how \in {"returned", "threw"} :
        /\ Becomes(c, how, NoImage, "none")
        /\ \/ Stored(c, Edited(c, Rows(c)))
           \/ how = "threw" /\ disk' = disk
        /\ how = "threw" => faults < MaxFaults /\ faults' = faults + 1
  BY EndsIs DEF withPostgresTransaction, Fails
<1>3. how \in PcsOf(driver)
  BY DEF PcsOf
<1>4. /\ call'[c] \in CallRecords /\ SameRequest(call'[c], call[c])
      /\ call' = [call EXCEPT ![c] = call'[c]]
      /\ call'[c].pc = how /\ driver' = driver /\ faults \in 0 .. MaxFaults
  BY <1>1, <1>2, <1>3, BecomesIs
<1>5. Shape(call'[c]) /\ Fresh(c)' /\ Schema(c)'
  BY <1>2, <1>4 DEF StoreInv, Shape, SameRequest, Fresh, Schema, Holds, HoldsLock
<1>6. LockMoves(c) /\ QueueMoves(c) /\ ReadyMoves(c)
  BY <1>1, <1>4 DEF LockMoves, QueueMoves, ReadyMoves, Holds, HoldsLock, Migrates
<1>7. StateOf(call'[c]) = how
  BY <1>4 DEF StateOf
<1>0. faults' \in faults .. MaxFaults
  BY <1>1, <1>4, RecordStoresAssumption DEF Fails
<1>8. CASE call[c].edit = "none"
  <2>1. StateOf(call[c]) = "applied"
    BY <1>8, WritesEffect DEF StateOf
  <2>2. disk' = disk
    <3>1. Edited(c, Rows(c)) = disk.rows[call[c].store]
      BY <1>8, WritesEffect DEF Rows
    <3>2. disk \in Database /\ call[c].store \in InUse
      BY CallIs
    <3>3. [disk EXCEPT !.rows[call[c].store] = Edited(c, Rows(c))] = disk
      BY <3>1, <3>2, StoredAgain
    <3> QED BY <1>2, <3>3 DEF Stored
  <2>3. DiskMoves(c) /\ StateMoves(c)
    BY <1>2, <1>7, <2>1, <2>2 DEF DiskMoves, StateMoves
  <2> QED BY <1>0, <1>1, <1>4, <1>5, <1>6, <2>3 DEF Moves
<1>9. CASE call[c].edit # "none"
  <2>1. StateOf(call[c]) = "pending"
    BY <1>9 DEF StateOf
  <2>2. \/ disk' = [disk EXCEPT !.rows[call[c].store] = Effected(c)]
        \/ how = "threw" /\ disk' = disk
    BY <1>2, <1>9, WritesEffect DEF Stored
  <2>3. DiskMoves(c) /\ StateMoves(c)
    BY <1>7, <2>1, <2>2 DEF DiskMoves, StateMoves
  <2> QED BY <1>0, <1>1, <1>4, <1>5, <1>6, <2>3 DEF Moves
<1> QED BY <1>8, <1>9

\* The promise of the handle after SetReady.
LEMMA SetReadyIs ==
  ASSUME StoreInv, NEW c \in Callers, NEW r, SetReady(c, r), home' = home,
         call'[c].store = call[c].store
  PROVE  Ready(c)' = r
<1>1. /\ ready \in [Processes -> [InUse -> ReadyStates]]
      /\ me(c) \in Processes /\ call[c].store \in InUse
  BY CallIs, RecordStoresAssumption DEF StoreInv, StoreTypes, me
<1> QED BY <1>1 DEF SetReady, Ready, me

\* The first call of a handle, and the others.
LEMMA EnsureMoves ==
  ASSUME StoreInv, NEW c \in Callers, driver \in {"postgres", "sqlite"}, ensureSchema(c)
  PROVE  Moves(c)
<1>1. /\ call[c].pc = "called"
      /\ UNCHANGED <<setup, home, disk, lock, queue, faults>>
  BY DEF ensureSchema, Quietly
<1>2. PICK pc \in {"migrating", "ready", "threw"} :
        /\ \/ Ready(c) = "none" /\ pc = "migrating" /\ SetReady(c, "pending")
           \/ Ready(c) = "ready" /\ pc = "ready" /\ ready' = ready
           \/ Ready(c) = "rejected" /\ pc = "threw" /\ ready' = ready
        /\ Goto(c, pc) \/ (pc = "threw" /\ Ends(c, pc))
  <2>1. CASE Ready(c) = "none"
    BY <2>1 DEF ensureSchema
  <2>2. CASE Ready(c) = "ready"
    BY <2>2 DEF ensureSchema
  <2>3. CASE Ready(c) = "rejected"
    BY <2>3 DEF ensureSchema
  <2>4. CASE Ready(c) \notin {"none", "ready", "rejected"}
    BY <2>4 DEF ensureSchema
  <2> QED BY <2>1, <2>2, <2>3, <2>4
<1>3. PICK im \in Database \cup {NoImage}, ed \in {"none", "save", "delete"} :
        Becomes(c, pc, im, ed)
  <2>1. "none" \in {"none", "save", "delete"} /\ NoImage \in Database \cup {NoImage}
    OBVIOUS
  <2> QED BY <1>2, <2>1, CallIs, GotoIs, EndsIs
<1>4. pc \in PcsOf(driver)
  BY DEF PcsOf
<1>5. /\ call'[c] \in CallRecords /\ SameRequest(call'[c], call[c])
      /\ call' = [call EXCEPT ![c] = call'[c]] /\ call'[c].pc = pc
      /\ call'[c].store = call[c].store /\ me(c)' = me(c)
      /\ driver' = driver /\ faults \in 0 .. MaxFaults /\ AllVersions' = AllVersions
  BY <1>1, <1>3, <1>4, BecomesIs
<1>6. Shape(call'[c]) /\ Fresh(c)'
  BY <1>2, <1>5 DEF StoreInv, Shape, SameRequest, Fresh, Holds, HoldsLock
<1>7. Schema(c)'
  <2>1. Ready(c) = "ready" => disk.applied = AllVersions
    <3>1. me(c) \in Processes /\ call[c].store \in InUse /\ SchemaInv
      BY CallIs, RecordStoresAssumption DEF me, StoreInv
    <3> QED BY <3>1 DEF SchemaInv, Ready
  <2>2. pc = "threw" => Ready(c)' = "rejected"
    BY <1>2, <1>5 DEF Ready
  <2> QED BY <1>1, <1>2, <1>5, <2>1, <2>2 DEF Schema
<1>8. LockMoves(c) /\ QueueMoves(c)
  BY <1>1, <1>2, <1>5 DEF LockMoves, QueueMoves, Holds, HoldsLock
<1>9. ReadyMoves(c)
  BY <1>1, <1>2, <1>5 DEF ReadyMoves, Migrates, Migrating
<1>10. DiskMoves(c) /\ StateMoves(c)
  BY <1>1, <1>2, <1>5 DEF DiskMoves, StateMoves, StateOf
<1> QED BY <1>1, <1>2, <1>5, <1>6, <1>7, <1>8, <1>9, <1>10 DEF Moves

\* A migration ends: the promise of the handle is kept, or rejected.
LEMMA SettledMoves ==
  ASSUME StoreInv, NEW c \in Callers, driver \in {"postgres", "sqlite"}, Migrating(c),
         UNCHANGED <<setup, home, queue>>,
         faults' \in faults .. MaxFaults,
         \/ disk' = disk
         \/ driver = "postgres" /\ disk' = [disk EXCEPT !.applied = AllVersions],
         \/ Migrated(c) /\ disk'.applied = AllVersions
         \/ /\ Rejected(c)
            /\ driver = "postgres" /\ faults' = 0 => disk'.applied = AllVersions,
         \/ lock' = lock /\ ~Holds(c)
         \/ lock' = lock \ {FileUsed(c)} /\ Holds(c)
  PROVE  Moves(c)
<1>1. PICK pc \in {"ready", "threw"} :
        /\ \/ /\ pc = "ready" /\ SetReady(c, "ready") /\ Goto(c, pc)
              /\ disk'.applied = AllVersions
           \/ /\ pc = "threw" /\ SetReady(c, "rejected") /\ Ends(c, pc)
              /\ driver = "postgres" /\ faults' = 0 => disk'.applied = AllVersions
  BY DEF Migrated, Rejected
<1>2. PICK im \in Database \cup {NoImage}, ed \in {"none", "save", "delete"} :
        Becomes(c, pc, im, ed)
  <2>1. "none" \in {"none", "save", "delete"} /\ NoImage \in Database \cup {NoImage}
    OBVIOUS
  <2> QED BY <1>1, <2>1, CallIs, GotoIs, EndsIs
<1>3. pc \in PcsOf(driver)
  BY DEF PcsOf
<1>4. /\ call'[c] \in CallRecords /\ SameRequest(call'[c], call[c])
      /\ call' = [call EXCEPT ![c] = call'[c]] /\ call'[c].pc = pc
      /\ call'[c].store = call[c].store
      /\ driver' = driver /\ faults \in 0 .. MaxFaults /\ AllVersions' = AllVersions
  BY <1>2, <1>3, BecomesIs
<1>5. Shape(call'[c]) /\ Fresh(c)'
  BY <1>4 DEF StoreInv, Shape, SameRequest, Fresh, Holds, HoldsLock
<1>6. Schema(c)'
  BY <1>1, <1>4, SetReadyIs DEF Schema
<1>7. LockMoves(c) /\ QueueMoves(c)
  BY <1>4 DEF LockMoves, QueueMoves, HoldsLock
<1>8. ReadyMoves(c)
  BY <1>1, <1>4 DEF ReadyMoves, Migrates
<1>9. DiskMoves(c)
  BY DEF DiskMoves
<1>10. StateMoves(c)
  <2>1. StateOf(call[c]) = "pending"
    BY DEF Migrating, Migrates, StateOf
  <2>2. disk'.rows = disk.rows
    <3>1. disk \in Database /\ AllVersions \in SUBSET AllVersions
      BY CallIs
    <3> QED BY <3>1, AppliedIn
  <2>3. StateOf(call'[c]) \in {"pending", "threw"}
    BY <1>4 DEF StateOf
  <2> QED BY <2>1, <2>2, <2>3 DEF StateMoves
<1>11. call[c].pc \notin {"idle", "returned", "threw"}
  BY DEF Migrating, Migrates
<1> QED BY <1>4, <1>5, <1>6, <1>7, <1>8, <1>9, <1>10, <1>11 DEF Moves

LEMMA SqliteMigrationMoves ==
  ASSUME StoreInv, NEW c \in Callers, driver = "sqlite", migrateSqlitePersistence(c)
  PROVE  Moves(c)
<1>1. CASE withFileLock(c, "migrating", "applying")
  BY <1>1, LocksMoves
<1>2. CASE WriteFails(c, "applying", "notMigrated")
  BY <1>2, WriteFailsMoves
<1>3. CASE /\ call[c].pc = "migrating" /\ Rejected(c)
           /\ Quietly /\ UNCHANGED <<disk, lock, queue, faults>>
  <2>1. Migrating(c) /\ ~Holds(c) /\ UNCHANGED <<setup, home, queue>>
    BY <1>3 DEF Migrating, Migrates, Holds, HoldsLock, Quietly
  <2>2. faults' \in faults .. MaxFaults
    BY <1>3, RecordStoresAssumption DEF StoreInv, StoreTypes
  <2>3. disk' = disk /\ lock' = lock /\ Rejected(c)
    BY <1>3
  <2> QED BY <2>1, <2>2, <2>3, SettledMoves
<1>4. CASE /\ call[c].pc \in {"migrated", "notMigrated"}
           /\ lock' = lock \ {FileOf(call[c].store)}
           /\ IF call[c].pc = "migrated" THEN Migrated(c) ELSE Rejected(c)
           /\ Quietly /\ UNCHANGED <<disk, queue, faults>>
  <2>1. Migrating(c) /\ Holds(c) /\ UNCHANGED <<setup, home, queue>>
    BY <1>4 DEF Migrating, Migrates, Holds, HoldsLock, Quietly
  <2>2. faults' \in faults .. MaxFaults
    BY <1>4, RecordStoresAssumption DEF StoreInv, StoreTypes
  <2>3. disk' = disk /\ lock' = lock \ {FileUsed(c)}
    BY <1>4 DEF FileUsed
  <2>4. (Migrated(c) /\ disk'.applied = AllVersions) \/ Rejected(c)
    BY <1>4, <2>3 DEF StoreInv, Schema
  <2> QED BY <2>1, <2>2, <2>3, <2>4, SettledMoves
<1>5. CASE /\ call[c].pc = "applying"
           /\ disk' = [call[c].image EXCEPT !.applied =
                         applyRuntimePersistenceMigrations(@)]
           /\ Goto(c, "migrated")
           /\ Quietly /\ UNCHANGED <<lock, ready, queue, faults>>
  <2>1. Holds(c) /\ Migrating(c) /\ UNCHANGED <<setup, home, lock, ready, queue, faults>>
    BY <1>5 DEF Migrating, Migrates, Holds, HoldsLock, Quietly
  <2>2. call[c].image = disk /\ disk \in Database
    BY <1>5, <2>1, CallIs DEF StoreInv, Fresh
  <2>3. disk' = [disk EXCEPT !.applied = AllVersions]
    <3>1. applyRuntimePersistenceMigrations(disk.applied) = AllVersions
      BY <2>2, DatabaseHas, AppliesAll
    <3> QED BY <1>5, <2>2, <3>1
  <2>4. disk'.applied = AllVersions /\ disk'.rows = disk.rows
    <3>1. AllVersions \in SUBSET AllVersions
      OBVIOUS
    <3> QED BY <2>2, <2>3, <3>1, AppliedIn
  <2>5. PICK im \in Database \cup {NoImage}, ed \in {"none", "save", "delete"} :
          Becomes(c, "migrated", im, ed)
    BY <1>5, CallIs, GotoIs
  <2>6. "migrated" \in PcsOf(driver)
    BY DEF PcsOf
  <2>7. /\ call'[c] \in CallRecords /\ SameRequest(call'[c], call[c])
        /\ call' = [call EXCEPT ![c] = call'[c]] /\ call'[c].pc = "migrated"
        /\ driver' = driver /\ faults \in 0 .. MaxFaults /\ AllVersions' = AllVersions
    BY <2>1, <2>5, <2>6, BecomesIs
  <2>8. Shape(call'[c]) /\ Fresh(c)' /\ Schema(c)'
    BY <2>4, <2>7 DEF StoreInv, Shape, SameRequest, Fresh, Schema
  <2>9. LockMoves(c) /\ QueueMoves(c) /\ ReadyMoves(c)
    BY <2>1, <2>7 DEF LockMoves, QueueMoves, ReadyMoves, HoldsLock
  <2>10. DiskMoves(c) /\ StateMoves(c)
    BY <1>5, <2>1, <2>3, <2>4, <2>7 DEF DiskMoves, StateMoves, StateOf
  <2> QED BY <1>5, <2>1, <2>7, <2>8, <2>9, <2>10 DEF Moves
<1> QED BY <1>1, <1>2, <1>3, <1>4, <1>5 DEF migrateSqlitePersistence

LEMMA PostgresMigrationMoves ==
  ASSUME StoreInv, NEW c \in Callers, driver = "postgres", migratePostgresPersistence(c)
  PROVE  Moves(c)
<1>1. Migrating(c) /\ ~Holds(c) /\ UNCHANGED <<setup, home, queue, lock>>
  BY DEF migratePostgresPersistence, Quietly, Migrating, Migrates, Holds, HoldsLock
<1>2. /\ disk \in Database /\ disk.applied \in {setup.applied, AllVersions}
      /\ disk.applied \in SUBSET AllVersions /\ faults \in 0 .. MaxFaults
      /\ Schema(c)
  BY CallIs, DatabaseHas DEF StoreInv, SchemaInv, StoreTypes
<1>3. faults' \in faults .. MaxFaults
  BY <1>2, RecordStoresAssumption DEF migratePostgresPersistence, Fails
<1>4. applyRuntimePersistenceMigrations(disk.applied) = AllVersions
  BY <1>2, AppliesAll
<1>5. \A u \in SUBSET AllVersions : applyRuntimePersistenceMigrations(u) = AllVersions
  BY AppliesAll
<1>6. ASSUME disk' = disk, ready' = ready, faults' = faults,
             NEW pc \in {"applying", "applied"},
             NEW im \in Database \cup {NoImage}, NEW ed \in {"none", "save", "delete"},
             Becomes(c, pc, im, ed), im.applied = setup.applied
      PROVE  Moves(c)
  <2>1. pc \in PcsOf(driver)
    BY DEF PcsOf
  <2>2. /\ call'[c] \in CallRecords /\ SameRequest(call'[c], call[c])
        /\ call' = [call EXCEPT ![c] = call'[c]] /\ call'[c].pc = pc
        /\ call'[c].image = im /\ driver' = driver /\ setup' = setup
    BY <1>1, <1>6, <2>1, BecomesIs
  <2>3. Shape(call'[c]) /\ Fresh(c)' /\ Schema(c)'
    BY <1>6, <2>2 DEF StoreInv, Shape, SameRequest, Fresh, Schema, Holds, HoldsLock
  <2>4. LockMoves(c) /\ QueueMoves(c) /\ ReadyMoves(c)
    BY <1>1, <1>6, <2>2 DEF LockMoves, QueueMoves, ReadyMoves, HoldsLock
  <2>5. DiskMoves(c) /\ StateMoves(c)
    BY <1>1, <1>6, <2>2 DEF DiskMoves, StateMoves, StateOf, Migrating, Migrates
  <2>6. call[c].pc \notin {"idle", "returned", "threw"}
    BY <1>1 DEF Migrating, Migrates
  <2> QED BY <1>1, <1>3, <2>2, <2>3, <2>4, <2>5, <2>6 DEF Moves
<1>7. CASE /\ call[c].pc = "migrating"
           /\ IF applyRuntimePersistenceMigrations(disk.applied) = disk.applied
              THEN Migrated(c)
              ELSE /\ call' = [call EXCEPT ![c].pc = "applying", ![c].image = disk]
                   /\ UNCHANGED ready
           /\ Quietly /\ UNCHANGED <<disk, lock, queue, faults>>
  <2>1. CASE disk.applied = AllVersions
    <3>1. Migrated(c) /\ disk' = disk /\ disk'.applied = AllVersions
      BY <1>4, <1>7, <2>1
    <3> QED BY <1>1, <1>3, <3>1, SettledMoves
  <2>2. CASE disk.applied # AllVersions
    <3>1. PICK im \in Database \cup {NoImage}, ed \in {"none", "save", "delete"} :
            Becomes(c, "applying", im, ed) /\ im = disk
      BY <1>4, <1>7, <2>2, CallIs, ReadsIs
    <3>2. im.applied = setup.applied /\ disk' = disk /\ ready' = ready /\ faults' = faults
      BY <1>2, <1>4, <1>7, <2>2, <3>1
    <3> QED BY <1>6, <3>1, <3>2
  <2> QED BY <2>1, <2>2
<1>8. CASE /\ call[c].pc = "applying"
           /\ IF disk.applied = call[c].image.applied
              THEN Goto(c, "applied") /\ UNCHANGED ready
              ELSE Rejected(c)
           /\ Quietly /\ UNCHANGED <<disk, lock, queue, faults>>
  <2>1. call[c].image.applied = setup.applied
    BY <1>2, <1>8 DEF Schema
  <2>2. CASE disk.applied = call[c].image.applied
    <3>1. PICK im \in Database \cup {NoImage}, ed \in {"none", "save", "delete"} :
            Becomes(c, "applied", im, ed) /\ im = call[c].image
      BY <1>8, <2>2, CallIs, GotoIs
    <3>2. im.applied = setup.applied /\ disk' = disk /\ ready' = ready /\ faults' = faults
      BY <1>8, <2>1, <2>2, <3>1
    <3> QED BY <1>6, <3>1, <3>2
  <2>3. CASE disk.applied # call[c].image.applied
    <3>1. Rejected(c) /\ disk' = disk /\ disk'.applied = AllVersions
      BY <1>2, <1>8, <2>1, <2>3
    <3> QED BY <1>1, <1>3, <3>1, SettledMoves
  <2> QED BY <2>2, <2>3
<1>9. CASE /\ call[c].pc = "applied"
           /\ \/ Migrated(c) /\ UNCHANGED faults
              \/ Rejected(c) /\ Fails
           /\ \/ disk' = [disk EXCEPT !.applied =
                            applyRuntimePersistenceMigrations(call[c].image.applied)]
              \/ faults' # faults /\ UNCHANGED disk
           /\ Quietly /\ UNCHANGED <<lock, queue>>
  <2>1. call[c].image.applied \in SUBSET AllVersions
    <3>1. call[c].image.applied = setup.applied
      BY <1>2, <1>9 DEF Schema
    <3> QED BY <3>1, CallIs, StoresInUse
  <2>2. applyRuntimePersistenceMigrations(call[c].image.applied) = AllVersions
    BY <2>1, AppliesAll
  <2>3. \/ disk' = disk /\ faults' # faults
        \/ /\ disk' = [disk EXCEPT !.applied = AllVersions]
           /\ disk'.applied = AllVersions
    <3>1. \A d \in Database : [d EXCEPT !.applied = AllVersions].applied = AllVersions
      <4>1. AllVersions \in SUBSET AllVersions
        OBVIOUS
      <4> QED BY <4>1, AppliedIn
    <3> QED BY <1>2, <1>9, <2>2, <3>1
  <2>4. \/ Migrated(c) /\ disk'.applied = AllVersions
        \/ Rejected(c) /\ (faults' = 0 => disk'.applied = AllVersions)
    BY <1>2, <1>9, <2>3, RecordStoresAssumption DEF Fails
  <2> QED BY <1>1, <1>3, <2>3, <2>4, SettledMoves
<1> QED BY <1>7, <1>8, <1>9 DEF migratePostgresPersistence

LEMMA AccessMoves ==
  ASSUME StoreInv, NEW c \in Callers, AccessStep(c)
  PROVE  Moves(c)
<1>1. CASE driver = "memory" /\ MemoryStep(c)
  BY <1>1, MemoryMoves
<1>2. CASE driver = "file" /\ FileStep(c)
  <2>1. CASE enqueueAccess(c, "called")
    BY <1>2, <2>1, EnqueueMoves
  <2>2. CASE fileDelete(c) \/ fileSave(c)
    BY <1>2, <2>2, FileEditsMoves
  <2>3. CASE fileGet(c) \/ fileList(c)
    <3>1. Answers(c) /\ (Task(c, "get") \/ Task(c, "list")) /\ driver # "memory"
      BY <1>2, <2>3 DEF fileGet, fileList
    <3> QED BY <3>1, AnswersMoves
  <2>4. CASE SnapshotAccess(c)
    <3>1. CASE withReadOnlySnapshot(c)
      BY <1>2, <3>1, ReadsFileMoves DEF withReadOnlySnapshot
    <3>2. CASE withMutableSnapshot(c)
      BY <1>2, <3>2, LocksMoves DEF withMutableSnapshot
    <3>3. CASE writeSnapshot(c)
      BY <1>2, <3>3, FileWritesMoves
    <3>4. CASE WriteFails(c, "write", "unlockFailed")
      BY <1>2, <3>4, WriteFailsMoves
    <3>5. CASE TimesOut(c)
      BY <1>2, <3>5, TimesOutMoves
    <3>6. CASE ReleasesLock(c)
      BY <1>2, <3>6, ReleasesMoves
    <3> QED BY <2>4, <3>1, <3>2, <3>3, <3>4, <3>5, <3>6 DEF SnapshotAccess
  <2> QED BY <1>2, <2>1, <2>2, <2>3, <2>4 DEF FileStep
<1>3. ASSUME driver \in {"postgres", "sqlite"}, RowStep(c) PROVE Moves(c)
  <2>1. CASE deleteRow(c) \/ saveRow(c)
    BY <1>3, <2>1, RowEditsMoves
  <2>2. CASE getRow(c) \/ listRows(c)
    <3>1. Answers(c) /\ (Task(c, "get") \/ Task(c, "list")) /\ driver # "memory"
      BY <1>3, <2>2 DEF getRow, listRows
    <3> QED BY <3>1, AnswersMoves
  <2> QED BY <1>3, <2>1, <2>2 DEF RowStep
<1>4. CASE driver = "postgres" /\ (PostgresAccess(c) \/ ClientAccess(c))
  <2>1. CASE ensureSchema(c)
    BY <1>4, <2>1, EnsureMoves
  <2>2. CASE migratePostgresPersistence(c)
    BY <1>4, <2>2, PostgresMigrationMoves
  <2>3. CASE withPostgresClient(c) \/ withPostgresTransaction(c)
    <3>1. call[c].pc \in {"ready", "commit"}
      BY <2>3 DEF withPostgresClient, withPostgresTransaction
    <3>2. call[c].pc = "commit" => withPostgresTransaction(c)
      BY <2>3 DEF withPostgresClient
    <3> QED BY <1>4, <2>3, <3>1, <3>2, ClientMoves, CommitMoves
  <2> QED BY <1>4, <2>1, <2>2, <2>3 DEF PostgresAccess, ClientAccess
<1>5. CASE driver = "sqlite" /\ (SqliteAccess(c) \/ ClientAccess(c))
  <2>1. CASE ensureSchema(c)
    BY <1>5, <2>1, EnsureMoves
  <2>2. CASE migrateSqlitePersistence(c)
    BY <1>5, <2>2, SqliteMigrationMoves
  <2>3. CASE enqueueAccess(c, "ready")
    BY <1>5, <2>3, EnqueueMoves
  <2>4. CASE withSqliteClient(c)
    BY <1>5, <2>4, ReadsFileMoves DEF withSqliteClient
  <2>5. CASE withSqliteTransaction(c)
    <3>1. CASE InLine(c) /\ Mutates(c) /\ withFileLock(c, "queued", "task")
      BY <1>5, <3>1, LocksMoves
    <3>2. CASE /\ call[c].pc = "commit"
               /\ disk' = [call[c].image EXCEPT !.rows[call[c].store] = Edited(c, @)]
               /\ Goto(c, "unlock")
               /\ Quietly /\ UNCHANGED <<lock, ready, queue, faults>>
      BY <1>5, <3>2, FileWritesMoves
    <3>3. CASE WriteFails(c, "commit", "unlockFailed")
      BY <1>5, <3>3, WriteFailsMoves
    <3> QED BY <2>5, <3>1, <3>2, <3>3 DEF withSqliteTransaction
  <2>6. CASE TimesOut(c)
    BY <1>5, <2>6, TimesOutMoves
  <2>7. CASE ReleasesLock(c)
    BY <1>5, <2>7, ReleasesMoves
  <2> QED BY <1>5, <2>1, <2>2, <2>3, <2>4, <2>5, <2>6, <2>7
          DEF SqliteAccess, ClientAccess
<1> QED BY <1>1, <1>2, <1>3, <1>4, <1>5 DEF AccessStep

-----------------------------------------------------------------------------
(* The other steps: requests, answers taken, and processes that die *)

StoresRest == UNCHANGED <<setup, home, disk, lock, ready, queue, faults>>

\* A request, or the end of one.
LEMMA RequestKeeps ==
  ASSUME StoreInv, NEW c \in Callers, call[c].pc \in {"idle", "returned", "threw"},
         StoresRest, NEW t \in CallRecords, t.pc \in {"idle", "called"}, Shape(t),
         call' = [call EXCEPT ![c] = t]
  PROVE  StoreInv'
<1>1. /\ setup' = setup /\ home' = home /\ disk' = disk /\ lock' = lock
      /\ ready' = ready /\ queue' = queue /\ faults' = faults
  BY DEF StoresRest
<1>2. /\ driver' = driver /\ InUse' = InUse /\ CallRecords' = CallRecords
      /\ Database' = Database /\ \A s : Tables(s)' = Tables(s)
      /\ AllVersions' = AllVersions /\ RejectedByTheOther' = RejectedByTheOther
  BY <1>1 DEF driver, InUse, CallRecords, PcsOf, Database, Tables, KeysOf, ValuesOf,
              AllVersions, RejectedByTheOther
<1>3. /\ call \in [Callers -> CallRecords] /\ call'[c] = t
      /\ \A d \in Callers : d # c => call'[d] = call[d]
  BY DEF StoreInv, StoreTypes
<1>4. StoreTypes'
  <2>1. call' \in [Callers -> CallRecords]
    BY <1>3
  <2> QED BY <1>1, <1>2, <2>1 DEF StoreInv, StoreTypes, ReadyStates
<1>5. /\ \A d \in Callers : d # c =>
           /\ (Holds(d)' <=> Holds(d)) /\ FileUsed(d)' = FileUsed(d)
           /\ (Migrating(d)' <=> Migrating(d)) /\ Ready(d)' = Ready(d)
           /\ call'[d].store = call[d].store
      /\ ~Holds(c)' /\ ~Migrating(c)' /\ ~Holds(c) /\ ~Migrating(c)
      /\ \A d \in Callers : me(d)' = me(d)
  BY <1>1, <1>2, <1>3 DEF Holds, HoldsLock, FileUsed, FileOf, Migrating, Migrates,
                          Ready, me
<1>6. LockInv'
  BY <1>1, <1>5 DEF StoreInv, LockInv
<1>7. MigrationInv'
  BY <1>1, <1>5 DEF StoreInv, MigrationInv
<1>8. SchemaInv'
  BY <1>1, <1>2 DEF StoreInv, SchemaInv
<1>9. Shape(call[c])' /\ Fresh(c)' /\ Schema(c)'
  BY <1>2, <1>3, <1>5 DEF Shape, Operations, Deletes, KeysOf, ValuesOf, Fresh, Schema
<1>10. ASSUME NEW d \in Callers, d # c
       PROVE  Shape(call[d])' /\ Fresh(d)' /\ Schema(d)'
  <2>1. Shape(call[d]) /\ Fresh(d) /\ Schema(d) /\ call'[d] = call[d]
    BY <1>3, <1>10 DEF StoreInv
  <2>2. Shape(call[d])'
    BY <1>2, <2>1 DEF Shape, Operations, Deletes, KeysOf, ValuesOf
  <2>3. Fresh(d)'
    BY <1>1, <1>2, <1>5, <1>10, <2>1 DEF Fresh, Snapshot, Rows
  <2>4. Schema(d)'
    BY <1>1, <1>2, <1>5, <1>10, <2>1 DEF Schema
  <2> QED BY <2>2, <2>3, <2>4
<1> QED BY <1>4, <1>6, <1>7, <1>8, <1>9, <1>10 DEF StoreInv

LEMMA IdleIs ==
  ASSUME setup \in Setups
  PROVE  /\ Idle \in CallRecords /\ Shape(Idle) /\ Idle.pc = "idle"
         /\ Idle = [pc |-> "idle", store |-> ToolHistory, op |-> "list",
                    key |-> NoKey, val |-> NoKey, image |-> NoImage, edit |-> "none"]
<1>1. Idle = [pc |-> "idle", store |-> ToolHistory, op |-> "list",
              key |-> NoKey, val |-> NoKey, image |-> NoImage, edit |-> "none"]
  BY DEF Idle, Call
<1>2. "idle" \in PcsOf(driver)
  BY DEF PcsOf
<1>3. ToolHistory \in InUse
  BY DEF InUse
<1>4. NoKey \in CallIds \cup Entries \cup {NoKey}
      /\ NoKey \in Outcomes \cup Processes \cup {NoKey}
      /\ NoImage \in Database \cup {NoImage}
  OBVIOUS
<1>5. Idle \in CallRecords
  BY <1>1, <1>2, <1>3, <1>4 DEF CallRecords
<1>6. Shape(Idle)
  BY <1>1 DEF Shape, Operations
<1> QED BY <1>1, <1>5, <1>6

LEMMA TakesKeeps ==
  ASSUME StoreInv, NEW c \in Callers, Takes(c)
  PROVE  StoreInv'
BY IdleIs, RequestKeeps, CallIs DEF Takes, StoresRest

LEMMA AsksKeeps ==
  ASSUME StoreInv, NEW c \in Callers, call[c].pc \in {"idle", "returned", "threw"},
         NEW s \in InUse, NEW op \in Operations(s), NEW k, NEW v,
         k \in CallIds \cup Entries \cup {NoKey},
         v \in Outcomes \cup Processes \cup {NoKey},
         op # "list" => k \in KeysOf(s) /\ v \in ValuesOf(s),
         Asks(c, s, op, k, v)
  PROVE  StoreInv'
<1> DEFINE t == [pc |-> "called", store |-> s, op |-> op, key |-> k, val |-> v,
                 image |-> NoImage, edit |-> "none"]
<1>1. StoresRest /\ call' = [call EXCEPT ![c] = t]
  BY DEF Asks, StoresRest, Call
<1>2. "called" \in PcsOf(driver)
  BY DEF PcsOf
<1>3. op \in {"get", "list", "save", "delete"}
  BY DEF Operations
<1>4. NoImage \in Database \cup {NoImage}
  OBVIOUS
<1>5. t \in CallRecords
  BY <1>2, <1>3, <1>4 DEF CallRecords
<1>6. Shape(t) /\ t.pc = "called"
  BY DEF Shape
<1> HIDE DEF t
<1> QED BY <1>1, <1>5, <1>6, RequestKeeps

\* What a process loses when it dies.
LEMMA DiesKeeps ==
  ASSUME StoreInv, NEW p \in Processes, Dies(p)
  PROVE  StoreInv'
<1>1. /\ setup' = setup /\ home' = home /\ lock' = lock
      /\ faults < MaxFaults /\ faults' = faults + 1
  BY DEF Dies, Fails, Quietly
<1>2. /\ driver' = driver /\ InUse' = InUse /\ CallRecords' = CallRecords
      /\ Database' = Database /\ \A s : Tables(s)' = Tables(s)
      /\ AllVersions' = AllVersions /\ \A c \in Callers : me(c)' = me(c)
  BY <1>1 DEF driver, InUse, CallRecords, PcsOf, Database, Tables, KeysOf, ValuesOf,
              AllVersions, me
<1>3. /\ faults' \in 0 .. MaxFaults /\ faults' # 0
      /\ setup \in Setups /\ home \in Homes /\ disk \in Database
      /\ call \in [Callers -> CallRecords]
      /\ \A c \in Callers : me(c) \in Processes
  BY <1>1, RecordStoresAssumption DEF StoreInv, StoreTypes, me
<1>4. call' \in [Callers -> CallRecords]
      /\ \A c \in Callers : call'[c] = IF me(c) = p THEN Idle ELSE call[c]
  BY <1>3, IdleIs DEF Dies
<1>5. /\ ready' \in [Processes -> [InUse -> ReadyStates]]
      /\ \A q \in Processes, s \in InUse :
           ready'[q][s] = IF q = p THEN "none" ELSE ready[q][s]
  BY DEF Dies, StoreInv, StoreTypes, ReadyStates
<1>6. /\ queue' \in [Processes -> [InUse -> Seq(Callers)]]
      /\ \A q \in Processes, s \in InUse :
           queue'[q][s] \in Seq({d \in Callers : home[d] = q})
  <2>1. <<>> \in Seq(Callers) /\ \A S : <<>> \in Seq(S)
    OBVIOUS
  <2>2. /\ queue \in [Processes -> [InUse -> Seq(Callers)]]
        /\ queue' = [queue EXCEPT ![p] = [s \in InUse |-> <<>>]]
    BY DEF Dies, StoreInv, StoreTypes
  <2>3. queue' \in [Processes -> [InUse -> Seq(Callers)]]
    BY <2>1, <2>2
  <2>4. ASSUME NEW q \in Processes, NEW s \in InUse
        PROVE  queue'[q][s] \in Seq({d \in Callers : home[d] = q})
    <3>1. CASE q = p
      <4>1. queue'[q][s] = <<>>
        BY <2>2, <3>1
      <4> QED BY <2>1, <4>1
    <3>2. CASE q # p
      <4>1. queue'[q][s] = queue[q][s]
        BY <2>2, <3>2
      <4> QED BY <4>1 DEF StoreInv, StoreTypes
    <3> QED BY <3>1, <3>2
  <2> QED BY <2>3, <2>4
<1>7. /\ disk' \in Database /\ disk'.applied = disk.applied
      /\ driver # "memory" => disk' = disk
  <2>1. CASE driver = "memory"
    <3> DEFINE rs == [s \in InUse |-> <<>>]
    <3>1. \A s \in InUse : rs[s] \in Tables(s)
      BY EmptyIn
    <3>2. rs \in [InUse -> UNION {Tables(s) : s \in InUse}]
      BY <3>1
    <3>3. disk' = [disk EXCEPT !.rows = rs]
      BY <2>1 DEF Dies
    <3> HIDE DEF rs
    <3>4. /\ disk'.applied = disk.applied /\ disk'.rows = rs
          /\ disk' \in [applied : SUBSET AllVersions,
                        rows : [InUse -> UNION {Tables(s) : s \in InUse}]]
      BY <1>3, <3>2, <3>3 DEF Database
    <3> QED BY <2>1, <3>1, <3>4 DEF Database
  <2>2. CASE driver # "memory"
    BY <1>3, <2>2 DEF Dies
  <2> QED BY <2>1, <2>2
<1>8. StoreTypes'
  BY <1>1, <1>2, <1>3, <1>4, <1>5, <1>6, <1>7 DEF StoreInv, StoreTypes
<1>9. \A c \in Callers :
        /\ Holds(c)' => /\ Holds(c) /\ FileUsed(c)' = FileUsed(c)
        /\ Migrating(c)' => /\ Migrating(c) /\ Ready(c)' = Ready(c)
                            /\ call'[c].store = call[c].store
  <2>1. TAKE c \in Callers
  <2>2. CASE me(c) = p
    BY <1>3, <1>4, <2>2, IdleIs DEF Holds, HoldsLock, Migrating, Migrates
  <2>3. CASE me(c) # p
    <3>1. call'[c] = call[c] /\ call[c].store \in InUse
      BY <1>3, <1>4, <2>3, CallIs
    <3>2. Ready(c)' = Ready(c)
      BY <1>2, <1>3, <1>5, <2>3, <3>1 DEF Ready
    <3> QED BY <1>2, <3>1, <3>2
            DEF Holds, HoldsLock, FileUsed, FileOf, Migrating, Migrates
  <2> QED BY <2>2, <2>3
<1>10. LockInv'
  BY <1>1, <1>3, <1>9 DEF StoreInv, LockInv
<1>11. MigrationInv'
  BY <1>2, <1>9 DEF StoreInv, MigrationInv
<1>12. SchemaInv'
  BY <1>1, <1>2, <1>3, <1>5, <1>7 DEF StoreInv, SchemaInv, RejectedByTheOther
<1>13. ASSUME NEW c \in Callers
       PROVE  Shape(call[c])' /\ Fresh(c)' /\ Schema(c)'
  <2>1. CASE me(c) = p
    <3>1. call'[c] = Idle /\ Shape(Idle)
      BY <1>3, <1>4, <2>1, IdleIs
    <3>2. Shape(call[c])'
      BY <1>2, <3>1 DEF Shape, Operations, Deletes, KeysOf, ValuesOf
    <3> QED BY <1>3, <3>1, <3>2, IdleIs DEF Fresh, Schema
  <2>2. CASE me(c) # p
    <3>1. call'[c] = call[c] /\ Shape(call[c]) /\ Fresh(c) /\ Schema(c)
      BY <1>4, <2>2 DEF StoreInv
    <3>2. Shape(call[c])'
      BY <1>2, <3>1 DEF Shape, Operations, Deletes, KeysOf, ValuesOf
    <3>3. Fresh(c)'
      BY <1>2, <1>7, <3>1 DEF Fresh, Snapshot, Rows, Holds, HoldsLock
    <3>4. Schema(c)'
      BY <1>1, <1>2, <1>3, <1>7, <3>1 DEF Schema
    <3> QED BY <3>2, <3>3, <3>4
  <2> QED BY <2>1, <2>2
<1> QED BY <1>8, <1>10, <1>11, <1>12, <1>13 DEF StoreInv

LEMMA StoresInitInv ==
  ASSUME StoresInit
  PROVE  StoreInv
<1>1. /\ setup \in Setups /\ home \in Homes /\ lock = {} /\ faults = 0
      /\ call = [c \in Callers |-> Idle]
      /\ ready = [p \in Processes |-> [s \in InUse |-> "none"]]
      /\ queue = [p \in Processes |-> [s \in InUse |-> <<>>]]
      /\ disk = [applied |-> setup.applied, rows |-> [s \in InUse |-> <<>>]]
      /\ driver = "memory" => \A c, d \in Callers : home[c] = home[d]
  BY DEF StoresInit
<1>2. disk \in Database
  <2>1. setup.applied \in SUBSET AllVersions
    BY <1>1, StoresInUse
  <2> DEFINE rs == [s \in InUse |-> <<>>]
  <2>2. \A s \in InUse : rs[s] \in Tables(s)
    BY EmptyIn
  <2>3. rs \in [InUse -> UNION {Tables(s) : s \in InUse}]
    BY <2>2
  <2> HIDE DEF rs
  <2>4. disk = [applied |-> setup.applied, rows |-> rs]
    BY <1>1 DEF rs
  <2> QED BY <2>1, <2>2, <2>3, <2>4 DEF Database
<1>3. \A c \in Callers : call[c] = Idle /\ call[c].pc = "idle"
  BY <1>1, IdleIs
<1>4. \A p \in Processes, s \in InUse : queue[p][s] = <<>> /\ ready[p][s] = "none"
  BY <1>1
<1>5. \A S : <<>> \in Seq(S)
  OBVIOUS
<1>6. StoreTypes
  <2>1. call \in [Callers -> CallRecords]
    BY <1>1, IdleIs
  <2>2. ready \in [Processes -> [InUse -> ReadyStates]]
    BY <1>1 DEF ReadyStates
  <2>3. queue \in [Processes -> [InUse -> Seq(Callers)]]
    BY <1>1, <1>5
  <2>4. \A p \in Processes, s \in InUse :
          queue[p][s] \in Seq({c \in Callers : home[c] = p})
    BY <1>4, <1>5
  <2>5. faults \in 0 .. MaxFaults
    BY <1>1, RecordStoresAssumption
  <2> QED BY <1>1, <1>2, <2>1, <2>2, <2>3, <2>4, <2>5 DEF StoreTypes
<1>7. LockInv /\ MigrationInv
  BY <1>1, <1>3 DEF LockInv, MigrationInv, Holds, HoldsLock, Migrating, Migrates
<1>8. SchemaInv
  BY <1>1, <1>4 DEF SchemaInv, RejectedByTheOther
<1>9. \A c \in Callers : Shape(call[c]) /\ Fresh(c) /\ Schema(c)
  BY <1>1, <1>3, IdleIs DEF Fresh, Schema
<1> QED BY <1>6, <1>7, <1>8, <1>9 DEF StoreInv

-----------------------------------------------------------------------------
(* The invariant of the tool calls *)

ToolTypes ==
  /\ invocation \in [Callers -> {"none", "gate", "started"} \cup Outcomes]
  /\ attempts \in [Callers -> 0 .. MaxAttempts]
  /\ begun \in 0 .. setup.tasks
  /\ ran \subseteq CallIds
  /\ told \in [{"success", "error"} -> SUBSET CallIds]

Told == told["success"] \cup told["error"]

\* A call of the history store is about the invocation of its caller.
Saves(c) == call[c].pc # "idle" /\ call[c].store = ToolHistory /\ call[c].op = "save"

Linked(c) ==
  /\ invocation[c] \in Outcomes <=> Saves(c)
  /\ Saves(c) => call[c].key = callId(c) /\ call[c].val = invocation[c]
  /\ invocation[c] \in {"gate", "started"} => call[c].pc = "idle"
  /\ invocation[c] # "none" => attempts[c] > 0

\* What is known of the call id of an invocation under way, and of ids to come.
Current(c) ==
  /\ \A n \in 1 .. MaxAttempts : n > attempts[c] =>
       <<c, n>> \notin ran \cup Told \cup DOMAIN History
  /\ invocation[c] # "none" => callId(c) \notin Told
  /\ invocation[c] \in {"gate", "started"} => callId(c) \notin ran \cup DOMAIN History
  /\ invocation[c] = "blocked" => callId(c) \notin ran
  /\ invocation[c] = "succeeded" => callId(c) \in ran
  /\ callId(c) \in DOMAIN History =>
       CASE invocation[c] = "blocked" -> History[callId(c)] = "blocked"
         [] invocation[c] = "succeeded" -> History[callId(c)] = "succeeded"
         [] invocation[c] = "failed" -> History[callId(c)] \in {"failed", "succeeded"}
         [] OTHER -> TRUE

\* A save that has happened is there.
Done(c) ==
  Saves(c) /\ Asked(c).state \in {"applied", "returned"} =>
    call[c].key \in DOMAIN History /\ History[call[c].key] = call[c].val

ToolInv ==
  /\ ToolTypes /\ HistoryTellsTruth
  /\ \A c \in Callers : Linked(c) /\ Current(c) /\ Done(c)

ToolHistoryInv == StoreInv /\ ToolInv

-----------------------------------------------------------------------------
(* The invariant under the steps of the stores *)

LEMMA ToolTypesHave ==
  ASSUME ToolInv, setup \in Setups
  PROVE  /\ invocation \in [Callers -> {"none", "gate", "started"} \cup Outcomes]
         /\ attempts \in [Callers -> 0 .. MaxAttempts]
         /\ \A c \in Callers : /\ attempts[c] \in Nat /\ attempts[c] <= MaxAttempts
                              /\ callId(c) = <<c, attempts[c]>>
         /\ told \in [{"success", "error"} -> SUBSET CallIds]
         /\ setup.tasks \in Nat
         /\ \A c \in Callers, n \in Nat : <<c, n>> \in CallIds <=> n \in 1 .. MaxAttempts
BY ToolInvocationAssumption, StoresInUse DEF ToolInv, ToolTypes, callId, CallIds

\* The history is a table of outcomes by call id.
LEMMA HistoryIs ==
  ASSUME StoreInv
  PROVE  /\ History \in Tables(ToolHistory)
         /\ DOMAIN History \subseteq CallIds
         /\ \A k \in DOMAIN History : History[k] \in Outcomes
<1>1. disk \in Database /\ ToolHistory \in InUse
  BY DEF StoreInv, StoreTypes, InUse
<1>2. History \in Tables(ToolHistory)
  BY <1>1, DatabaseHas DEF History
<1>3. KeysOf(ToolHistory) = CallIds /\ ValuesOf(ToolHistory) = Outcomes
  BY DEF KeysOf, ValuesOf
<1> QED BY <1>2, <1>3, TableIs

\* Nothing that is known of the calls of d has changed.
SameFor(d) ==
  /\ call'[d] = call[d] /\ invocation'[d] = invocation[d] /\ attempts'[d] = attempts[d]
  /\ \A n \in Nat :
       /\ <<d, n>> \in ran' <=> <<d, n>> \in ran
       /\ <<d, n>> \in Told' <=> <<d, n>> \in Told
       /\ <<d, n>> \in DOMAIN History' <=> <<d, n>> \in DOMAIN History
       /\ <<d, n>> \in DOMAIN History => History'[<<d, n>>] = History[<<d, n>>]

LEMMA SameKept ==
  ASSUME ToolHistoryInv, setup' = setup, NEW d \in Callers, SameFor(d)
  PROVE  Linked(d)' /\ Current(d)' /\ Done(d)'
<1>1. /\ Linked(d) /\ Current(d) /\ Done(d)
      /\ attempts[d] \in Nat /\ callId(d) = <<d, attempts[d]>> /\ MaxAttempts \in Nat
  BY ToolTypesHave, ToolInvocationAssumption
     DEF ToolHistoryInv, ToolInv, StoreInv, StoreTypes
<1>2. /\ callId(d)' = callId(d) /\ (Saves(d)' <=> Saves(d)) /\ Asked(d)' = Asked(d)
  BY DEF SameFor, callId, Saves, Asked, FoundNothing, driver
<1>3. Linked(d)'
  BY <1>1, <1>2 DEF SameFor, Linked
<1>4. Current(d)'
  <2>1. \A n \in 1 .. MaxAttempts : n \in Nat
    BY <1>1
  <2> QED BY <1>1, <1>2, <2>1 DEF SameFor, Current
<1>5. Done(d)'
  <2>1. Saves(d) => call[d].key = callId(d)
    BY <1>1 DEF Linked
  <2> QED BY <1>1, <1>2, <2>1 DEF SameFor, Done
<1> QED BY <1>3, <1>4, <1>5

\* The history changes only as the save of its caller says, and has the entry
\* once that save has happened.
LEMMA HistoryMoves ==
  ASSUME ToolHistoryInv, NEW c \in Callers, Moves(c)
  PROVE  \/ /\ History' = History
            /\ Saves(c) /\ StateOf(call'[c]) \in {"applied", "returned"} =>
                 StateOf(call[c]) \in {"applied", "returned"}
         \/ /\ Saves(c)
            /\ History' = Holding(History, callId(c), invocation[c])
<1>1. /\ StoreInv /\ Linked(c) /\ StateMoves(c) /\ call[c].pc # "idle"
      /\ disk \in Database /\ call[c].store \in InUse /\ ToolHistory \in InUse
      /\ call[c].op \in {"get", "list", "save", "delete"}
      /\ call[c].op \in Operations(call[c].store)
  BY CallIs DEF ToolHistoryInv, ToolInv, Moves, InUse
<1>2. CASE /\ disk'.rows = disk.rows
           /\ (StateOf(call'[c]) = StateOf(call[c])
             \/ StateOf(call[c]) = "applied" \/ StateOf(call'[c]) = "threw")
  BY <1>2 DEF History
<1>3. CASE disk' = [disk EXCEPT !.rows[call[c].store] = Effected(c)]
  <2>1. /\ disk'.rows[call[c].store] = Effected(c)
        /\ \A q \in InUse : q # call[c].store => disk'.rows[q] = disk.rows[q]
    BY <1>1, <1>3, EffectedIn, StoredIn
  <2>2. CASE call[c].store # ToolHistory
    <3>1. History' = History /\ ~Saves(c)
      BY <1>1, <2>1, <2>2 DEF History, Saves
    <3> QED BY <3>1
  <2>3. CASE call[c].store = ToolHistory
    <3>1. call[c].op \in {"list", "save"}
      BY <1>1, <2>3 DEF Operations
    <3>2. CASE call[c].op = "list"
      <4>1. History' = History /\ ~Saves(c)
        BY <2>1, <2>3, <3>2 DEF Effected, Rows, History, Saves
      <4> QED BY <4>1
    <3>3. CASE call[c].op = "save"
      <4>1. Saves(c)
        BY <1>1, <2>3, <3>3 DEF Saves
      <4>2. call[c].key = callId(c) /\ call[c].val = invocation[c]
        BY <1>1, <4>1 DEF Linked
      <4> QED BY <2>1, <2>3, <3>3, <4>1, <4>2 DEF Effected, Rows, History
    <3> QED BY <3>1, <3>2, <3>3
  <2> QED BY <2>2, <2>3
<1> QED BY <1>1, <1>2, <1>3 DEF StateMoves

LEMMA MovesKeepTools ==
  ASSUME ToolHistoryInv, NEW c \in Callers, Moves(c), UNCHANGED toolVars
  PROVE  ToolInv'
<1>1. /\ StoreInv /\ ToolInv /\ Linked(c) /\ Current(c) /\ Done(c)
      /\ call[c].pc # "idle" /\ call'[c].pc # "idle" /\ SameRequest(call'[c], call[c])
      /\ setup' = setup /\ home' = home
  BY DEF ToolHistoryInv, ToolInv, Moves
<1>2. /\ begun' = begun /\ invocation' = invocation /\ attempts' = attempts
      /\ ran' = ran /\ told' = told /\ Told' = Told
      /\ \A d \in Callers : callId(d)' = callId(d)
  BY DEF toolVars, callId, Told
<1>3. /\ driver' = driver /\ \A d \in Callers : d # c => call'[d] = call[d]
      /\ faults' = 0 => faults = 0
      /\ setup \in Setups
  <2>1. faults \in 0 .. MaxFaults /\ faults' \in faults .. MaxFaults /\ setup \in Setups
    BY DEF ToolHistoryInv, StoreInv, StoreTypes, Moves
  <2> QED BY <1>1, <2>1, OneMoves, RecordStoresAssumption
<1>4. Saves(c)' <=> Saves(c)
  BY <1>1 DEF Saves, SameRequest
<1>5. /\ attempts[c] \in Nat /\ callId(c) = <<c, attempts[c]>>
      /\ \A d \in Callers : attempts[d] \in Nat /\ callId(d) = <<d, attempts[d]>>
      /\ MaxAttempts \in Nat
  BY <1>1, <1>3, ToolTypesHave, ToolInvocationAssumption
<1>6. ToolTypes'
  BY <1>1, <1>2 DEF ToolInv, ToolTypes
<1>7. Linked(c)'
  BY <1>1, <1>2, <1>4 DEF Linked, SameRequest
<1>8. ASSUME History' = History
      PROVE  EntriesAreTrue' /\ SuccessIsRecorded' /\ Current(c)'
  <2>1. EntriesAreTrue' /\ SuccessIsRecorded'
    BY <1>1, <1>2, <1>3, <1>8
       DEF ToolInv, HistoryTellsTruth, EntriesAreTrue, SuccessIsRecorded
  <2>2. Current(c)'
    BY <1>1, <1>2, <1>8 DEF Current
  <2> QED BY <2>1, <2>2
<1>9. ASSUME Saves(c), History' = Holding(History, callId(c), invocation[c])
      PROVE  /\ DOMAIN History' = DOMAIN History \cup {callId(c)}
             /\ History'[callId(c)] = invocation[c]
             /\ \A k \in DOMAIN History : k # callId(c) => History'[k] = History[k]
  <2>1. call[c].store = ToolHistory /\ call[c].op = "save"
        /\ call[c].key = callId(c) /\ call[c].val = invocation[c]
    BY <1>1, <1>9 DEF Saves, Linked
  <2>2. callId(c) \in KeysOf(ToolHistory) /\ invocation[c] \in ValuesOf(ToolHistory)
    BY <1>1, <2>1 DEF StoreInv, Shape
  <2>3. History \in Tables(ToolHistory)
    BY <1>1, HistoryIs
  <2>4. PICK r \in Tables(ToolHistory), k \in KeysOf(ToolHistory),
             v \in ValuesOf(ToolHistory) :
          r = History /\ k = callId(c) /\ v = invocation[c]
    BY <2>2, <2>3
  <2>5. /\ DOMAIN Holding(r, k, v) = DOMAIN r \cup {k} /\ Holding(r, k, v)[k] = v
        /\ \A x \in DOMAIN r : x # k => Holding(r, k, v)[x] = r[x]
    BY <2>4, HoldingIn
  <2>6. History' = Holding(r, k, v)
    BY <1>9, <2>4
  <2> QED BY <2>4, <2>5, <2>6
<1>10. ASSUME Saves(c), History' = Holding(History, callId(c), invocation[c])
       PROVE  EntriesAreTrue' /\ SuccessIsRecorded' /\ Current(c)'
  <2>1. invocation[c] \in Outcomes /\ callId(c) \notin Told
    BY <1>1, <1>10 DEF Linked, Current, Outcomes
  <2>2. EntriesAreTrue'
    <3>1. ASSUME NEW k \in DOMAIN History', k # callId(c)
          PROVE  /\ History'[k] = "blocked" => k \notin ran
                 /\ History'[k] = "succeeded" => k \in ran
                 /\ \/ History'[k] \in {"blocked", "succeeded"}
                    \/ k \notin told["success"]
      BY <1>1, <1>9, <1>10, <3>1 DEF ToolInv, HistoryTellsTruth, EntriesAreTrue
    <3>2. /\ invocation[c] = "blocked" => callId(c) \notin ran
          /\ invocation[c] = "succeeded" => callId(c) \in ran
          /\ callId(c) \notin told["success"]
      BY <1>1, <2>1 DEF Current, Outcomes, Told
    <3> QED BY <1>2, <1>9, <1>10, <3>1, <3>2 DEF EntriesAreTrue
  <2>3. SuccessIsRecorded'
    BY <1>1, <1>2, <1>3, <1>9, <1>10, <2>1
       DEF ToolInv, HistoryTellsTruth, SuccessIsRecorded, Told
  <2>4. Current(c)'
    <3>1. \A n \in 1 .. MaxAttempts : n > attempts[c] => <<c, n>> # callId(c)
      BY <1>5
    <3> QED BY <1>1, <1>2, <1>9, <1>10, <2>1, <3>1 DEF Current, Outcomes
  <2> QED BY <2>2, <2>3, <2>4
<1>11. EntriesAreTrue' /\ SuccessIsRecorded' /\ Current(c)'
  <2>1. \/ History' = History
        \/ Saves(c) /\ History' = Holding(History, callId(c), invocation[c])
    BY HistoryMoves
  <2> QED BY <1>8, <1>10, <2>1
<1>12. WorkIsRecorded'
  <2>1. DOMAIN History \subseteq DOMAIN History'
    BY <1>9, HistoryMoves
  <2>2. \A k \in ran : home[k[1]] \in Processes /\ ToolHistory \in InUse
    BY <1>1, <1>3, RecordStoresAssumption
       DEF ToolInv, ToolTypes, CallIds, StoreInv, StoreTypes, InUse
  <2>3. \A p \in Processes, s \in InUse :
          ready[p][s] = "rejected" => ready'[p][s] = "rejected"
    BY <1>1, ReadyIs DEF Ready
  <2> QED BY <1>1, <1>2, <1>3, <2>1, <2>2, <2>3
          DEF ToolInv, HistoryTellsTruth, WorkIsRecorded
<1>13. Done(c)'
  <2>1. Asked(c).state = StateOf(call[c]) /\ Asked(c)'.state = StateOf(call'[c])
    BY <1>3 DEF Asked, StateOf, FoundNothing
  <2>2. call'[c].key = call[c].key /\ call'[c].val = call[c].val
    BY <1>1 DEF SameRequest
  <2>3. Saves(c) => call[c].key = callId(c) /\ call[c].val = invocation[c]
    BY <1>1 DEF Linked
  <2> QED BY <1>1, <1>4, <1>9, <2>1, <2>2, <2>3, HistoryMoves DEF Done
<1>14. ASSUME NEW d \in Callers, d # c PROVE SameFor(d)
  <2>1. \A n : <<d, n>> # callId(c)
    BY <1>5, <1>14
  <2>2. \A n \in Nat :
          /\ <<d, n>> \in DOMAIN History' <=> <<d, n>> \in DOMAIN History
          /\ <<d, n>> \in DOMAIN History => History'[<<d, n>>] = History[<<d, n>>]
    BY <1>9, <2>1, HistoryMoves
  <2> QED BY <1>2, <1>3, <1>14, <2>2 DEF SameFor
<1> QED BY <1>1, <1>6, <1>7, <1>11, <1>12, <1>13, <1>14, SameKept
        DEF ToolInv, HistoryTellsTruth

-----------------------------------------------------------------------------
(* The invariant under the steps of the tool calls *)

\* A step of c that is about its call <<c, n>> and leaves the disk alone.
LEMMA ToolKeeps ==
  ASSUME ToolHistoryInv, NEW c \in Callers, NEW n,
         setup' = setup, disk' = disk,
         \A d \in Callers : d # c => /\ call'[d] = call[d]
                                     /\ invocation'[d] = invocation[d]
                                     /\ attempts'[d] = attempts[d],
         ran \subseteq ran', ran' \subseteq ran \cup {<<c, n>>},
         Told \subseteq Told', Told' \subseteq Told \cup {<<c, n>>},
         ToolTypes', HistoryTellsTruth', Linked(c)', Current(c)', Done(c)'
  PROVE  ToolInv'
<1>1. ASSUME NEW d \in Callers, d # c PROVE SameFor(d)
  <2>1. \A m : <<d, m>> # <<c, n>>
    BY <1>1
  <2>2. History' = History
    BY DEF History
  <2> QED BY <1>1, <2>1, <2>2 DEF SameFor
<1> QED BY <1>1, SameKept DEF ToolInv

\* Another attempt of the step: the request is refused, or the gate is asked.
LEMMA BeginsKeeps ==
  ASSUME ToolHistoryInv, NEW c \in Callers, invoke(c) \/ refuseRequest(c)
  PROVE  ToolInv'
<1> DEFINE n == attempts[c] + 1
<1>1. /\ UNCHANGED <<storeVars, ran>> /\ Begins(c)
      /\ attempts' = [attempts EXCEPT ![c] = @ + 1]
      /\ \/ /\ invocation' = [invocation EXCEPT ![c] = "gate"] /\ told' = told
         \/ /\ invocation' = invocation
            /\ told' = [told EXCEPT !["error"] = @ \cup {<<c, n>>}]
  BY DEF invoke, refuseRequest, Stage
<1>2. /\ StoreInv /\ ToolInv /\ setup \in Setups /\ Linked(c) /\ Current(c)
      /\ call[c].pc = "idle" /\ invocation[c] = "none" /\ attempts[c] < MaxAttempts
  BY <1>1 DEF ToolHistoryInv, ToolInv, StoreInv, StoreTypes, Begins, Free
<1>3. /\ invocation \in [Callers -> {"none", "gate", "started"} \cup Outcomes]
      /\ attempts \in [Callers -> 0 .. MaxAttempts]
      /\ attempts[c] \in Nat /\ MaxAttempts \in Nat /\ n \in 1 .. MaxAttempts
      /\ <<c, n>> \in CallIds
      /\ told \in [{"success", "error"} -> SUBSET CallIds]
      /\ setup.tasks \in Nat
  BY <1>2, ToolTypesHave, ToolInvocationAssumption
<1>4. /\ setup' = setup /\ home' = home /\ disk' = disk /\ call' = call /\ ready' = ready
      /\ faults' = faults /\ ran' = ran /\ driver' = driver /\ History' = History
  BY <1>1 DEF storeVars, driver, History
<1>5. <<c, n>> \notin ran \cup Told \cup DOMAIN History
  BY <1>2, <1>3 DEF Current
<1>6. /\ attempts'[c] = n /\ callId(c)' = <<c, n>>
      /\ attempts' \in [Callers -> 0 .. MaxAttempts]
      /\ invocation' \in [Callers -> {"none", "gate", "started"} \cup Outcomes]
      /\ told' \in [{"success", "error"} -> SUBSET CallIds]
      /\ told'["success"] = told["success"]
      /\ Told \subseteq Told' /\ Told' \subseteq Told \cup {<<c, n>>}
      /\ invocation'[c] = "none" \/ (invocation'[c] = "gate" /\ Told' = Told)
  BY <1>1, <1>2, <1>3 DEF callId, Told
<1>7. \A d \in Callers : d # c => /\ invocation'[d] = invocation[d]
                                  /\ attempts'[d] = attempts[d]
  BY <1>1, <1>3
<1>8. ToolTypes'
  <2>1. begun' \in 0 .. setup.tasks
    BY <1>1, <1>3 DEF Begins, TakesOn, ToolHistoryInv, ToolInv, ToolTypes
  <2> QED BY <1>2, <1>4, <1>6, <2>1 DEF ToolInv, ToolTypes
<1>9. HistoryTellsTruth'
  BY <1>2, <1>4, <1>5, <1>6 DEF ToolInv, HistoryTellsTruth, EntriesAreTrue,
     SuccessIsRecorded, WorkIsRecorded, Told
<1>10. Linked(c)' /\ Current(c)' /\ Done(c)'
  <2>1. ~Saves(c)'
    BY <1>2, <1>4 DEF Saves
  <2>2. Linked(c)'
    BY <1>2, <1>3, <1>4, <1>6, <2>1 DEF Linked, Outcomes
  <2>3. ASSUME NEW m \in 1 .. MaxAttempts, m > n
        PROVE  <<c, m>> \notin ran \cup Told' \cup DOMAIN History
    <3>1. m > attempts[c] /\ <<c, m>> # <<c, n>>
      BY <1>3, <2>3
    <3> QED BY <1>2, <1>6, <3>1 DEF Current
  <2>4. Current(c)'
    BY <1>4, <1>5, <1>6, <2>3 DEF Current
  <2> QED BY <2>1, <2>2, <2>4 DEF Done
<1> HIDE DEF n
<1> QED BY <1>4, <1>6, <1>7, <1>8, <1>9, <1>10, ToolKeeps

\* An entry is about to be saved, the first of its call or in the place of a
\* success that could not be saved.
LEMMA OnInvocationKeeps ==
  ASSUME ToolHistoryInv, NEW c \in Callers, NEW entry \in Outcomes,
         onInvocation(c, entry), UNCHANGED <<begun, attempts, told>>,
         ran' \in {ran, ran \cup {callId(c)}},
         \/ invocation[c] = "gate" /\ entry = "blocked" /\ ran' = ran
         \/ /\ invocation[c] = "started" /\ entry \in {"failed", "succeeded"}
            /\ entry = "succeeded" => callId(c) \in ran'
         \/ invocation[c] = "succeeded" /\ entry = "failed" /\ ran' = ran
  PROVE  ToolInv'
<1>1. /\ StoreInv /\ ToolInv /\ setup \in Setups /\ Linked(c) /\ Current(c)
      /\ invocation' = [invocation EXCEPT ![c] = entry]
      /\ call' = [call EXCEPT ![c] = Call("called", ToolHistory, "save", callId(c), entry)]
      /\ call \in [Callers -> CallRecords]
  BY CallIs DEF ToolHistoryInv, ToolInv, StoreInv, StoreTypes, onInvocation, Stage, Asks
<1>2. /\ setup' = setup /\ home' = home /\ disk' = disk /\ ready' = ready
      /\ faults' = faults /\ driver' = driver /\ History' = History
      /\ begun' = begun /\ attempts' = attempts /\ told' = told /\ Told' = Told
  BY DEF onInvocation, Asks, driver, History, Told
<1>3. /\ invocation \in [Callers -> {"none", "gate", "started"} \cup Outcomes]
      /\ attempts[c] \in Nat /\ MaxAttempts \in Nat /\ callId(c) = <<c, attempts[c]>>
      /\ attempts[c] > 0 /\ callId(c) \in CallIds
  BY <1>1, ToolTypesHave, ToolInvocationAssumption DEF Linked
<1>4. /\ call'[c].pc = "called" /\ call'[c].store = ToolHistory /\ call'[c].op = "save"
      /\ call'[c].key = callId(c) /\ call'[c].val = entry /\ Saves(c)'
      /\ invocation'[c] = entry /\ callId(c)' = callId(c)
      /\ \A d \in Callers : d # c => call'[d] = call[d] /\ invocation'[d] = invocation[d]
  BY <1>1, <1>2, <1>3 DEF Call, Saves, callId
<1>5. callId(c) \notin Told
  BY <1>1 DEF Current
<1>6. ToolTypes'
  <2>1. invocation' \in [Callers -> {"none", "gate", "started"} \cup Outcomes]
    BY <1>1, <1>3
  <2> QED BY <1>1, <1>2, <1>3, <2>1 DEF ToolInv, ToolTypes
<1>7. HistoryTellsTruth'
  <2>1. EntriesAreTrue'
    <3>1. callId(c) \in DOMAIN History /\ callId(c) \in ran' =>
            History[callId(c)] # "blocked" \/ ran' = ran
      BY <1>1 DEF Current
    <3> QED BY <1>1, <1>2, <3>1 DEF ToolInv, HistoryTellsTruth, EntriesAreTrue
  <2>2. SuccessIsRecorded'
    BY <1>1, <1>2 DEF ToolInv, HistoryTellsTruth, SuccessIsRecorded
  <2>3. WorkIsRecorded'
    BY <1>1, <1>2, <1>5 DEF ToolInv, HistoryTellsTruth, WorkIsRecorded, Told
  <2> QED BY <2>1, <2>2, <2>3 DEF HistoryTellsTruth
<1>8. Linked(c)'
  BY <1>2, <1>3, <1>4 DEF Linked, Outcomes
<1>9. Current(c)'
  <2>1. \A m \in 1 .. MaxAttempts : m > attempts[c] => <<c, m>> # callId(c)
    BY <1>3
  <2>2. callId(c) \in DOMAIN History =>
          invocation[c] = "succeeded" /\ History[callId(c)] = "succeeded"
    BY <1>1 DEF Current
  <2>3. invocation[c] = "gate" => callId(c) \notin ran
    BY <1>1 DEF Current
  <2> QED BY <1>1, <1>2, <1>4, <1>5, <2>1, <2>2, <2>3 DEF Current
<1>10. Done(c)'
  <2>1. Asked(c)'.state = "pending"
    BY <1>4 DEF Asked, FoundNothing
  <2> QED BY <2>1 DEF Done
<1>11. ran \subseteq ran' /\ ran' \subseteq ran \cup {<<c, attempts[c]>>}
  BY <1>3
<1> QED BY <1>2, <1>4, <1>6, <1>7, <1>8, <1>9, <1>10, <1>11, ToolKeeps

LEMMA StartedKeeps ==
  ASSUME ToolHistoryInv, NEW c \in Callers, notifyStarted(c)
  PROVE  ToolInv'
<1>1. /\ StoreInv /\ ToolInv /\ setup \in Setups
      /\ Linked(c) /\ Current(c) /\ invocation[c] = "gate"
      /\ invocation' = [invocation EXCEPT ![c] = "started"]
  BY DEF ToolHistoryInv, ToolInv, StoreInv, StoreTypes, notifyStarted, Stage
<1>2. /\ setup' = setup /\ home' = home /\ disk' = disk /\ ready' = ready /\ call' = call
      /\ faults' = faults /\ driver' = driver /\ History' = History /\ ran' = ran
      /\ begun' = begun /\ attempts' = attempts /\ told' = told /\ Told' = Told
      /\ callId(c)' = callId(c)
  BY DEF notifyStarted, storeVars, driver, History, Told, callId
<1>3. invocation \in [Callers -> {"none", "gate", "started"} \cup Outcomes]
  BY <1>1, ToolTypesHave
<1>4. /\ invocation'[c] = "started"
      /\ invocation' \in [Callers -> {"none", "gate", "started"} \cup Outcomes]
      /\ \A d \in Callers : d # c => invocation'[d] = invocation[d]
  BY <1>1, <1>3
<1>5. ToolTypes'
  BY <1>1, <1>2, <1>4 DEF ToolInv, ToolTypes
<1>6. HistoryTellsTruth'
  BY <1>1, <1>2 DEF ToolInv, HistoryTellsTruth, EntriesAreTrue, SuccessIsRecorded,
                    WorkIsRecorded
<1>7. ~Saves(c)' /\ (Saves(c)' <=> Saves(c))
  BY <1>1, <1>2 DEF Saves, Linked
<1>8. Linked(c)' /\ Current(c)' /\ Done(c)'
  BY <1>1, <1>2, <1>4, <1>7 DEF Linked, Current, Done, Outcomes
<1>9. ran \subseteq ran' /\ ran' \subseteq ran \cup {<<c, 0>>}
      /\ Told \subseteq Told' /\ Told' \subseteq Told \cup {<<c, 0>>}
  BY <1>2
<1> QED BY <1>2, <1>4, <1>5, <1>6, <1>8, <1>9, ToolKeeps

\* The step is told how its call went, and its entry is there, unless it could
\* not be saved.
LEMMA TellsKeeps ==
  ASSUME ToolHistoryInv, NEW c \in Callers, notified(c) \/ saveFails(c),
         invocation[c] # "succeeded" \/ call[c].pc = "returned"
  PROVE  ToolInv'
<1> DEFINE o == IF invocation[c] = "succeeded" THEN "success" ELSE "error"
<1>1. /\ StoreInv /\ ToolInv /\ setup \in Setups
      /\ Linked(c) /\ Current(c) /\ Done(c) /\ Schema(c)
      /\ call \in [Callers -> CallRecords] /\ call[c].store \in InUse
      /\ home \in [Callers -> Processes]
  BY CallIs, RecordStoresAssumption DEF ToolHistoryInv, ToolInv, StoreInv
<1>2. /\ invocation[c] \in Outcomes /\ Takes(c)
      /\ invocation' = [invocation EXCEPT ![c] = "none"]
      /\ told' = [told EXCEPT ![o] = @ \cup {callId(c)}]
      /\ begun' = begun /\ attempts' = attempts /\ ran' = ran
      /\ \/ call[c].pc = "returned"
         \/ call[c].pc = "threw" /\ o = "error"
  BY DEF notified, saveFails, Stage, Tells
<1>3. /\ setup' = setup /\ home' = home /\ disk' = disk /\ ready' = ready
      /\ faults' = faults /\ driver' = driver /\ History' = History
      /\ call' = [call EXCEPT ![c] = Idle] /\ callId(c)' = callId(c)
  BY <1>2 DEF Takes, driver, History, callId
<1>4. /\ invocation \in [Callers -> {"none", "gate", "started"} \cup Outcomes]
      /\ told \in [{"success", "error"} -> SUBSET CallIds]
      /\ attempts[c] \in Nat /\ MaxAttempts \in Nat /\ callId(c) = <<c, attempts[c]>>
      /\ attempts[c] > 0 /\ callId(c) \in CallIds /\ setup.tasks \in Nat
  BY <1>1, <1>2, ToolTypesHave, ToolInvocationAssumption DEF Linked, Outcomes
<1>5. /\ call'[c] = Idle /\ invocation'[c] = "none"
      /\ invocation' \in [Callers -> {"none", "gate", "started"} \cup Outcomes]
      /\ \A d \in Callers : d # c => call'[d] = call[d] /\ invocation'[d] = invocation[d]
  BY <1>1, <1>2, <1>3, <1>4
<1>6. /\ told' \in [{"success", "error"} -> SUBSET CallIds]
      /\ Told' = Told \cup {callId(c)}
      /\ told'["success"] = IF o = "success" THEN told["success"] \cup {callId(c)}
                                             ELSE told["success"]
  BY <1>2, <1>4 DEF Told
<1>7. Saves(c) /\ call[c].key = callId(c) /\ call[c].val = invocation[c]
  BY <1>1, <1>2 DEF Linked
<1>8. call[c].pc = "returned" =>
        callId(c) \in DOMAIN History /\ History[callId(c)] = invocation[c]
  <2>1. call[c].pc = "returned" => Asked(c).state = "returned"
    BY DEF Asked, FoundNothing
  <2> QED BY <1>1, <1>7, <2>1 DEF Done
<1>9. ToolTypes'
  BY <1>1, <1>2, <1>3, <1>5, <1>6 DEF ToolInv, ToolTypes
<1>10. HistoryTellsTruth'
  <2>1. o = "success" => /\ invocation[c] = "succeeded" /\ callId(c) \in ran
                         /\ callId(c) \in DOMAIN History
                         /\ History[callId(c)] = "succeeded"
    BY <1>1, <1>2, <1>8 DEF Current
  <2>2. EntriesAreTrue'
    BY <1>1, <1>2, <1>3, <1>6, <2>1 DEF ToolInv, HistoryTellsTruth, EntriesAreTrue
  <2>3. SuccessIsRecorded'
    BY <1>1, <1>2, <1>3, <1>6, <2>1 DEF ToolInv, HistoryTellsTruth, SuccessIsRecorded
  <2>4. driver = "postgres" /\ faults = 0 =>
          \/ callId(c) \in DOMAIN History
          \/ ready[home[callId(c)[1]]][ToolHistory] = "rejected"
    <3>1. callId(c)[1] = c /\ call[c].store = ToolHistory
      BY <1>4, <1>7 DEF Saves
    <3> QED BY <1>1, <1>2, <1>8, <3>1 DEF Schema, Ready, me
  <2>5. WorkIsRecorded'
    BY <1>1, <1>2, <1>3, <1>6, <2>4
       DEF ToolInv, HistoryTellsTruth, WorkIsRecorded, Told
  <2> QED BY <2>2, <2>3, <2>5 DEF HistoryTellsTruth
<1>11. ~Saves(c)'
  BY <1>1, <1>5, IdleIs DEF Saves
<1>12. Linked(c)' /\ Done(c)'
  BY <1>5, <1>11, IdleIs DEF Linked, Done, Outcomes
<1>13. Current(c)'
  <2>1. \A m \in 1 .. MaxAttempts : m > attempts[c] => <<c, m>> # callId(c)
    BY <1>4
  <2> QED BY <1>1, <1>2, <1>3, <1>5, <1>6, <2>1 DEF Current
<1>14. /\ ran \subseteq ran' /\ ran' \subseteq ran \cup {<<c, attempts[c]>>}
       /\ Told \subseteq Told' /\ Told' \subseteq Told \cup {<<c, attempts[c]>>}
  BY <1>2, <1>4, <1>6
<1> HIDE DEF o
<1> QED BY <1>2, <1>3, <1>5, <1>9, <1>10, <1>12, <1>13, <1>14, ToolKeeps

\* Requests that are no tool calls leave the history's truth alone.
LEMMA OtherRequestKeeps ==
  ASSUME ToolHistoryInv, NEW c \in Callers, invocation[c] = "none", StoresRest,
         begun' \in 0 .. setup.tasks, UNCHANGED <<invocation, attempts, ran, told>>,
         \A d \in Callers : d # c => call'[d] = call[d], ~Saves(c)'
  PROVE  ToolInv'
<1>1. /\ StoreInv /\ ToolInv /\ setup \in Setups /\ Linked(c) /\ Current(c)
  BY DEF ToolHistoryInv, ToolInv, StoreInv, StoreTypes
<1>2. /\ setup' = setup /\ home' = home /\ disk' = disk /\ ready' = ready
      /\ faults' = faults /\ driver' = driver /\ History' = History /\ ran' = ran
      /\ invocation' = invocation /\ attempts' = attempts /\ told' = told /\ Told' = Told
      /\ callId(c)' = callId(c)
  BY DEF StoresRest, driver, History, Told, callId
<1>3. ToolTypes'
  BY <1>1, <1>2 DEF ToolInv, ToolTypes
<1>4. HistoryTellsTruth'
  BY <1>1, <1>2 DEF ToolInv, HistoryTellsTruth, EntriesAreTrue, SuccessIsRecorded,
                    WorkIsRecorded
<1>5. Linked(c)' /\ Current(c)' /\ Done(c)'
  BY <1>1, <1>2 DEF Linked, Current, Done, Outcomes
<1>6. ran \subseteq ran' /\ ran' \subseteq ran \cup {<<c, 0>>}
      /\ Told \subseteq Told' /\ Told' \subseteq Told \cup {<<c, 0>>}
  BY <1>2
<1> QED BY <1>2, <1>3, <1>4, <1>5, <1>6, ToolKeeps

\* A process that dies takes the invocations of its callers with it.
LEMMA ProcessDiesKeeps ==
  ASSUME ToolHistoryInv, NEW p \in Processes, processDies(p)
  PROVE  ToolInv'
<1>1. /\ StoreInv /\ ToolInv /\ setup \in Setups /\ disk \in Database
      /\ \A c \in Callers : Linked(c) /\ Current(c) /\ Done(c)
      /\ Dies(p) /\ faults \in 0 .. MaxFaults
      /\ driver = "memory" => \A c, d \in Callers : home[c] = home[d]
  BY DEF ToolHistoryInv, ToolInv, StoreInv, StoreTypes, processDies
<1>2. /\ setup' = setup /\ home' = home /\ driver' = driver /\ faults' # 0
      /\ begun' = begun /\ attempts' = attempts /\ ran' = ran /\ told' = told
      /\ Told' = Told
      /\ \A c \in Callers : /\ call'[c] = IF me(c) = p THEN Idle ELSE call[c]
                            /\ invocation'[c] = IF me(c) = p THEN "none" ELSE invocation[c]
                            /\ callId(c)' = callId(c)
  BY <1>1 DEF processDies, Dies, Fails, Quietly, driver, callId, Told
<1>3. /\ driver # "memory" => History' = History
      /\ driver = "memory" => /\ DOMAIN History' = {}
                              /\ \A c \in Callers : me(c) = p
  <2>1. driver # "memory" => History' = History
    BY <1>1 DEF Dies, History
  <2>2. ASSUME driver = "memory" PROVE DOMAIN History' = {}
    <3>1. disk' = [disk EXCEPT !.rows = [s \in InUse |-> <<>>]] /\ ToolHistory \in InUse
      BY <1>1, <2>2 DEF Dies, InUse
    <3>2. disk'.rows = [s \in InUse |-> <<>>]
      BY <1>1, <3>1 DEF Database
    <3>3. History' = <<>>
      BY <3>1, <3>2 DEF History
    <3> QED BY <3>3, EmptyIn
  <2>3. driver = "memory" => \A c \in Callers : me(c) = p
    BY <1>1 DEF processDies, me
  <2> QED BY <2>1, <2>2, <2>3
<1>4. ToolTypes'
  <2>1. invocation' \in [Callers -> {"none", "gate", "started"} \cup Outcomes]
    BY <1>1, ToolTypesHave DEF processDies
  <2> QED BY <1>1, <1>2, <2>1 DEF ToolInv, ToolTypes
<1>5. HistoryTellsTruth'
  BY <1>1, <1>2, <1>3 DEF ToolInv, HistoryTellsTruth, EntriesAreTrue,
                          SuccessIsRecorded, WorkIsRecorded
<1>6. ASSUME NEW c \in Callers
      PROVE  Linked(c)' /\ Current(c)' /\ Done(c)'
  <2>1. CASE me(c) = p
    <3>1. call'[c] = Idle /\ invocation'[c] = "none" /\ ~Saves(c)'
      BY <1>1, <1>2, <2>1, IdleIs DEF Saves
    <3>2. DOMAIN History' \subseteq DOMAIN History
      BY <1>3
    <3> QED BY <1>1, <1>2, <3>1, <3>2 DEF Linked, Current, Done, Outcomes
  <2>2. CASE me(c) # p
    <3>1. SameFor(c)
      BY <1>2, <1>3, <2>2 DEF SameFor
    <3> QED BY <1>2, <3>1, SameKept
  <2> QED BY <2>1, <2>2
<1> QED BY <1>4, <1>5, <1>6 DEF ToolInv

\* A step that changes none of its variables keeps the invariant of the stores.
LEMMA StoreUnchanged ==
  ASSUME StoreInv, setup' = setup, home' = home, disk' = disk, lock' = lock,
         ready' = ready, queue' = queue, call' = call, faults' = faults
  PROVE  StoreInv'
<1>1. /\ driver' = driver /\ InUse' = InUse /\ CallRecords' = CallRecords
      /\ Database' = Database /\ AllVersions' = AllVersions
      /\ RejectedByTheOther' = RejectedByTheOther
  BY DEF driver, InUse, CallRecords, PcsOf, Database, Tables, KeysOf, ValuesOf,
         AllVersions, RejectedByTheOther
<1>2. \A c \in Callers :
        /\ (Holds(c)' <=> Holds(c)) /\ FileUsed(c)' = FileUsed(c)
        /\ (Migrating(c)' <=> Migrating(c)) /\ Ready(c)' = Ready(c) /\ me(c)' = me(c)
        /\ Snapshot(c)' = Snapshot(c) /\ Rows(c)' = Rows(c)
  BY <1>1 DEF Holds, HoldsLock, FileUsed, FileOf, Migrating, Migrates, Ready, me,
              Snapshot, Rows
<1>3. StoreTypes'
  BY <1>1 DEF StoreInv, StoreTypes, ReadyStates
<1>4. LockInv' /\ MigrationInv' /\ SchemaInv'
  BY <1>1, <1>2 DEF StoreInv, LockInv, MigrationInv, SchemaInv
<1>5. \A c \in Callers : Shape(call[c])' /\ Fresh(c)' /\ Schema(c)'
  BY <1>1, <1>2 DEF StoreInv, Shape, Operations, Deletes, KeysOf, ValuesOf,
                    Fresh, Schema
<1> QED BY <1>3, <1>4, <1>5 DEF StoreInv

LEMMA AllUnchanged ==
  ASSUME ToolHistoryInv, UNCHANGED vars
  PROVE  ToolHistoryInv'
<1>1. /\ setup' = setup /\ home' = home /\ disk' = disk /\ lock' = lock
      /\ ready' = ready /\ queue' = queue /\ call' = call /\ faults' = faults
      /\ begun' = begun /\ invocation' = invocation /\ attempts' = attempts
      /\ ran' = ran /\ told' = told
  BY DEF vars, storeVars, toolVars
<1>2. StoreInv'
  BY <1>1, StoreUnchanged DEF ToolHistoryInv
<1>3. /\ driver' = driver /\ History' = History /\ Told' = Told
      /\ \A c \in Callers : SameFor(c)
  BY <1>1 DEF driver, History, Told, SameFor
<1>4. ToolTypes' /\ HistoryTellsTruth'
  BY <1>1, <1>3 DEF ToolHistoryInv, ToolInv, ToolTypes, HistoryTellsTruth,
                    EntriesAreTrue, SuccessIsRecorded, WorkIsRecorded
<1> QED BY <1>1, <1>2, <1>3, <1>4, SameKept DEF ToolHistoryInv, ToolInv

-----------------------------------------------------------------------------
(* The invariant holds *)

LEMMA ToolHistoryInit ==
  ASSUME Init
  PROVE  ToolHistoryInv
<1>1. StoreInv /\ setup \in Setups
  BY StoresInitInv DEF Init, StoresInit
<1>2. /\ begun = 0 /\ ran = {} /\ told = [what \in {"success", "error"} |-> {}]
      /\ \A c \in Callers : invocation[c] = "none" /\ attempts[c] = 0
      /\ invocation \in [Callers -> {"none"}] /\ attempts \in [Callers -> {0}]
  BY DEF Init
<1>3. setup.tasks \in Nat
  BY <1>1, StoresInUse
<1>4. ToolTypes
  BY <1>2, <1>3, ToolInvocationAssumption DEF ToolTypes
<1>5. History = <<>> /\ DOMAIN History = {} /\ Told = {}
  BY <1>2, EmptyIn DEF Init, StoresInit, History, InUse, Told
<1>6. \A c \in Callers : call[c].pc = "idle"
  BY <1>1, IdleIs DEF Init, StoresInit
<1>7. HistoryTellsTruth
  BY <1>2, <1>5 DEF HistoryTellsTruth, EntriesAreTrue, SuccessIsRecorded, WorkIsRecorded
<1>8. \A c \in Callers : Linked(c) /\ Current(c) /\ Done(c)
  BY <1>2, <1>5, <1>6 DEF Linked, Current, Done, Saves, Outcomes
<1> QED BY <1>1, <1>4, <1>7, <1>8 DEF ToolHistoryInv, ToolInv

\* A call is free, or at an end, when another request is made for it.
LEMMA RequestsAre ==
  ASSUME ToolHistoryInv, NEW c \in Callers
  PROVE  /\ requestCatalog(c) \/ listByRunId(c) => StoreInv' /\ ToolInv'
         /\ requestEnds(c) => StoreInv' /\ ToolInv'
<1>1. /\ StoreInv /\ ToolInv /\ setup \in Setups /\ Linked(c) /\ home[c] \in Processes
      /\ call \in [Callers -> CallRecords]
  BY CallIs, RecordStoresAssumption DEF ToolHistoryInv, ToolInv, StoreInv, StoreTypes
<1>2. /\ setup.store \in InUse /\ ToolHistory \in InUse /\ setup.store # ToolHistory
      /\ setup.tasks \in Nat
  BY <1>1, StoresInUse
<1>3. begun \in 0 .. setup.tasks
  BY <1>1 DEF ToolInv, ToolTypes
<1>4. ASSUME requestCatalog(c) PROVE StoreInv' /\ ToolInv'
  <2>1. PICK op \in Operations(setup.store), e \in Entries :
          Asks(c, setup.store, op, e, home[c])
    BY <1>4 DEF requestCatalog
  <2>2. /\ call[c].pc = "idle" /\ invocation[c] = "none"
        /\ begun' \in 0 .. setup.tasks /\ UNCHANGED <<invocation, attempts, ran, told>>
    BY <1>2, <1>3, <1>4 DEF requestCatalog, Free, TakesOn
  <2>3. /\ e \in CallIds \cup Entries \cup {NoKey} /\ e \in KeysOf(setup.store)
        /\ home[c] \in Outcomes \cup Processes \cup {NoKey}
        /\ home[c] \in ValuesOf(setup.store)
    BY <1>1, <1>2, <2>1 DEF KeysOf, ValuesOf
  <2>4. StoreInv'
    <3>1. PICK k, v : k = e /\ v = home[c]
      OBVIOUS
    <3>2. PICK s \in InUse : s = setup.store
      BY <1>2
    <3>3. Asks(c, s, op, k, v) /\ op \in Operations(s)
      BY <2>1, <3>1, <3>2
    <3> QED BY <1>1, <2>2, <2>3, <3>1, <3>2, <3>3, AsksKeeps
  <2>5. StoresRest /\ \A d \in Callers : d # c => call'[d] = call[d]
    BY <1>1, <2>1 DEF Asks, StoresRest
  <2>6. ~Saves(c)'
    BY <1>1, <1>2, <2>1 DEF Asks, Call, Saves
  <2> QED BY <2>2, <2>4, <2>5, <2>6, OtherRequestKeeps
<1>5. ASSUME listByRunId(c) PROVE StoreInv' /\ ToolInv'
  <2>1. Asks(c, ToolHistory, "list", NoKey, NoKey)
    BY <1>5 DEF listByRunId
  <2>2. /\ call[c].pc = "idle" /\ invocation[c] = "none"
        /\ begun' \in 0 .. setup.tasks /\ UNCHANGED <<invocation, attempts, ran, told>>
    BY <1>2, <1>3, <1>5 DEF listByRunId, Free, TakesOn
  <2>3. /\ "list" \in Operations(ToolHistory)
        /\ NoKey \in CallIds \cup Entries \cup {NoKey}
        /\ NoKey \in Outcomes \cup Processes \cup {NoKey}
    BY DEF Operations
  <2>4. StoreInv'
    BY <1>1, <1>2, <2>1, <2>2, <2>3, AsksKeeps
  <2>5. StoresRest /\ \A d \in Callers : d # c => call'[d] = call[d]
    BY <1>1, <2>1 DEF Asks, StoresRest
  <2>6. ~Saves(c)'
    BY <1>1, <2>1 DEF Asks, Call, Saves
  <2> QED BY <2>2, <2>4, <2>5, <2>6, OtherRequestKeeps
<1>6. ASSUME requestEnds(c) PROVE StoreInv' /\ ToolInv'
  <2>1. /\ Takes(c) /\ invocation[c] = "none"
        /\ begun' = begun /\ UNCHANGED <<invocation, attempts, ran, told>>
    BY <1>6 DEF requestEnds, toolVars
  <2>2. StoreInv'
    BY <1>1, <2>1, TakesKeeps
  <2>3. StoresRest /\ \A d \in Callers : d # c => call'[d] = call[d]
    BY <1>1, <2>1 DEF Takes, StoresRest
  <2>4. ~Saves(c)'
    BY <1>1, <2>1, IdleIs DEF Takes, Saves
  <2> QED BY <1>3, <2>1, <2>2, <2>3, <2>4, OtherRequestKeeps
<1> QED BY <1>4, <1>5, <1>6

\* An entry is asked to be saved for a call that is idle or has thrown.
LEMMA SavesKeep ==
  ASSUME ToolHistoryInv, NEW c \in Callers, NEW entry \in Outcomes,
         onInvocation(c, entry), call[c].pc \in {"idle", "threw"}, invocation[c] # "none"
  PROVE  StoreInv'
<1>1. /\ StoreInv /\ ToolInv /\ setup \in Setups /\ Linked(c)
  BY DEF ToolHistoryInv, ToolInv, StoreInv, StoreTypes
<1>2. callId(c) \in CallIds
  BY <1>1, ToolTypesHave, ToolInvocationAssumption DEF Linked
<1>3. /\ ToolHistory \in InUse /\ "save" \in Operations(ToolHistory)
  BY DEF InUse, Operations
<1>4. PICK k, v : k = callId(c) /\ v = entry
  OBVIOUS
<1>5. /\ k \in CallIds \cup Entries \cup {NoKey} /\ k \in KeysOf(ToolHistory)
      /\ v \in Outcomes \cup Processes \cup {NoKey} /\ v \in ValuesOf(ToolHistory)
  BY <1>2, <1>4 DEF KeysOf, ValuesOf
<1>6. Asks(c, ToolHistory, "save", k, v)
  BY <1>4 DEF onInvocation
<1> QED BY <1>1, <1>3, <1>5, <1>6, AsksKeeps

LEMMA WorksKeeps ==
  ASSUME ToolHistoryInv, NEW c \in Callers, Works(c)
  PROVE  ToolHistoryInv'
<1>1. StoreInv /\ Linked(c) /\ Current(c)
  BY DEF ToolHistoryInv, ToolInv
<1>2. CASE StoreStep(c) /\ UNCHANGED toolVars
  <2>1. Moves(c)
    BY <1>1, <1>2, StoreStepIs, AccessMoves
  <2> QED BY <1>1, <1>2, <2>1, MovesKeep, MovesKeepTools DEF ToolHistoryInv
<1>3. CASE notifyBlocked(c)
  <2>1. /\ onInvocation(c, "blocked") /\ invocation[c] = "gate" /\ call[c].pc = "idle"
        /\ UNCHANGED <<begun, attempts, told>> /\ ran' = ran /\ "blocked" \in Outcomes
    BY <1>3 DEF notifyBlocked, createBlockedToolHistoryEntry, Outcomes
  <2> QED BY <2>1, SavesKeep, OnInvocationKeeps DEF ToolHistoryInv
<1>4. CASE notifyStarted(c)
  <2>1. /\ setup' = setup /\ home' = home /\ disk' = disk /\ lock' = lock
        /\ ready' = ready /\ queue' = queue /\ call' = call /\ faults' = faults
    BY <1>4 DEF notifyStarted, storeVars
  <2>2. StoreInv'
    BY <1>1, <2>1, StoreUnchanged
  <2> QED BY <1>4, <2>2, StartedKeeps DEF ToolHistoryInv
<1>5. CASE toolReturns(c)
  <2>1. /\ onInvocation(c, "succeeded") /\ invocation[c] = "started"
        /\ UNCHANGED <<begun, attempts, told>> /\ ran' = ran \cup {callId(c)}
        /\ "succeeded" \in Outcomes /\ call[c].pc = "idle"
    BY <1>1, <1>5 DEF toolReturns, createSucceededToolHistoryEntry, Outcomes, Linked
  <2> QED BY <2>1, SavesKeep, OnInvocationKeeps DEF ToolHistoryInv
<1>6. CASE toolThrows(c)
  <2>1. /\ onInvocation(c, "failed") /\ invocation[c] = "started"
        /\ UNCHANGED <<begun, attempts, told>> /\ ran' \in {ran, ran \cup {callId(c)}}
        /\ "failed" \in Outcomes /\ call[c].pc = "idle"
    BY <1>1, <1>6 DEF toolThrows, createFailedToolHistoryEntry, Outcomes, Linked
  <2> QED BY <2>1, SavesKeep, OnInvocationKeeps DEF ToolHistoryInv
<1>7. CASE notified(c)
  <2>1. Takes(c) /\ call[c].pc = "returned"
    BY <1>7 DEF notified
  <2> QED BY <1>1, <1>7, <2>1, TakesKeeps, TellsKeeps DEF ToolHistoryInv
<1>8. CASE saveFails(c) /\ invocation[c] # "succeeded"
  <2>1. Takes(c)
    BY <1>8 DEF saveFails
  <2> QED BY <1>1, <1>8, <2>1, TakesKeeps, TellsKeeps DEF ToolHistoryInv
<1>9. CASE saveFails(c) /\ invocation[c] = "succeeded"
  <2>1. /\ onInvocation(c, "failed") /\ call[c].pc = "threw"
        /\ UNCHANGED <<begun, attempts, told>> /\ ran' = ran /\ "failed" \in Outcomes
    BY <1>9 DEF saveFails, createFailedToolHistoryEntry, Outcomes
  <2> QED BY <1>9, <2>1, SavesKeep, OnInvocationKeeps DEF ToolHistoryInv
<1>10. CASE requestEnds(c)
  BY <1>10, RequestsAre DEF ToolHistoryInv
<1> QED BY <1>2, <1>3, <1>4, <1>5, <1>6, <1>7, <1>8, <1>9, <1>10 DEF Works

LEMMA ToolHistoryNext ==
  ASSUME ToolHistoryInv, [Next]_vars
  PROVE  ToolHistoryInv'
<1>1. CASE UNCHANGED vars
  BY <1>1, AllUnchanged
<1>2. ASSUME NEW c \in Callers, invoke(c) \/ refuseRequest(c) PROVE ToolHistoryInv'
  <2>1. /\ setup' = setup /\ home' = home /\ disk' = disk /\ lock' = lock
        /\ ready' = ready /\ queue' = queue /\ call' = call /\ faults' = faults
    BY <1>2 DEF invoke, refuseRequest, storeVars
  <2>2. StoreInv'
    BY <2>1, StoreUnchanged DEF ToolHistoryInv
  <2> QED BY <1>2, <2>2, BeginsKeeps DEF ToolHistoryInv
<1>3. ASSUME NEW c \in Callers, requestCatalog(c) \/ listByRunId(c) PROVE ToolHistoryInv'
  BY <1>3, RequestsAre DEF ToolHistoryInv
<1>4. ASSUME NEW p \in Processes, processDies(p) PROVE ToolHistoryInv'
  <2>1. StoreInv /\ Dies(p)
    BY <1>4 DEF processDies, ToolHistoryInv
  <2> QED BY <1>4, <2>1, DiesKeeps, ProcessDiesKeeps DEF ToolHistoryInv
<1> QED BY <1>1, <1>2, <1>3, <1>4, WorksKeeps DEF Next

\* In every behaviour the locks, migrations, handles and calls of the stores and
\* the invocations of the tools stand to each other as StoreInv and ToolInv say:
\* a call holds the lock its place in the code needs, its image of the file or
\* database is what is stored, and what a caller was told is in the history.
THEOREM ToolHistoryInvariant == Spec => []ToolHistoryInv
<1>1. Init => ToolHistoryInv
  BY ToolHistoryInit
<1>2. ToolHistoryInv /\ [Next]_vars => ToolHistoryInv'
  BY ToolHistoryNext
<1> QED BY <1>1, <1>2, PTL DEF Spec

\* The handles migrate at any time, and none works without its table.
THEOREM SchemaIsReady == Spec => []SchemaReady
<1>1. ASSUME ToolHistoryInv PROVE SchemaReady
  <2>1. StoreInv
    BY <1>1 DEF ToolHistoryInv
  <2>2. ASSUME NEW c \in Callers, driver \in {"postgres", "sqlite"},
               call[c].pc \in {"task", "delete", "commit"}
        PROVE  call[c].store \in TablesOf(IF driver = "sqlite" THEN call[c].image.applied
                                          ELSE disk.applied)
    <3>1. /\ disk.applied = AllVersions
          /\ driver = "sqlite" => call[c].image.applied = AllVersions
      BY <2>1, <2>2 DEF StoreInv, Schema
    <3>2. call[c].store \in Stores
      BY <2>1, CallIs, StoresInUse
    <3> QED BY <3>1, <3>2, TablesOfAll
  <2>3. RejectedByTheOther
    BY <2>1 DEF StoreInv, SchemaInv
  <2> QED BY <2>2, <2>3 DEF SchemaReady, TableExists
<1> QED BY <1>1, ToolHistoryInvariant, PTL

\* The history tells of a call what happened, and leaves nothing out that a
\* result was handed out for.
THEOREM HistoryIsTrue == Spec => []HistoryTellsTruth
<1>1. ToolHistoryInv => HistoryTellsTruth
  BY DEF ToolHistoryInv, ToolInv
<1> QED BY <1>1, ToolHistoryInvariant, PTL

\* The types, and: a lock file that nobody holds was left by a process that died.
THEOREM ToolTypesHold == Spec => []TypeOK
<1>1. ASSUME ToolHistoryInv PROVE TypeOK
  <2>1. StoreInv /\ ToolInv /\ StoreTypes
    BY <1>1 DEF ToolHistoryInv, StoreInv
  <2>2. /\ setup \in Setups /\ home \in Homes /\ disk \in Database
        /\ \A p \in Processes, s \in InUse :
             /\ ready[p][s] \in {"none", "pending", "ready", "rejected"}
             /\ queue[p][s] \in Seq({c \in Callers : home[c] = p})
        /\ faults \in 0 .. MaxFaults
    BY <2>1 DEF StoreTypes, ReadyStates
  <2>3. disk.applied \subseteq AllVersions
    BY <2>2, DatabaseHas
  <2>4. /\ DOMAIN History \subseteq CallIds
        /\ \A k \in DOMAIN History : History[k] \in Outcomes
    BY <2>1, HistoryIs
  <2>5. DOMAIN disk.rows[setup.store] \subseteq Entries
    <3>1. setup.store \in InUse /\ setup.store # ToolHistory
      BY <2>2, StoresInUse
    <3>2. disk.rows[setup.store] \in Tables(setup.store)
      BY <2>2, <3>1, DatabaseHas
    <3>3. KeysOf(setup.store) = Entries
      BY <3>1 DEF KeysOf
    <3> QED BY <3>2, <3>3, TableIs
  <2>6. Drained /\ faults = 0 => lock = {}
    <3>1. Drained => \A c \in Callers : ~Holds(c)
      BY DEF Drained, Free, Holds, HoldsLock
    <3> QED BY <2>1, <3>1 DEF StoreInv, LockInv
  <2> QED BY <2>1, <2>2, <2>3, <2>4, <2>5, <2>6 DEF TypeOK, ToolInv, ToolTypes
<1> QED BY <1>1, ToolHistoryInvariant, PTL

-----------------------------------------------------------------------------
(* The stores implement AtomicRecords *)

asked == [c \in Callers |-> Asked(c)]

LEMMA AbstractRows ==
  \A r, k, v : /\ Abstract!Holding(r, k, v) = Holding(r, k, v)
               /\ Abstract!Without(r, k) = Without(r, k)
BY DEF Abstract!Holding, Abstract!Without, Holding, Without

\* What a step of c is to the abstract stores, where it does not disturb the
\* others.
LEMMA AskedIs ==
  ASSUME NEW c \in Callers, driver' = driver,
         \A d \in Callers : d # c => call'[d] = call[d]
  PROVE  /\ \A d \in Callers : asked[d] = Asked(d) /\ asked'[d] = Asked(d)'
         /\ \A d \in Callers : d # c => asked'[d] = asked[d]
         /\ Asked(c).state = StateOf(call[c]) /\ Asked(c)'.state = StateOf(call'[c])
         /\ SameRequest(call'[c], call[c]) =>
              asked' = [asked EXCEPT ![c].state = StateOf(call'[c])]
<1>1. \A d \in Callers : asked[d] = Asked(d) /\ asked'[d] = Asked(d)'
  BY DEF asked
<1>2. \A d \in Callers : d # c => Asked(d)' = Asked(d)
  BY DEF Asked, FoundNothing, driver
<1>3. Asked(c).state = StateOf(call[c]) /\ Asked(c)'.state = StateOf(call'[c])
  BY DEF Asked, FoundNothing, StateOf, driver
<1>4. SameRequest(call'[c], call[c]) =>
        Asked(c)' = [Asked(c) EXCEPT !.state = StateOf(call'[c])]
  BY <1>3 DEF Asked, SameRequest
<1>5. SameRequest(call'[c], call[c]) =>
        asked' = [asked EXCEPT ![c].state = StateOf(call'[c])]
  BY <1>1, <1>2, <1>4 DEF asked
<1> QED BY <1>1, <1>2, <1>3, <1>5

LEMMA MovesImplement ==
  ASSUME StoreInv, NEW c \in Callers, Moves(c)
  PROVE  \/ disk'.rows = disk.rows /\ asked' = asked
         \/ Abstract!Applies(c)
         \/ Abstract!Answers(c)
<1>1. /\ driver' = driver /\ \A d \in Callers : d # c => call'[d] = call[d]
      /\ SameRequest(call'[c], call[c]) /\ StateMoves(c)
      /\ disk \in Database /\ call[c].store \in InUse
      /\ call[c].op \in {"get", "list", "save", "delete"}
  BY OneMoves, CallIs DEF Moves
<1> DEFINE from == StateOf(call[c])
           to == StateOf(call'[c])
<1>2. /\ asked[c] = Asked(c) /\ asked[c].state = from
      /\ asked' = [asked EXCEPT ![c].state = to]
      /\ asked[c].op = call[c].op /\ asked[c].store = call[c].store
      /\ asked[c].key = call[c].key /\ asked[c].val = call[c].val
  <2>1. /\ asked[c] = Asked(c) /\ Asked(c).state = from
        /\ asked' = [asked EXCEPT ![c].state = to]
    BY <1>1, AskedIs
  <2>2. /\ Asked(c).op = call[c].op /\ Asked(c).store = call[c].store
        /\ Asked(c).key = call[c].key /\ Asked(c).val = call[c].val
    BY DEF Asked
  <2> QED BY <2>1, <2>2
<1>3. ASSUME disk'.rows = disk.rows, to = from
      PROVE  disk'.rows = disk.rows /\ asked' = asked
  <2>1. asked = [d \in Callers |-> asked[d]] /\ asked[c] = [asked[c] EXCEPT !.state = from]
    BY <1>2 DEF asked, Asked
  <2> HIDE DEF from, to
  <2> QED BY <1>2, <1>3, <2>1
<1>4. ASSUME disk'.rows = disk.rows,
             \/ from = "applied" /\ to \in {"returned", "threw"}
             \/ from = "pending" /\ to = "threw"
      PROVE  Abstract!Answers(c)
  BY <1>2, <1>4 DEF Abstract!Answers, Abstract!Goes, asked
<1>5. ASSUME from = "pending", to \in {"applied", "returned", "threw"},
             disk' = [disk EXCEPT !.rows[call[c].store] = Effected(c)]
      PROVE  Abstract!Applies(c)
  <2>1. disk'.rows = [disk.rows EXCEPT ![call[c].store] = Effected(c)]
    BY <1>1, <1>5, EffectedIn, StoredIn
  <2>2. Effected(c) = Rows(c) => disk'.rows = disk.rows
    <3>1. disk.rows = [s \in InUse |-> disk.rows[s]]
      BY <1>1, DatabaseHas
    <3> QED BY <1>1, <2>1, <3>1 DEF Rows
  <2>3. Abstract!Effect(asked[c])
    <3>1. CASE call[c].op = "save"
      BY <1>2, <2>1, <3>1, AbstractRows DEF Abstract!Effect, Effected, Rows
    <3>2. CASE call[c].op = "delete"
      BY <1>2, <2>1, <3>2, AbstractRows DEF Abstract!Effect, Effected, Rows
    <3>3. CASE call[c].op \in {"get", "list"}
      BY <1>2, <2>2, <3>3 DEF Abstract!Effect, Effected
    <3> QED BY <1>1, <3>1, <3>2, <3>3
  <2>4. Abstract!Goes(c, "pending", to)
    BY <1>2, <1>5 DEF Abstract!Goes, asked
  <2> QED BY <1>5, <2>3, <2>4 DEF Abstract!Applies, asked
<1> QED BY <1>1, <1>3, <1>4, <1>5 DEF StateMoves

\* A request is asked, or its answer is taken.
LEMMA RequestImplements ==
  ASSUME ToolHistoryInv, NEW c \in Callers, StoresRest,
         call[c].pc \in {"idle", "returned", "threw"},
         NEW t, call' = [call EXCEPT ![c] = t],
         \/ t.pc = "called"
         \/ t.pc = "idle" /\ call[c].pc # "idle"
  PROVE  Abstract!Begins(c) \/ Abstract!Ends(c)
<1>1. /\ call \in [Callers -> CallRecords] /\ driver' = driver
      /\ disk'.rows = disk.rows
  BY CallIs DEF ToolHistoryInv, StoresRest, driver
<1>2. call'[c] = t /\ \A d \in Callers : d # c => call'[d] = call[d]
  BY <1>1
<1>3. /\ asked[c].state = StateOf(call[c]) /\ asked'[c].state = StateOf(t)
      /\ \A d \in Callers \ {c} : asked'[d] = asked[d]
  BY <1>1, <1>2, AskedIs
<1>4. StateOf(call[c]) = call[c].pc
  BY DEF StateOf
<1>5. \/ StateOf(t) = "pending"
      \/ StateOf(t) = "idle" /\ call[c].pc # "idle"
  BY DEF StateOf
<1> QED BY <1>1, <1>3, <1>4, <1>5 DEF Abstract!Begins, Abstract!Ends, asked

LEMMA AsksImplement ==
  ASSUME ToolHistoryInv, NEW c \in Callers, call[c].pc \in {"idle", "returned", "threw"}
  PROVE  /\ \A s, op, k, v :
              Asks(c, s, op, k, v) => Abstract!Begins(c) \/ Abstract!Ends(c)
         /\ Takes(c) => Abstract!Begins(c) \/ Abstract!Ends(c)
<1>1. ASSUME NEW s, NEW op, NEW k, NEW v, Asks(c, s, op, k, v)
      PROVE  Abstract!Begins(c) \/ Abstract!Ends(c)
  <2>1. PICK t : t = Call("called", s, op, k, v)
    OBVIOUS
  <2>2. StoresRest /\ call' = [call EXCEPT ![c] = t] /\ t.pc = "called"
    BY <1>1, <2>1 DEF Asks, StoresRest, Call
  <2> QED BY <2>2, RequestImplements
<1>2. ASSUME Takes(c) PROVE Abstract!Begins(c) \/ Abstract!Ends(c)
  <2>1. PICK t : t = Idle
    OBVIOUS
  <2>2. t.pc = "idle" /\ StoresRest /\ call' = [call EXCEPT ![c] = t]
    BY <1>2, <2>1 DEF Takes, StoresRest, Idle, Call
  <2> QED BY <1>2, <2>2, RequestImplements DEF Takes
<1> QED BY <1>1, <1>2

LEMMA DiesImplements ==
  ASSUME ToolHistoryInv, NEW p \in Processes, processDies(p)
  PROVE  Abstract!Dies
<1>1. Dies(p) /\ disk \in Database /\ setup \in Setups
  BY DEF processDies, ToolHistoryInv, StoreInv, StoreTypes
<1>2. driver' = driver
  BY <1>1 DEF Dies, Quietly, driver
<1>3. ASSUME NEW c \in Callers
      PROVE  asked'[c] = asked[c] \/ asked'[c].state = "idle"
  <2>1. asked'[c] = Asked(c)' /\ asked[c] = Asked(c)
    BY DEF asked
  <2>2. CASE me(c) = p
    <3>1. call'[c].pc = "idle"
      BY <1>1, <2>2, IdleIs DEF Dies
    <3> QED BY <2>1, <3>1 DEF Asked, FoundNothing
  <2>3. CASE me(c) # p
    <3>1. call'[c] = call[c]
      BY <1>1, <2>3 DEF Dies
    <3> QED BY <1>2, <2>1, <3>1 DEF Asked, FoundNothing
  <2> QED BY <2>2, <2>3
<1>4. CASE driver = "memory"
  <2>1. disk'.rows = [s \in InUse |-> <<>>]
    BY <1>1, <1>4 DEF Dies, Database
  <2>2. DOMAIN disk.rows = InUse
    BY <1>1, DatabaseHas
  <2> QED BY <1>3, <1>4, <2>1, <2>2 DEF Abstract!Dies, asked
<1>5. CASE driver # "memory"
  BY <1>1, <1>3, <1>5 DEF Dies, Abstract!Dies, asked
<1> QED BY <1>4, <1>5

\* Every step of the program is a step of the abstract stores, or none.
LEMMA StepImplements ==
  ASSUME ToolHistoryInv, [Next]_vars
  PROVE  [Abstract!Next]_<<disk.rows, asked, driver = "memory">>
<1>1. ASSUME call' = call, disk' = disk, setup' = setup
      PROVE  UNCHANGED <<disk.rows, asked, driver = "memory">>
  <2>1. driver' = driver
    BY <1>1 DEF driver
  <2>2. asked' = asked
    BY <1>1, <2>1 DEF asked, Asked, FoundNothing
  <2> QED BY <1>1, <2>1, <2>2
<1>2. ASSUME NEW c \in Callers, setup' = setup,
             Abstract!Begins(c) \/ Abstract!Applies(c) \/ Abstract!Answers(c)
               \/ Abstract!Ends(c)
      PROVE  Abstract!Next
  BY <1>2 DEF Abstract!Next, driver
<1>3. CASE UNCHANGED vars
  BY <1>1, <1>3 DEF vars, storeVars
<1>4. ASSUME NEW c \in Callers, StoreStep(c)
      PROVE  [Abstract!Next]_<<disk.rows, asked, driver = "memory">>
  <2>1. StoreInv /\ Moves(c)
    BY <1>4, StoreStepIs, AccessMoves DEF ToolHistoryInv
  <2>2. setup' = setup
    BY <2>1 DEF Moves
  <2>3. driver' = driver
    BY <2>2 DEF driver
  <2> QED BY <1>2, <2>1, <2>2, <2>3, MovesImplement
<1>5. ASSUME NEW c \in Callers,
             \/ invoke(c) \/ refuseRequest(c) \/ notifyStarted(c)
      PROVE  [Abstract!Next]_<<disk.rows, asked, driver = "memory">>
  BY <1>1, <1>5 DEF invoke, refuseRequest, notifyStarted, storeVars
<1>6. ASSUME NEW c \in Callers,
             \/ requestCatalog(c) \/ listByRunId(c) \/ requestEnds(c)
             \/ notifyBlocked(c) \/ toolReturns(c) \/ toolThrows(c)
             \/ notified(c) \/ saveFails(c)
      PROVE  Abstract!Next
  <2>1. /\ call[c].pc \in {"idle", "returned", "threw"}
        /\ Takes(c) \/ \E s, op, k, v : Asks(c, s, op, k, v)
    <3>1. Linked(c)
      BY DEF ToolHistoryInv, ToolInv
    <3>2. call[c].pc \in {"idle", "returned", "threw"}
      BY <1>6, <3>1 DEF requestCatalog, listByRunId, requestEnds, notifyBlocked,
         toolReturns, toolThrows, notified, saveFails, Free, Takes, Linked
    <3>3. Takes(c) \/ \E s, op, k, v : Asks(c, s, op, k, v)
      BY <1>6 DEF requestCatalog, listByRunId, requestEnds, notifyBlocked,
         toolReturns, toolThrows, notified, saveFails, onInvocation
    <3> QED BY <3>2, <3>3
  <2>2. Abstract!Begins(c) \/ Abstract!Ends(c)
    BY <2>1, AsksImplement
  <2>3. setup' = setup
    BY <2>1 DEF Takes, Asks
  <2> QED BY <1>2, <2>2, <2>3
<1>7. ASSUME NEW p \in Processes, processDies(p) PROVE Abstract!Next
  <2>1. Abstract!Dies /\ setup' = setup
    BY <1>7, DiesImplements DEF processDies, Dies, Quietly
  <2> QED BY <2>1 DEF Abstract!Next, driver
<1> QED BY <1>3, <1>4, <1>5, <1>6, <1>7 DEF Next, Works

\* Every operation of a store is atomic, over files and databases that many
\* handles read and write whole.
THEOREM StoresImplementAtomicRecords == Spec => StoresAreAtomic
<1>1. ASSUME Init PROVE Abstract!Init
  <2>1. \A c \in Callers : call[c].pc = "idle"
    BY <1>1, IdleIs DEF Init, StoresInit
  <2> QED BY <2>1 DEF Abstract!Init, Asked, FoundNothing
<1>2. ToolHistoryInv /\ [Next]_vars
        => [Abstract!Next]_<<disk.rows, [c \in Callers |-> Asked(c)], driver = "memory">>
  BY StepImplements DEF asked
<1> QED BY <1>1, <1>2, ToolHistoryInvariant, PTL
        DEF Spec, StoresAreAtomic, Abstract!Spec

=============================================================================
