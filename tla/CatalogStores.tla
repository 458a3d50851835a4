---------------------------- MODULE CatalogStores ----------------------------
(***************************************************************************)
(* The fifteen store modules of packages/persistence, one after the other. *)
(* Each is a file of its own that repeats the access protocol of module    *)
(* RecordStores over its own table and file: what differs is the table and *)
(* whether there is a delete, a get or only a list.  A store is the set of *)
(* steps its object can make for a call c; ...Snapshots and ...Clients are *)
(* its own copies of the access to its file and to the databases.          *)
(***************************************************************************)
EXTENDS RecordStores

Of(c, s) == call[c].store = s

createInMemorySavedAuditViewStore(c) ==
  /\ Of(c, "saved_views")
  /\ memoryGet(c) \/ memoryList(c) \/ memorySave(c)
SavedAuditViewSnapshots(c) == Of(c, "saved_views") /\ SnapshotAccess(c)
SavedAuditViewClients(c)   == Of(c, "saved_views") /\ ClientAccess(c)
createFileSavedAuditViewStore(c) ==
  \/ /\ Of(c, "saved_views")
     /\ \/ enqueueAccess(c, "called")
        \/ fileGet(c) \/ fileList(c) \/ fileSave(c)
  \/ SavedAuditViewSnapshots(c)
createDatabaseSavedAuditViewStore(c) ==
  /\ Of(c, "saved_views")
  /\ getRow(c) \/ listRows(c) \/ saveRow(c)
createPostgresSavedAuditViewStore(c) ==
  \/ Of(c, "saved_views") /\ PostgresAccess(c)
  \/ createDatabaseSavedAuditViewStore(c) \/ SavedAuditViewClients(c)
createSqliteSavedAuditViewStore(c) ==
  \/ Of(c, "saved_views") /\ SqliteAccess(c)
  \/ createDatabaseSavedAuditViewStore(c) \/ SavedAuditViewClients(c)
createConfiguredSavedAuditViewStore(c) ==
  \/ driver = "file" /\ createFileSavedAuditViewStore(c)
  \/ driver = "postgres" /\ createPostgresSavedAuditViewStore(c)
  \/ driver = "sqlite" /\ createSqliteSavedAuditViewStore(c)

createInMemoryAuditViewCatalogStore(c) ==
  /\ Of(c, "catalog_entries")
  /\ memoryGet(c) \/ memoryList(c) \/ memorySave(c)
AuditViewCatalogSnapshots(c) == Of(c, "catalog_entries") /\ SnapshotAccess(c)
AuditViewCatalogClients(c)   == Of(c, "catalog_entries") /\ ClientAccess(c)
createFileAuditViewCatalogStore(c) ==
  \/ /\ Of(c, "catalog_entries")
     /\ \/ enqueueAccess(c, "called")
        \/ fileGet(c) \/ fileList(c) \/ fileSave(c)
  \/ AuditViewCatalogSnapshots(c)
createDatabaseAuditViewCatalogStore(c) ==
  /\ Of(c, "catalog_entries")
  /\ getRow(c) \/ listRows(c) \/ saveRow(c)
createPostgresAuditViewCatalogStore(c) ==
  \/ Of(c, "catalog_entries") /\ PostgresAccess(c)
  \/ createDatabaseAuditViewCatalogStore(c) \/ AuditViewCatalogClients(c)
createSqliteAuditViewCatalogStore(c) ==
  \/ Of(c, "catalog_entries") /\ SqliteAccess(c)
  \/ createDatabaseAuditViewCatalogStore(c) \/ AuditViewCatalogClients(c)
createConfiguredAuditViewCatalogStore(c) ==
  \/ driver = "file" /\ createFileAuditViewCatalogStore(c)
  \/ driver = "postgres" /\ createPostgresAuditViewCatalogStore(c)
  \/ driver = "sqlite" /\ createSqliteAuditViewCatalogStore(c)

createInMemoryAuditCatalogVisibilityStore(c) ==
  /\ Of(c, "visibility")
  /\ memoryGet(c) \/ memoryList(c) \/ memorySave(c)
AuditCatalogVisibilitySnapshots(c) == Of(c, "visibility") /\ SnapshotAccess(c)
AuditCatalogVisibilityClients(c)   == Of(c, "visibility") /\ ClientAccess(c)
createFileAuditCatalogVisibilityStore(c) ==
  \/ /\ Of(c, "visibility")
     /\ \/ enqueueAccess(c, "called")
        \/ fileGet(c) \/ fileList(c) \/ fileSave(c)
  \/ AuditCatalogVisibilitySnapshots(c)
createDatabaseAuditCatalogVisibilityStore(c) ==
  /\ Of(c, "visibility")
  /\ getRow(c) \/ listRows(c) \/ saveRow(c)
createPostgresAuditCatalogVisibilityStore(c) ==
  \/ Of(c, "visibility") /\ PostgresAccess(c)
  \/ createDatabaseAuditCatalogVisibilityStore(c) \/ AuditCatalogVisibilityClients(c)
createSqliteAuditCatalogVisibilityStore(c) ==
  \/ Of(c, "visibility") /\ SqliteAccess(c)
  \/ createDatabaseAuditCatalogVisibilityStore(c) \/ AuditCatalogVisibilityClients(c)
createConfiguredAuditCatalogVisibilityStore(c) ==
  \/ driver = "file" /\ createFileAuditCatalogVisibilityStore(c)
  \/ driver = "postgres" /\ createPostgresAuditCatalogVisibilityStore(c)
  \/ driver = "sqlite" /\ createSqliteAuditCatalogVisibilityStore(c)

createInMemoryAuditCatalogReviewSignalStore(c) ==
  /\ Of(c, "review_signals")
  /\ memoryDelete(c) \/ memoryGet(c) \/ memoryList(c) \/ memorySave(c)
AuditCatalogReviewSignalSnapshots(c) == Of(c, "review_signals") /\ SnapshotAccess(c)
AuditCatalogReviewSignalClients(c)   == Of(c, "review_signals") /\ ClientAccess(c)
createFileAuditCatalogReviewSignalStore(c) ==
  \/ /\ Of(c, "review_signals")
     /\ \/ enqueueAccess(c, "called")
        \/ fileDelete(c) \/ fileGet(c) \/ fileList(c) \/ fileSave(c)
  \/ AuditCatalogReviewSignalSnapshots(c)
createDatabaseAuditCatalogReviewSignalStore(c) ==
  /\ Of(c, "review_signals")
  /\ deleteRow(c) \/ getRow(c) \/ listRows(c) \/ saveRow(c)
createPostgresAuditCatalogReviewSignalStore(c) ==
  \/ Of(c, "review_signals") /\ PostgresAccess(c)
  \/ createDatabaseAuditCatalogReviewSignalStore(c) \/ AuditCatalogReviewSignalClients(c)
createSqliteAuditCatalogReviewSignalStore(c) ==
  \/ Of(c, "review_signals") /\ SqliteAccess(c)
  \/ createDatabaseAuditCatalogReviewSignalStore(c) \/ AuditCatalogReviewSignalClients(c)
createConfiguredAuditCatalogReviewSignalStore(c) ==
  \/ driver = "file" /\ createFileAuditCatalogReviewSignalStore(c)
  \/ driver = "postgres" /\ createPostgresAuditCatalogReviewSignalStore(c)
  \/ driver = "sqlite" /\ createSqliteAuditCatalogReviewSignalStore(c)

createInMemoryAuditCatalogReviewAssignmentStore(c) ==
  /\ Of(c, "review_assignments")
  /\ memoryDelete(c) \/ memoryGet(c) \/ memoryList(c) \/ memorySave(c)
AuditCatalogReviewAssignmentSnapshots(c) == Of(c, "review_assignments") /\ SnapshotAccess(c)
AuditCatalogReviewAssignmentClients(c)   == Of(c, "review_assignments") /\ ClientAccess(c)
createFileAuditCatalogReviewAssignmentStore(c) ==
  \/ /\ Of(c, "review_assignments")
     /\ \/ enqueueAccess(c, "called")
        \/ fileDelete(c) \/ fileGet(c) \/ fileList(c) \/ fileSave(c)
  \/ AuditCatalogReviewAssignmentSnapshots(c)
createDatabaseAuditCatalogReviewAssignmentStore(c) ==
  /\ Of(c, "review_assignments")
  /\ deleteRow(c) \/ getRow(c) \/ listRows(c) \/ saveRow(c)
createPostgresAuditCatalogReviewAssignmentStore(c) ==
  \/ Of(c, "review_assignments") /\ PostgresAccess(c)
  \/ createDatabaseAuditCatalogReviewAssignmentStore(c) \/ AuditCatalogReviewAssignmentClients(c)
createSqliteAuditCatalogReviewAssignmentStore(c) ==
  \/ Of(c, "review_assignments") /\ SqliteAccess(c)
  \/ createDatabaseAuditCatalogReviewAssignmentStore(c) \/ AuditCatalogReviewAssignmentClients(c)
createConfiguredAuditCatalogReviewAssignmentStore(c) ==
  \/ driver = "file" /\ createFileAuditCatalogReviewAssignmentStore(c)
  \/ driver = "postgres" /\ createPostgresAuditCatalogReviewAssignmentStore(c)
  \/ driver = "sqlite" /\ createSqliteAuditCatalogReviewAssignmentStore(c)

createInMemoryAuditCatalogAssignmentChecklistStore(c) ==
  /\ Of(c, "checklists")
  /\ memoryDelete(c) \/ memoryGet(c) \/ memoryList(c) \/ memorySave(c)
AuditCatalogAssignmentChecklistSnapshots(c) == Of(c, "checklists") /\ SnapshotAccess(c)
AuditCatalogAssignmentChecklistClients(c)   == Of(c, "checklists") /\ ClientAccess(c)
createFileAuditCatalogAssignmentChecklistStore(c) ==
  \/ /\ Of(c, "checklists")
     /\ \/ enqueueAccess(c, "called")
        \/ fileDelete(c) \/ fileGet(c) \/ fileList(c) \/ fileSave(c)
  \/ AuditCatalogAssignmentChecklistSnapshots(c)
createDatabaseAuditCatalogAssignmentChecklistStore(c) ==
  /\ Of(c, "checklists")
  /\ deleteRow(c) \/ getRow(c) \/ listRows(c) \/ saveRow(c)
createPostgresAuditCatalogAssignmentChecklistStore(c) ==
  \/ Of(c, "checklists") /\ PostgresAccess(c)
  \/ createDatabaseAuditCatalogAssignmentChecklistStore(c) \/ AuditCatalogAssignmentChecklistClients(c)
createSqliteAuditCatalogAssignmentChecklistStore(c) ==
  \/ Of(c, "checklists") /\ SqliteAccess(c)
  \/ createDatabaseAuditCatalogAssignmentChecklistStore(c) \/ AuditCatalogAssignmentChecklistClients(c)
createConfiguredAuditCatalogAssignmentChecklistStore(c) ==
  \/ driver = "file" /\ createFileAuditCatalogAssignmentChecklistStore(c)
  \/ driver = "postgres" /\ createPostgresAuditCatalogAssignmentChecklistStore(c)
  \/ driver = "sqlite" /\ createSqliteAuditCatalogAssignmentChecklistStore(c)

createInMemoryAuditCatalogChecklistItemProgressStore(c) ==
  /\ Of(c, "progress")
  /\ memoryDelete(c) \/ memoryGet(c) \/ memoryList(c) \/ memorySave(c)
AuditCatalogChecklistItemProgressSnapshots(c) == Of(c, "progress") /\ SnapshotAccess(c)
AuditCatalogChecklistItemProgressClients(c)   == Of(c, "progress") /\ ClientAccess(c)
createFileAuditCatalogChecklistItemProgressStore(c) ==
  \/ /\ Of(c, "progress")
     /\ \/ enqueueAccess(c, "called")
        \/ fileDelete(c) \/ fileGet(c) \/ fileList(c) \/ fileSave(c)
  \/ AuditCatalogChecklistItemProgressSnapshots(c)
createDatabaseAuditCatalogChecklistItemProgressStore(c) ==
  /\ Of(c, "progress")
  /\ deleteRow(c) \/ getRow(c) \/ listRows(c) \/ saveRow(c)
createPostgresAuditCatalogChecklistItemProgressStore(c) ==
  \/ Of(c, "progress") /\ PostgresAccess(c)
  \/ createDatabaseAuditCatalogChecklistItemProgressStore(c) \/ AuditCatalogChecklistItemProgressClients(c)
createSqliteAuditCatalogChecklistItemProgressStore(c) ==
  \/ Of(c, "progress") /\ SqliteAccess(c)
  \/ createDatabaseAuditCatalogChecklistItemProgressStore(c) \/ AuditCatalogChecklistItemProgressClients(c)
createConfiguredAuditCatalogChecklistItemProgressStore(c) ==
  \/ driver = "file" /\ createFileAuditCatalogChecklistItemProgressStore(c)
  \/ driver = "postgres" /\ createPostgresAuditCatalogChecklistItemProgressStore(c)
  \/ driver = "sqlite" /\ createSqliteAuditCatalogChecklistItemProgressStore(c)

createInMemoryAuditCatalogChecklistItemBlockerStore(c) ==
  /\ Of(c, "blockers")
  /\ memoryDelete(c) \/ memoryGet(c) \/ memoryList(c) \/ memorySave(c)
AuditCatalogChecklistItemBlockerSnapshots(c) == Of(c, "blockers") /\ SnapshotAccess(c)
AuditCatalogChecklistItemBlockerClients(c)   == Of(c, "blockers") /\ ClientAccess(c)
createFileAuditCatalogChecklistItemBlockerStore(c) ==
  \/ /\ Of(c, "blockers")
     /\ \/ enqueueAccess(c, "called")
        \/ fileDelete(c) \/ fileGet(c) \/ fileList(c) \/ fileSave(c)
  \/ AuditCatalogChecklistItemBlockerSnapshots(c)
createDatabaseAuditCatalogChecklistItemBlockerStore(c) ==
  /\ Of(c, "blockers")
  /\ deleteRow(c) \/ getRow(c) \/ listRows(c) \/ saveRow(c)
createPostgresAuditCatalogChecklistItemBlockerStore(c) ==
  \/ Of(c, "blockers") /\ PostgresAccess(c)
  \/ createDatabaseAuditCatalogChecklistItemBlockerStore(c) \/ AuditCatalogChecklistItemBlockerClients(c)
createSqliteAuditCatalogChecklistItemBlockerStore(c) ==
  \/ Of(c, "blockers") /\ SqliteAccess(c)
  \/ createDatabaseAuditCatalogChecklistItemBlockerStore(c) \/ AuditCatalogChecklistItemBlockerClients(c)
createConfiguredAuditCatalogChecklistItemBlockerStore(c) ==
  \/ driver = "file" /\ createFileAuditCatalogChecklistItemBlockerStore(c)
  \/ driver = "postgres" /\ createPostgresAuditCatalogChecklistItemBlockerStore(c)
  \/ driver = "sqlite" /\ createSqliteAuditCatalogChecklistItemBlockerStore(c)

createInMemoryAuditCatalogChecklistItemResolutionStore(c) ==
  /\ Of(c, "resolutions")
  /\ memoryDelete(c) \/ memoryGet(c) \/ memoryList(c) \/ memorySave(c)
AuditCatalogChecklistItemResolutionSnapshots(c) == Of(c, "resolutions") /\ SnapshotAccess(c)
AuditCatalogChecklistItemResolutionClients(c)   == Of(c, "resolutions") /\ ClientAccess(c)
createFileAuditCatalogChecklistItemResolutionStore(c) ==
  \/ /\ Of(c, "resolutions")
     /\ \/ enqueueAccess(c, "called")
        \/ fileDelete(c) \/ fileGet(c) \/ fileList(c) \/ fileSave(c)
  \/ AuditCatalogChecklistItemResolutionSnapshots(c)
createDatabaseAuditCatalogChecklistItemResolutionStore(c) ==
  /\ Of(c, "resolutions")
  /\ deleteRow(c) \/ getRow(c) \/ listRows(c) \/ saveRow(c)
createPostgresAuditCatalogChecklistItemResolutionStore(c) ==
  \/ Of(c, "resolutions") /\ PostgresAccess(c)
  \/ createDatabaseAuditCatalogChecklistItemResolutionStore(c) \/ AuditCatalogChecklistItemResolutionClients(c)
createSqliteAuditCatalogChecklistItemResolutionStore(c) ==
  \/ Of(c, "resolutions") /\ SqliteAccess(c)
  \/ createDatabaseAuditCatalogChecklistItemResolutionStore(c) \/ AuditCatalogChecklistItemResolutionClients(c)
createConfiguredAuditCatalogChecklistItemResolutionStore(c) ==
  \/ driver = "file" /\ createFileAuditCatalogChecklistItemResolutionStore(c)
  \/ driver = "postgres" /\ createPostgresAuditCatalogChecklistItemResolutionStore(c)
  \/ driver = "sqlite" /\ createSqliteAuditCatalogChecklistItemResolutionStore(c)

createInMemoryAuditCatalogChecklistItemVerificationStore(c) ==
  /\ Of(c, "verifications")
  /\ memoryDelete(c) \/ memoryGet(c) \/ memoryList(c) \/ memorySave(c)
AuditCatalogChecklistItemVerificationSnapshots(c) == Of(c, "verifications") /\ SnapshotAccess(c)
AuditCatalogChecklistItemVerificationClients(c)   == Of(c, "verifications") /\ ClientAccess(c)
createFileAuditCatalogChecklistItemVerificationStore(c) ==
  \/ /\ Of(c, "verifications")
     /\ \/ enqueueAccess(c, "called")
        \/ fileDelete(c) \/ fileGet(c) \/ fileList(c) \/ fileSave(c)
  \/ AuditCatalogChecklistItemVerificationSnapshots(c)
createDatabaseAuditCatalogChecklistItemVerificationStore(c) ==
  /\ Of(c, "verifications")
  /\ deleteRow(c) \/ getRow(c) \/ listRows(c) \/ saveRow(c)
createPostgresAuditCatalogChecklistItemVerificationStore(c) ==
  \/ Of(c, "verifications") /\ PostgresAccess(c)
  \/ createDatabaseAuditCatalogChecklistItemVerificationStore(c) \/ AuditCatalogChecklistItemVerificationClients(c)
createSqliteAuditCatalogChecklistItemVerificationStore(c) ==
  \/ Of(c, "verifications") /\ SqliteAccess(c)
  \/ createDatabaseAuditCatalogChecklistItemVerificationStore(c) \/ AuditCatalogChecklistItemVerificationClients(c)
createConfiguredAuditCatalogChecklistItemVerificationStore(c) ==
  \/ driver = "file" /\ createFileAuditCatalogChecklistItemVerificationStore(c)
  \/ driver = "postgres" /\ createPostgresAuditCatalogChecklistItemVerificationStore(c)
  \/ driver = "sqlite" /\ createSqliteAuditCatalogChecklistItemVerificationStore(c)

createInMemoryAuditCatalogChecklistItemEvidenceStore(c) ==
  /\ Of(c, "evidence")
  /\ memoryDelete(c) \/ memoryGet(c) \/ memoryList(c) \/ memorySave(c)
AuditCatalogChecklistItemEvidenceSnapshots(c) == Of(c, "evidence") /\ SnapshotAccess(c)
AuditCatalogChecklistItemEvidenceClients(c)   == Of(c, "evidence") /\ ClientAccess(c)
createFileAuditCatalogChecklistItemEvidenceStore(c) ==
  \/ /\ Of(c, "evidence")
     /\ \/ enqueueAccess(c, "called")
        \/ fileDelete(c) \/ fileGet(c) \/ fileList(c) \/ fileSave(c)
  \/ AuditCatalogChecklistItemEvidenceSnapshots(c)
createDatabaseAuditCatalogChecklistItemEvidenceStore(c) ==
  /\ Of(c, "evidence")
  /\ deleteRow(c) \/ getRow(c) \/ listRows(c) \/ saveRow(c)
createPostgresAuditCatalogChecklistItemEvidenceStore(c) ==
  \/ Of(c, "evidence") /\ PostgresAccess(c)
  \/ createDatabaseAuditCatalogChecklistItemEvidenceStore(c) \/ AuditCatalogChecklistItemEvidenceClients(c)
createSqliteAuditCatalogChecklistItemEvidenceStore(c) ==
  \/ Of(c, "evidence") /\ SqliteAccess(c)
  \/ createDatabaseAuditCatalogChecklistItemEvidenceStore(c) \/ AuditCatalogChecklistItemEvidenceClients(c)
createConfiguredAuditCatalogChecklistItemEvidenceStore(c) ==
  \/ driver = "file" /\ createFileAuditCatalogChecklistItemEvidenceStore(c)
  \/ driver = "postgres" /\ createPostgresAuditCatalogChecklistItemEvidenceStore(c)
  \/ driver = "sqlite" /\ createSqliteAuditCatalogChecklistItemEvidenceStore(c)

createInMemoryAuditCatalogChecklistItemAttestationStore(c) ==
  /\ Of(c, "attestations")
  /\ memoryDelete(c) \/ memoryGet(c) \/ memoryList(c) \/ memorySave(c)
AuditCatalogChecklistItemAttestationSnapshots(c) == Of(c, "attestations") /\ SnapshotAccess(c)
AuditCatalogChecklistItemAttestationClients(c)   == Of(c, "attestations") /\ ClientAccess(c)
createFileAuditCatalogChecklistItemAttestationStore(c) ==
  \/ /\ Of(c, "attestations")
     /\ \/ enqueueAccess(c, "called")
        \/ fileDelete(c) \/ fileGet(c) \/ fileList(c) \/ fileSave(c)
  \/ AuditCatalogChecklistItemAttestationSnapshots(c)
createDatabaseAuditCatalogChecklistItemAttestationStore(c) ==
  /\ Of(c, "attestations")
  /\ deleteRow(c) \/ getRow(c) \/ listRows(c) \/ saveRow(c)
createPostgresAuditCatalogChecklistItemAttestationStore(c) ==
  \/ Of(c, "attestations") /\ PostgresAccess(c)
  \/ createDatabaseAuditCatalogChecklistItemAttestationStore(c) \/ AuditCatalogChecklistItemAttestationClients(c)
createSqliteAuditCatalogChecklistItemAttestationStore(c) ==
  \/ Of(c, "attestations") /\ SqliteAccess(c)
  \/ createDatabaseAuditCatalogChecklistItemAttestationStore(c) \/ AuditCatalogChecklistItemAttestationClients(c)
createConfiguredAuditCatalogChecklistItemAttestationStore(c) ==
  \/ driver = "file" /\ createFileAuditCatalogChecklistItemAttestationStore(c)
  \/ driver = "postgres" /\ createPostgresAuditCatalogChecklistItemAttestationStore(c)
  \/ driver = "sqlite" /\ createSqliteAuditCatalogChecklistItemAttestationStore(c)

createInMemoryAuditCatalogChecklistItemAcknowledgmentStore(c) ==
  /\ Of(c, "acknowledgments")
  /\ memoryDelete(c) \/ memoryGet(c) \/ memoryList(c) \/ memorySave(c)
AuditCatalogChecklistItemAcknowledgmentSnapshots(c) == Of(c, "acknowledgments") /\ SnapshotAccess(c)
AuditCatalogChecklistItemAcknowledgmentClients(c)   == Of(c, "acknowledgments") /\ ClientAccess(c)
createFileAuditCatalogChecklistItemAcknowledgmentStore(c) ==
  \/ /\ Of(c, "acknowledgments")
     /\ \/ enqueueAccess(c, "called")
        \/ fileDelete(c) \/ fileGet(c) \/ fileList(c) \/ fileSave(c)
  \/ AuditCatalogChecklistItemAcknowledgmentSnapshots(c)
createDatabaseAuditCatalogChecklistItemAcknowledgmentStore(c) ==
  /\ Of(c, "acknowledgments")
  /\ deleteRow(c) \/ getRow(c) \/ listRows(c) \/ saveRow(c)
createPostgresAuditCatalogChecklistItemAcknowledgmentStore(c) ==
  \/ Of(c, "acknowledgments") /\ PostgresAccess(c)
  \/ createDatabaseAuditCatalogChecklistItemAcknowledgmentStore(c) \/ AuditCatalogChecklistItemAcknowledgmentClients(c)
createSqliteAuditCatalogChecklistItemAcknowledgmentStore(c) ==
  \/ Of(c, "acknowledgments") /\ SqliteAccess(c)
  \/ createDatabaseAuditCatalogChecklistItemAcknowledgmentStore(c) \/ AuditCatalogChecklistItemAcknowledgmentClients(c)
createConfiguredAuditCatalogChecklistItemAcknowledgmentStore(c) ==
  \/ driver = "file" /\ createFileAuditCatalogChecklistItemAcknowledgmentStore(c)
  \/ driver = "postgres" /\ createPostgresAuditCatalogChecklistItemAcknowledgmentStore(c)
  \/ driver = "sqlite" /\ createSqliteAuditCatalogChecklistItemAcknowledgmentStore(c)

createInMemoryAuditCatalogChecklistItemSignoffStore(c) ==
  /\ Of(c, "signoffs")
  /\ memoryDelete(c) \/ memoryGet(c) \/ memoryList(c) \/ memorySave(c)
AuditCatalogChecklistItemSignoffSnapshots(c) == Of(c, "signoffs") /\ SnapshotAccess(c)
AuditCatalogChecklistItemSignoffClients(c)   == Of(c, "signoffs") /\ ClientAccess(c)
createFileAuditCatalogChecklistItemSignoffStore(c) ==
  \/ /\ Of(c, "signoffs")
     /\ \/ enqueueAccess(c, "called")
        \/ fileDelete(c) \/ fileGet(c) \/ fileList(c) \/ fileSave(c)
  \/ AuditCatalogChecklistItemSignoffSnapshots(c)
createDatabaseAuditCatalogChecklistItemSignoffStore(c) ==
  /\ Of(c, "signoffs")
  /\ deleteRow(c) \/ getRow(c) \/ listRows(c) \/ saveRow(c)
createPostgresAuditCatalogChecklistItemSignoffStore(c) ==
  \/ Of(c, "signoffs") /\ PostgresAccess(c)
  \/ createDatabaseAuditCatalogChecklistItemSignoffStore(c) \/ AuditCatalogChecklistItemSignoffClients(c)
createSqliteAuditCatalogChecklistItemSignoffStore(c) ==
  \/ Of(c, "signoffs") /\ SqliteAccess(c)
  \/ createDatabaseAuditCatalogChecklistItemSignoffStore(c) \/ AuditCatalogChecklistItemSignoffClients(c)
createConfiguredAuditCatalogChecklistItemSignoffStore(c) ==
  \/ driver = "file" /\ createFileAuditCatalogChecklistItemSignoffStore(c)
  \/ driver = "postgres" /\ createPostgresAuditCatalogChecklistItemSignoffStore(c)
  \/ driver = "sqlite" /\ createSqliteAuditCatalogChecklistItemSignoffStore(c)

createInMemoryToolHistoryStore(c) ==
  /\ Of(c, ToolHistory)
  /\ memoryList(c) \/ memorySave(c)
ToolHistorySnapshots(c) == Of(c, ToolHistory) /\ SnapshotAccess(c)
ToolHistoryClients(c)   == Of(c, ToolHistory) /\ ClientAccess(c)
createFileToolHistoryStore(c) ==
  \/ /\ Of(c, ToolHistory)
     /\ \/ enqueueAccess(c, "called")
        \/ fileList(c) \/ fileSave(c)
  \/ ToolHistorySnapshots(c)
createDatabaseToolHistoryStore(c) ==
  /\ Of(c, ToolHistory)
  /\ listRows(c) \/ saveRow(c)
createPostgresToolHistoryStore(c) ==
  \/ Of(c, ToolHistory) /\ PostgresAccess(c)
  \/ createDatabaseToolHistoryStore(c) \/ ToolHistoryClients(c)
createSqliteToolHistoryStore(c) ==
  \/ Of(c, ToolHistory) /\ SqliteAccess(c)
  \/ createDatabaseToolHistoryStore(c) \/ ToolHistoryClients(c)
createConfiguredToolHistoryStore(c) ==
  \/ driver = "file" /\ createFileToolHistoryStore(c)
  \/ driver = "postgres" /\ createPostgresToolHistoryStore(c)
  \/ driver = "sqlite" /\ createSqliteToolHistoryStore(c)

Configured(c) ==
  \/ createConfiguredSavedAuditViewStore(c)
  \/ createConfiguredAuditViewCatalogStore(c)
  \/ createConfiguredAuditCatalogVisibilityStore(c)
  \/ createConfiguredAuditCatalogReviewSignalStore(c)
  \/ createConfiguredAuditCatalogReviewAssignmentStore(c)
  \/ createConfiguredAuditCatalogAssignmentChecklistStore(c)
  \/ createConfiguredAuditCatalogChecklistItemProgressStore(c)
  \/ createConfiguredAuditCatalogChecklistItemBlockerStore(c)
  \/ createConfiguredAuditCatalogChecklistItemResolutionStore(c)
  \/ createConfiguredAuditCatalogChecklistItemVerificationStore(c)
  \/ createConfiguredAuditCatalogChecklistItemEvidenceStore(c)
  \/ createConfiguredAuditCatalogChecklistItemAttestationStore(c)
  \/ createConfiguredAuditCatalogChecklistItemAcknowledgmentStore(c)
  \/ createConfiguredAuditCatalogChecklistItemSignoffStore(c)
  \/ createConfiguredToolHistoryStore(c)

InProcess(c) ==
  \/ createInMemorySavedAuditViewStore(c)
  \/ createInMemoryAuditViewCatalogStore(c)
  \/ createInMemoryAuditCatalogVisibilityStore(c)
  \/ createInMemoryAuditCatalogReviewSignalStore(c)
  \/ createInMemoryAuditCatalogReviewAssignmentStore(c)
  \/ createInMemoryAuditCatalogAssignmentChecklistStore(c)
  \/ createInMemoryAuditCatalogChecklistItemProgressStore(c)
  \/ createInMemoryAuditCatalogChecklistItemBlockerStore(c)
  \/ createInMemoryAuditCatalogChecklistItemResolutionStore(c)
  \/ createInMemoryAuditCatalogChecklistItemVerificationStore(c)
  \/ createInMemoryAuditCatalogChecklistItemEvidenceStore(c)
  \/ createInMemoryAuditCatalogChecklistItemAttestationStore(c)
  \/ createInMemoryAuditCatalogChecklistItemAcknowledgmentStore(c)
  \/ createInMemoryAuditCatalogChecklistItemSignoffStore(c)
  \/ createInMemoryToolHistoryStore(c)

StoreStep(c) ==
  \/ Configured(c)
  \/ driver = "memory" /\ InProcess(c)
=============================================================================
