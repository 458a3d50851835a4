--------------------------- MODULE CatalogLayers ---------------------------
(***************************************************************************)
(* The layers of the audit catalog (packages/replay): a saved view, the    *)
(* catalog entry published from it, who may see the entry, and the records *)
(* operators stack on it, from the review to the signoff of its checklist  *)
(* items.  This module says, layer by layer, what record a layer holds,    *)
(* when it resolves for a viewer, and which items it takes from the layer  *)
(* below.  AuditCatalog adds the requests that read and write the layers.  *)
(*                                                                         *)
(* Notes, timestamps, item states and sort orders are left out: no layer   *)
(* decides anything by them.                                               *)
(***************************************************************************)
EXTENDS Naturals

CONSTANTS Operators,  \* operator ids
          Team,       \* the operators of one scope; the others are in another
          Items,      \* the checklist items
          None        \* no record

ASSUME LayersAssumption == Team \subseteq Operators /\ None \notin Operators

SavedView           == 0
CatalogEntry        == 1
Visibility          == 2
ReviewSignal        == 3
ReviewAssignment    == 4
AssignmentChecklist == 5
ItemProgress        == 6
ItemBlocker         == 7
ItemResolution      == 8
ItemVerification    == 9
ItemEvidence        == 10
ItemAttestation     == 11
ItemAcknowledgment  == 12
ItemSignoff         == 13

Layers     == SavedView .. ItemSignoff
ListLayers == AssignmentChecklist .. ItemSignoff  \* the layers that hold items
ItemLayers == ItemProgress .. ItemSignoff         \* ... taken from the layer below

\* The scope of an operator's identity.
scopeId(o) == IF o \in Team THEN "team" ELSE "elsewhere"
Scopes     == {"team", "elsewhere"}

\* The records of each layer.
SavedViewRecord  == {"saved"}
EntryRecord      == [archived : BOOLEAN]
VisibilityRecord == [ownerId : Operators, scopeId : Scopes, shared : BOOLEAN]
ReviewRecord     == [operatorId : Operators]
AssignmentRecord == [assignerId : Operators, assigneeId : Operators, scopeId : Scopes]
ItemsRecord      == [scopeId : Scopes, items : SUBSET Items]

RecordOf(l) == CASE l = SavedView        -> SavedViewRecord
                 [] l = CatalogEntry     -> EntryRecord
                 [] l = Visibility       -> VisibilityRecord
                 [] l = ReviewSignal     -> ReviewRecord
                 [] l = ReviewAssignment -> AssignmentRecord
                 [] l \in ListLayers     -> ItemsRecord

\* None is not a record.
ASSUME NoneAssumption == \A l \in Layers : None \notin RecordOf(l)

-----------------------------------------------------------------------------
(* The records the layers create *)

createCrossRunAuditCatalogEntry == [archived |-> FALSE]

\* Mutant: archiving an archived entry brings it back.
archiveCrossRunAuditCatalogEntry_Toggles(entry) == [entry EXCEPT !.archived = ~@]

archiveCrossRunAuditCatalogEntry(entry) == [entry EXCEPT !.archived = TRUE]

createCrossRunAuditCatalogVisibility(o, shared) ==
  [ownerId |-> o, scopeId |-> scopeId(o), shared |-> shared]

createCrossRunAuditCatalogReviewSignal(o) == [operatorId |-> o]

createCrossRunAuditCatalogReviewAssignment(o, assignee) ==
  [assignerId |-> o, assigneeId |-> assignee, scopeId |-> scopeId(o)]

\* A checklist and every layer above it: the scope of the operator who set it
\* and the items, which replace the ones the layer held.
ItemsOf(o, items) == [scopeId |-> scopeId(o), items |-> items]

\* Mutant: the record is saved without its scope.
createCrossRunAuditCatalogChecklistItemBlocker_NoScope(o, items) == [items |-> items]

createCrossRunAuditCatalogAssignmentChecklist(o, items)         == ItemsOf(o, items)
createCrossRunAuditCatalogChecklistItemProgress(o, items)       == ItemsOf(o, items)
createCrossRunAuditCatalogChecklistItemBlocker(o, items)        == ItemsOf(o, items)
createCrossRunAuditCatalogChecklistItemResolution(o, items)     == ItemsOf(o, items)
createCrossRunAuditCatalogChecklistItemVerification(o, items)   == ItemsOf(o, items)
createCrossRunAuditCatalogChecklistItemEvidence(o, items)       == ItemsOf(o, items)
createCrossRunAuditCatalogChecklistItemAttestation(o, items)    == ItemsOf(o, items)
createCrossRunAuditCatalogChecklistItemAcknowledgment(o, items) == ItemsOf(o, items)
createCrossRunAuditCatalogChecklistItemSignoff(o, items)        == ItemsOf(o, items)

-----------------------------------------------------------------------------
(* When the record of a layer resolves for a viewer, given that the layers *)
(* below it do.                                                            *)

isCrossRunAuditCatalogVisibleToViewer(r, o) ==
  r.ownerId = o \/ (r.shared /\ r.scopeId = scopeId(o))

resolveCatalogEntry(r) == r # None /\ ~r.archived

resolveCatalogVisibility(r, o) ==
  r # None /\ isCrossRunAuditCatalogVisibleToViewer(r, o)

resolveCatalogReviewSignal(r) == r # None

\* Mutant: the assigned entry resolves for the whole scope.
resolveCatalogReviewAssignment_AnyParty(r, o) == r # None /\ r.scopeId = scopeId(o)

resolveCatalogReviewAssignment(r, o) ==
  r # None /\ r.scopeId = scopeId(o) /\ o \in {r.assignerId, r.assigneeId}

InScope(r, o) == r # None /\ r.scopeId = scopeId(o)

resolveCatalogAssignmentChecklist(r, o)         == InScope(r, o)
resolveCatalogChecklistItemProgress(r, o)       == InScope(r, o)
resolveCatalogChecklistItemBlocker(r, o)        == InScope(r, o)
resolveCatalogChecklistItemResolution(r, o)     == InScope(r, o)
resolveCatalogChecklistItemVerification(r, o)   == InScope(r, o)
resolveCatalogChecklistItemEvidence(r, o)       == InScope(r, o)
resolveCatalogChecklistItemAttestation(r, o)    == InScope(r, o)
resolveCatalogChecklistItemAcknowledgment(r, o) == InScope(r, o)
resolveCatalogChecklistItemSignoff(r, o)        == InScope(r, o)

Resolves(l, r, o) ==
  CASE l = SavedView           -> r # None
    [] l = CatalogEntry        -> resolveCatalogEntry(r)
    [] l = Visibility          -> resolveCatalogVisibility(r, o)
    [] l = ReviewSignal        -> resolveCatalogReviewSignal(r)
    [] l = ReviewAssignment    -> resolveCatalogReviewAssignment(r, o)
    [] l = AssignmentChecklist -> resolveCatalogAssignmentChecklist(r, o)
    [] l = ItemProgress        -> resolveCatalogChecklistItemProgress(r, o)
    [] l = ItemBlocker         -> resolveCatalogChecklistItemBlocker(r, o)
    [] l = ItemResolution      -> resolveCatalogChecklistItemResolution(r, o)
    [] l = ItemVerification    -> resolveCatalogChecklistItemVerification(r, o)
    [] l = ItemEvidence        -> resolveCatalogChecklistItemEvidence(r, o)
    [] l = ItemAttestation     -> resolveCatalogChecklistItemAttestation(r, o)
    [] l = ItemAcknowledgment  -> resolveCatalogChecklistItemAcknowledgment(r, o)
    [] l = ItemSignoff         -> resolveCatalogChecklistItemSignoff(r, o)

-----------------------------------------------------------------------------
(* The items of a layer against those of the layer below: an item that is  *)
(* not there is an error, when the layer is set and whenever it is read.   *)

Allowed(items, below) == items \subseteq below

\* Mutant: the items are not compared with the checklist.
normalizeChecklistItemProgressItems_Any(items, below) == TRUE

normalizeChecklistItemProgressItems(items, below)       == Allowed(items, below)
normalizeChecklistItemBlockerItems(items, below)        == Allowed(items, below)
normalizeChecklistItemResolutionItems(items, below)     == Allowed(items, below)
normalizeChecklistItemVerificationItems(items, below)   == Allowed(items, below)
normalizeChecklistItemEvidenceItems(items, below)       == Allowed(items, below)
normalizeChecklistItemAttestationItems(items, below)    == Allowed(items, below)
normalizeChecklistItemAcknowledgmentItems(items, below) == Allowed(items, below)
normalizeChecklistItemSignoffItems(items, below)        == Allowed(items, below)

Normalizes(l, items, below) ==
  CASE l = ItemProgress       -> normalizeChecklistItemProgressItems(items, below)
    [] l = ItemBlocker        -> normalizeChecklistItemBlockerItems(items, below)
    [] l = ItemResolution     -> normalizeChecklistItemResolutionItems(items, below)
    [] l = ItemVerification   -> normalizeChecklistItemVerificationItems(items, below)
    [] l = ItemEvidence       -> normalizeChecklistItemEvidenceItems(items, below)
    [] l = ItemAttestation    -> normalizeChecklistItemAttestationItems(items, below)
    [] l = ItemAcknowledgment -> normalizeChecklistItemAcknowledgmentItems(items, below)
    [] l = ItemSignoff        -> normalizeChecklistItemSignoffItems(items, below)

-----------------------------------------------------------------------------
(* What the operator service makes of an error of a set: a message of the  *)
(* layer that was set is told from the others, which pass as they are.     *)

Fault(l, kind) == [layer |-> l, kind |-> kind]
NoFault        == Fault(SavedView, "none")

\* "absent": the layer below does not resolve; "items": the input is refused;
\* "owner": somebody else owns the record.
Told(l, fault) ==
  IF fault.layer # l THEN "crash"
  ELSE CASE fault.kind = "absent" -> "not_found"
         [] fault.kind = "items"  -> "invalid"
         [] fault.kind = "owner"  -> "conflict"

normalizeCatalogVisibilityError(fault)          == Told(Visibility, fault)
normalizeCatalogReviewSignalError(fault)        == Told(ReviewSignal, fault)
normalizeCatalogReviewAssignmentError(fault)    == Told(ReviewAssignment, fault)
normalizeCatalogAssignmentChecklistError(fault) == Told(AssignmentChecklist, fault)
normalizeCatalogChecklistItemProgressError(fault)       == Told(ItemProgress, fault)
normalizeCatalogChecklistItemBlockerError(fault)        == Told(ItemBlocker, fault)
normalizeCatalogChecklistItemResolutionError(fault)     == Told(ItemResolution, fault)
normalizeCatalogChecklistItemVerificationError(fault)   == Told(ItemVerification, fault)
normalizeCatalogChecklistItemEvidenceError(fault)       == Told(ItemEvidence, fault)
normalizeCatalogChecklistItemAttestationError(fault)    == Told(ItemAttestation, fault)
normalizeCatalogChecklistItemAcknowledgmentError(fault) == Told(ItemAcknowledgment, fault)
normalizeCatalogChecklistItemSignoffError(fault)        == Told(ItemSignoff, fault)
=============================================================================
