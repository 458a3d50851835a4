---------------------------- MODULE AuditCatalog ----------------------------
(***************************************************************************)
(* The audit catalog of the operator service (packages/sdk over            *)
(* packages/replay): operators publish saved views, share and archive the  *)
(* entries, and set, read and clear the layers of CatalogLayers on them.   *)
(*                                                                         *)
(* A request is not atomic.  It walks down the layers, one read a step,    *)
(* from the layer it is about to the saved view; it then decides by what   *)
(* it has read and saves or deletes a record in one more step; where the   *)
(* record is made of the one it replaces, that one is read in a step of    *)
(* its own.  Nothing locks the entry meanwhile, and the process of the     *)
(* operator may die between any two steps.                                 *)
(*                                                                         *)
(* An entry without an owner is a legacy one, published before there were  *)
(* owners, or one whose publishing was cut off; nobody is shown it, but    *)
(* whoever knows its id may share it, which makes him its owner.           *)
(*                                                                         *)
(* desk is the set of layers that requests are about in a behaviour.  A    *)
(* walk reads the layers nobody writes together with the one above them.   *)
(***************************************************************************)
EXTENDS CatalogLayers

CONSTANTS Entries,      \* catalog entry ids
          Desks,        \* the sets of layers a behaviour may be about
          Owner, Assignee,  \* who filled the layers there are to begin with
          MaxRequests,  \* bound on the number of requests
          MaxThrows     \* bound on the rejections of a store

ASSUME CatalogAssumption == /\ Desks \subseteq SUBSET Layers
                            /\ Owner \in Team /\ Assignee \in Team
                            /\ None \notin Entries
                            /\ MaxRequests \in Nat /\ MaxThrows \in Nat

VARIABLES row,       \* row[l][e] : the record of entry e in the store of layer l
          req,       \* req[o] : the request operator o has in flight
          desk,      \* the layers this behaviour is about
          ever,      \* ever[l][e] : every item layer l has held for e
          cut,       \* the entries whose publishing never came to its end
          entitled,  \* entitled[o] : what o was entitled to during its request
          requests, throws

vars == <<row, req, desk, ever, cut, entitled, requests, throws>>

Ops     == {"none", "get", "list", "clear", "set", "apply", "publish", "archive"}
Pcs     == {"idle", "walking", "resolved", "missing", "listing", "owning",
            "creating", "saving"}
Answers == {"none", "shown", "done", "not_found", "conflict", "invalid", "crash"}

Nothing == [e \in Entries |-> [l \in Layers |-> {}]]

\* pc, at: the layer the walk reads next; got: the items it has read; todo:
\* the entries a list has still to resolve; shown: the entries it answered of;
\* found: the record that the one to be saved replaces.
Requested(op, l, e, input, pc, at) ==
  [op |-> op, layer |-> l, entry |-> e, input |-> input, pc |-> pc, at |-> at,
   got |-> Nothing, todo |-> {}, shown |-> {}, found |-> None, answer |-> "none"]

Idle(answer, shown) ==
  [Requested("none", SavedView, None, {}, "idle", SavedView)
     EXCEPT !.answer = answer, !.shown = shown]

ItemsAt(l, e) == IF l \in ListLayers /\ row[l][e] # None THEN row[l][e].items ELSE {}

\* The layer a request starts to read at: a set reads what it builds on.
Top(op, l) == IF op = "set" THEN l - 1 ELSE l

-----------------------------------------------------------------------------
(* An entry is shown to its owner and, once shared, to his scope; from the *)
(* assignment on, its layers are for the assigner and the assignee.        *)

VisibleTo(o) ==
  {e \in Entries : /\ row[CatalogEntry][e] # None /\ ~row[CatalogEntry][e].archived
                   /\ row[Visibility][e] # None
                   /\ \/ row[Visibility][e].ownerId = o
                      \/ /\ row[Visibility][e].shared
                         /\ row[Visibility][e].scopeId = scopeId(o)}

PartyOf(o) ==
  {e \in Entries : /\ row[ReviewAssignment][e] # None
                   /\ row[ReviewAssignment][e].scopeId = scopeId(o)
                   /\ \/ row[ReviewAssignment][e].assignerId = o
                      \/ row[ReviewAssignment][e].assigneeId = o}

NotEntitled == [visible |-> {}, party |-> {}]

\* Remembers, for the requests in flight, what the state entitles them to.
Remember ==
  entitled' = [o \in Operators |->
    IF req'[o].pc = "idle" THEN NotEntitled
    ELSE [visible |-> entitled[o].visible \cup VisibleTo(o)',
          party   |-> entitled[o].party \cup PartyOf(o)']]

\* A publish that ends with the rejection of a store, or with its process.
CutOff(o) == /\ req[o].op = "publish" /\ req'[o].pc = "idle"
             /\ throws' # throws \/ req'[o].answer = "none"

RememberCut ==
  cut' = cut \cup {req[o].entry : o \in {o \in Operators : CutOff(o)}}

-----------------------------------------------------------------------------
\* The layers that were filled before: Owner shared the entry with his team
\* and assigned it to Assignee, and they set every layer with the same items.
\* Entries that were filled up to the catalog entry only are legacy entries.
Filled(l, items) ==
  CASE l = SavedView        -> "saved"
    [] l = CatalogEntry     -> createCrossRunAuditCatalogEntry
    [] l = Visibility       -> createCrossRunAuditCatalogVisibility(Owner, TRUE)
    [] l = ReviewSignal     -> createCrossRunAuditCatalogReviewSignal(Assignee)
    [] l = ReviewAssignment -> createCrossRunAuditCatalogReviewAssignment(Owner, Assignee)
    [] l \in ListLayers     -> ItemsOf(Owner, items)

Init ==
  \E height \in 0 .. ItemSignoff + 1, items \in SUBSET Items \ {{}} :
    /\ desk \in Desks
    /\ height \in desk \/ height - 1 \in desk
    /\ row = [l \in Layers |-> [e \in Entries |->
                IF l < height THEN Filled(l, items) ELSE None]]
    /\ ever = [l \in ListLayers |-> [e \in Entries |->
                IF l < height THEN items ELSE {}]]
    /\ cut = IF height = Visibility THEN Entries ELSE {}
    /\ req = [o \in Operators |-> Idle("none", {})]
    /\ entitled = [o \in Operators |-> NotEntitled]
    /\ requests = 0 /\ throws = 0

-----------------------------------------------------------------------------
(* Answers and writes *)

Continue(o, r) == req' = [req EXCEPT ![o] = r]

Answer(o, answer, shown) ==
  /\ Continue(o, Idle(answer, shown))
  /\ UNCHANGED <<row, ever, throws>>

\* The promise of a save or a delete may be rejected though it was done.
Reported(o, r, shown) ==
  \/ Continue(o, r) /\ UNCHANGED throws
  \/ /\ throws < MaxThrows
     /\ throws' = throws + 1
     /\ Continue(o, Idle("crash", {}))

Write(o, l, record, r) ==
  LET e == req[o].entry IN
  /\ row' = [row EXCEPT ![l][e] = record]
  /\ ever' = IF l \in ListLayers /\ record # None
             THEN [ever EXCEPT ![l][e] = @ \cup record.items] ELSE ever
  /\ Reported(o, r, {e})

Save(o, l, record) == Write(o, l, record, Idle("done", {req[o].entry}))

\* A store rejects the access a request waits for, and does nothing.
StoreThrows(o) ==
  /\ \/ req[o].pc \in {"walking", "owning", "creating", "saving"}
     \/ req[o].pc = "resolved" /\ req[o].op \notin {"get", "list"}
  /\ throws < MaxThrows
  /\ throws' = throws + 1
  /\ Continue(o, Idle("crash", {}))
  /\ UNCHANGED <<row, ever, requests>>

\* The process that serves the request dies before the next access to a store.
Dies(o) ==
  /\ req[o].pc # "idle"
  /\ Continue(o, Idle("none", {}))
  /\ UNCHANGED <<row, ever, requests, throws>>

-----------------------------------------------------------------------------
(* The walk down the layers *)

\* The record of every layer from `at' down to `to' is read; the ones under
\* `at' are on nobody's desk.
ReadsDownTo(o, to) ==
  /\ to \in SavedView .. req[o].at
  /\ \A l \in to .. req[o].at - 1 : l \notin desk
  /\ to = SavedView \/ to - 1 \in desk

Walk(o) ==
  LET r == req[o]  e == req[o].entry IN
  /\ r.pc = "walking"
  /\ \E to \in Layers :
       /\ ReadsDownTo(o, to)
       /\ IF \A l \in to .. r.at : Resolves(l, row[l][e], o)
          THEN Continue(o, [r EXCEPT
                 !.got[e] = [l \in Layers |-> IF l \in to .. r.at THEN ItemsAt(l, e) ELSE @[l]],
                 !.at = IF to = SavedView THEN SavedView ELSE to - 1,
                 !.pc = IF to = SavedView THEN "resolved" ELSE "walking"])
          ELSE Continue(o, [r EXCEPT !.pc = "missing"])
  /\ UNCHANGED <<row, ever, requests, throws>>

\* The layers whose items, as they were read, are not all in the one below.
Stale(o) ==
  LET r == req[o]  got == req[o].got[req[o].entry] IN
  {l \in ItemLayers : l <= Top(r.op, r.layer) /\ ~Normalizes(l, got[l], got[l - 1])}

Ends(o, op, l) == /\ req[o].op = op /\ req[o].layer = l
                  /\ req[o].pc \in {"resolved", "missing"}
                  /\ UNCHANGED requests

View(o) == IF req[o].pc = "missing" THEN Answer(o, "not_found", {})
           ELSE IF Stale(o) # {} THEN Answer(o, "crash", {req[o].entry})
           ELSE Answer(o, "shown", {req[o].entry})

GetEnds(o, l) == Ends(o, "get", l) /\ View(o)

\* The record is deleted whoever wrote it since it was read.
ClearEnds(o, l) == /\ Ends(o, "clear", l)
                   /\ IF req[o].pc = "missing" \/ Stale(o) # {} THEN View(o)
                      ELSE Save(o, l, None)

\* One unreadable entry fails the whole list.
ListedEnds(o, l) ==
  LET r == req[o] IN
  /\ Ends(o, "list", l)
  /\ IF r.pc = "resolved" /\ Stale(o) # {}
     THEN Answer(o, "crash", r.shown \cup {r.entry})
     ELSE /\ Continue(o, [r EXCEPT !.pc = "listing", !.entry = None, !.todo = @ \ {r.entry},
                !.shown = IF r.pc = "resolved" THEN @ \cup {r.entry} ELSE @])
          /\ UNCHANGED <<row, ever, throws>>

ListNext(o) ==
  /\ req[o].pc = "listing"
  /\ IF req[o].todo = {} THEN Answer(o, "shown", req[o].shown)
     ELSE /\ \E e \in req[o].todo :
               Continue(o, [req[o] EXCEPT !.pc = "walking", !.entry = e,
                                          !.at = req[o].layer - 1])
          /\ UNCHANGED <<row, ever, throws>>
  /\ UNCHANGED requests

LayerEnds(o, l) == GetEnds(o, l) \/ ClearEnds(o, l) \/ ListedEnds(o, l)

-----------------------------------------------------------------------------
(* The queries of the layers: reading and clearing a record ... *)

CatalogVisibilityQuery(o) == GetEnds(o, Visibility) \/ ListedEnds(o, Visibility)
CatalogReviewSignalQuery(o)                == LayerEnds(o, ReviewSignal)
CatalogReviewAssignmentQuery(o)            == LayerEnds(o, ReviewAssignment)
CatalogAssignmentChecklistQuery(o)         == LayerEnds(o, AssignmentChecklist)
CatalogChecklistItemProgressQuery(o)       == LayerEnds(o, ItemProgress)
CatalogChecklistItemBlockerQuery(o)        == LayerEnds(o, ItemBlocker)
CatalogChecklistItemResolutionQuery(o)     == LayerEnds(o, ItemResolution)
CatalogChecklistItemVerificationQuery(o)   == LayerEnds(o, ItemVerification)
CatalogChecklistItemEvidenceQuery(o)       == LayerEnds(o, ItemEvidence)
CatalogChecklistItemAttestationQuery(o)    == LayerEnds(o, ItemAttestation)
CatalogChecklistItemAcknowledgmentQuery(o) == LayerEnds(o, ItemAcknowledgment)
CatalogChecklistItemSignoffQuery(o)        == LayerEnds(o, ItemSignoff)

(* ... and setting one. *)

\* What the walk of a set makes of the layer below, before the input is read.
BelowFault(o) ==
  IF req[o].pc = "missing" THEN Fault(req[o].layer, "absent")
  ELSE IF Stale(o) # {} THEN Fault(CHOOSE l \in Stale(o) : TRUE, "items")
  ELSE NoFault

\* Mutant: the items are not compared with those of the layer below.
ItemsFault_Unchecked(o) ==
  IF BelowFault(o) # NoFault THEN BelowFault(o)
  ELSE IF req[o].input = {} THEN Fault(req[o].layer, "items") ELSE NoFault

\* At least one item, and each one in the layer below.
ItemsFault(o) ==
  LET r == req[o] IN
  IF BelowFault(o) # NoFault THEN BelowFault(o)
  ELSE IF r.input = {} \/ ~Normalizes(r.layer, r.input, r.got[r.entry][r.layer - 1])
       THEN Fault(r.layer, "items") ELSE NoFault

Refused(o, told) == Answer(o, told, IF told = "crash" THEN {req[o].entry} ELSE {})

SetsVisibility(o) ==
  req[o].op = "publish" \/ (req[o].op = "set" /\ req[o].layer = Visibility)

\* Mutant: whoever sets the record is not compared with its owner.
OwnerFault_Anybody(o) ==
  IF req[o].pc = "missing" THEN Fault(Visibility, "absent") ELSE NoFault

OwnerFault(o) ==
  LET existing == row[Visibility][req[o].entry] IN
  IF req[o].pc = "missing" THEN Fault(Visibility, "absent")
  ELSE IF existing # None /\ existing.ownerId # o THEN Fault(Visibility, "owner")
  ELSE NoFault

\* The entry is resolved; the owner record there is, if any, is read ...
setCatalogVisibilityState(o) ==
  LET fault == OwnerFault(o) IN
  /\ SetsVisibility(o) /\ req[o].pc \in {"resolved", "missing"}
  /\ IF fault = NoFault
     THEN /\ Continue(o, [req[o] EXCEPT !.pc = "saving",
                                        !.found = row[Visibility][req[o].entry]])
          /\ UNCHANGED <<row, ever, throws>>
     ELSE Refused(o, IF req[o].op = "publish" THEN "crash"
                     ELSE normalizeCatalogVisibilityError(fault))
  /\ UNCHANGED requests

\* ... and the record that is made of it is saved: it is kept by its owner, and
\* only sharing moves it to his scope.
saveCatalogVisibility(o) ==
  LET shared == "shared" \in req[o].input  found == req[o].found IN
  /\ SetsVisibility(o) /\ req[o].pc = "saving"
  /\ Save(o, Visibility,
       IF found = None THEN createCrossRunAuditCatalogVisibility(o, shared)
       ELSE [found EXCEPT !.shared = shared,
                          !.scopeId = IF shared THEN scopeId(o) ELSE @])
  /\ UNCHANGED requests

setCatalogReviewSignal(o) ==
  LET fault == BelowFault(o) IN
  /\ Ends(o, "set", ReviewSignal)
  /\ IF fault # NoFault THEN Refused(o, normalizeCatalogReviewSignalError(fault))
     ELSE Save(o, ReviewSignal, createCrossRunAuditCatalogReviewSignal(o))

\* The input holds the assignee, nobody when it is blank.
setCatalogReviewAssignment(o) ==
  LET fault == IF BelowFault(o) # NoFault THEN BelowFault(o)
               ELSE IF req[o].input = {} THEN Fault(ReviewAssignment, "items")
               ELSE NoFault IN
  /\ Ends(o, "set", ReviewAssignment)
  /\ IF fault # NoFault THEN Refused(o, normalizeCatalogReviewAssignmentError(fault))
     ELSE Save(o, ReviewAssignment,
               createCrossRunAuditCatalogReviewAssignment(o, CHOOSE a \in Operators : a \in req[o].input))

setCatalogAssignmentChecklist(o) ==
  LET fault == BelowFault(o) IN
  /\ Ends(o, "set", AssignmentChecklist)
  /\ IF fault # NoFault THEN Refused(o, normalizeCatalogAssignmentChecklistError(fault))
     ELSE Save(o, AssignmentChecklist,
               createCrossRunAuditCatalogAssignmentChecklist(o, req[o].input))

setCatalogChecklistItemProgress(o) ==
  LET fault == ItemsFault(o) IN
  /\ Ends(o, "set", ItemProgress)
  /\ IF fault # NoFault
     THEN Refused(o, normalizeCatalogChecklistItemProgressError(fault))
     ELSE Save(o, ItemProgress, createCrossRunAuditCatalogChecklistItemProgress(o, req[o].input))

setCatalogChecklistItemBlocker(o) ==
  LET fault == ItemsFault(o) IN
  /\ Ends(o, "set", ItemBlocker)
  /\ IF fault # NoFault
     THEN Refused(o, normalizeCatalogChecklistItemBlockerError(fault))
     ELSE Save(o, ItemBlocker, createCrossRunAuditCatalogChecklistItemBlocker(o, req[o].input))

setCatalogChecklistItemResolution(o) ==
  LET fault == ItemsFault(o) IN
  /\ Ends(o, "set", ItemResolution)
  /\ IF fault # NoFault
     THEN Refused(o, normalizeCatalogChecklistItemResolutionError(fault))
     ELSE Save(o, ItemResolution, createCrossRunAuditCatalogChecklistItemResolution(o, req[o].input))

setCatalogChecklistItemVerification(o) ==
  LET fault == ItemsFault(o) IN
  /\ Ends(o, "set", ItemVerification)
  /\ IF fault # NoFault
     THEN Refused(o, normalizeCatalogChecklistItemVerificationError(fault))
     ELSE Save(o, ItemVerification, createCrossRunAuditCatalogChecklistItemVerification(o, req[o].input))

setCatalogChecklistItemEvidence(o) ==
  LET fault == ItemsFault(o) IN
  /\ Ends(o, "set", ItemEvidence)
  /\ IF fault # NoFault
     THEN Refused(o, normalizeCatalogChecklistItemEvidenceError(fault))
     ELSE Save(o, ItemEvidence, createCrossRunAuditCatalogChecklistItemEvidence(o, req[o].input))

setCatalogChecklistItemAttestation(o) ==
  LET fault == ItemsFault(o) IN
  /\ Ends(o, "set", ItemAttestation)
  /\ IF fault # NoFault
     THEN Refused(o, normalizeCatalogChecklistItemAttestationError(fault))
     ELSE Save(o, ItemAttestation, createCrossRunAuditCatalogChecklistItemAttestation(o, req[o].input))

setCatalogChecklistItemAcknowledgment(o) ==
  LET fault == ItemsFault(o) IN
  /\ Ends(o, "set", ItemAcknowledgment)
  /\ IF fault # NoFault
     THEN Refused(o, normalizeCatalogChecklistItemAcknowledgmentError(fault))
     ELSE Save(o, ItemAcknowledgment, createCrossRunAuditCatalogChecklistItemAcknowledgment(o, req[o].input))

setCatalogChecklistItemSignoff(o) ==
  LET fault == ItemsFault(o) IN
  /\ Ends(o, "set", ItemSignoff)
  /\ IF fault # NoFault
     THEN Refused(o, normalizeCatalogChecklistItemSignoffError(fault))
     ELSE Save(o, ItemSignoff, createCrossRunAuditCatalogChecklistItemSignoff(o, req[o].input))

-----------------------------------------------------------------------------
(* Saved views, entries and their owners *)

\* Mutant: publishing ends with the entry, which never gets an owner.
publishCatalogEntry_NoOwner(o) ==
  /\ req[o].pc = "creating"
  /\ Save(o, CatalogEntry, createCrossRunAuditCatalogEntry)
  /\ UNCHANGED requests

\* catalog.publishCatalogEntry: the entry is saved, and then its visibility is
\* set to personal, as if it was there before (setCatalogVisibilityState).
publishCatalogEntry(o) ==
  /\ req[o].pc = "creating"
  /\ Write(o, CatalogEntry, createCrossRunAuditCatalogEntry,
           [req[o] EXCEPT !.pc = "walking", !.at = CatalogEntry])
  /\ UNCHANGED requests

requireOwnedCatalogVisibility(o) ==
  LET r == req[o]  owned == row[Visibility][req[o].entry] IN
  /\ r.pc = "owning"
  /\ IF owned = None THEN Answer(o, "not_found", {})
     ELSE IF owned.ownerId # o THEN Answer(o, "conflict", {})
     ELSE Continue(o, [r EXCEPT !.pc = "resolved"]) /\ UNCHANGED <<row, ever, throws>>
  /\ UNCHANGED requests

\* The entry is read ...
archiveCatalogEntry(o) ==
  LET entry == row[CatalogEntry][req[o].entry] IN
  /\ Ends(o, "archive", CatalogEntry)
  /\ IF entry = None THEN Answer(o, "not_found", {})
     ELSE /\ Continue(o, [req[o] EXCEPT !.pc = "saving", !.found = entry])
          /\ UNCHANGED <<row, ever, throws>>

\* ... and saved as it was then, archived.
saveArchivedEntry(o) ==
  /\ req[o].op = "archive" /\ req[o].pc = "saving"
  /\ Save(o, CatalogEntry, archiveCrossRunAuditCatalogEntry(req[o].found))
  /\ UNCHANGED requests

\* The entry is read once more before its saved view is applied.
applyCatalogEntry(o) ==
  /\ Ends(o, "apply", Visibility)
  /\ IF req[o].pc = "resolved" /\ ~resolveCatalogEntry(row[CatalogEntry][req[o].entry])
     THEN Answer(o, "not_found", {}) ELSE View(o)

-----------------------------------------------------------------------------
(* The operator service: a request reaches it *)

Request(o, l, r) ==
  /\ req[o].pc = "idle" /\ l \in desk
  /\ requests < MaxRequests
  /\ requests' = requests + 1
  /\ Continue(o, r)
  /\ UNCHANGED <<row, ever, throws>>

\* The random id of an entry is known, to whoever reads it in the stores, once
\* its publisher is no longer busy with it.
Known(e) ==
  /\ row[CatalogEntry][e] # None
  /\ \A o \in Operators : req[o].op = "publish" => req[o].entry # e

About(o, op, l, e, input) ==
  Known(e) /\ Request(o, l, Requested(op, l, e, input, "walking", Top(op, l)))

Gets(o, e, l)   == About(o, "get", l, e, {})
Clears(o, e, l) == About(o, "clear", l, e, {})

SetsItems(o, e, l) == \E items \in SUBSET Items : About(o, "set", l, e, items)

\* A list reads the records of its layer first, and drops those of others.
Lists(o, l) ==
  LET listed == {e \in Entries : Resolves(l, row[l][e], o)} IN
  Request(o, l, [Requested("list", l, None, {}, "listing", l) EXCEPT
    !.todo = listed,
    !.got = [e \in Entries |-> [k \in Layers |->
               IF e \in listed /\ k = l THEN ItemsAt(l, e) ELSE {}]]])

saveSavedView(o, e) ==
  /\ req[o].pc = "idle" /\ SavedView \in desk
  /\ requests < MaxRequests
  /\ row[SavedView][e] = None
  /\ requests' = requests + 1
  /\ row' = [row EXCEPT ![SavedView][e] = "saved"]
  /\ Continue(o, Idle("done", {}))
  /\ UNCHANGED <<ever, throws>>

\* publishCatalogEntry: the saved view is read, then the entry gets a new id.
publishes(o, e) ==
  /\ row[CatalogEntry][e] = None
  /\ \A p \in Operators : req[p].op = "publish" => req[p].entry # e
  /\ Request(o, CatalogEntry,
       IF row[SavedView][e] = None THEN Idle("not_found", {})
       ELSE Requested("publish", CatalogEntry, e, {}, "creating", SavedView))

archives(o, e) ==
  /\ Known(e)
  /\ Request(o, CatalogEntry,
             Requested("archive", CatalogEntry, e, {}, "owning", SavedView))

applies(o, e)             == About(o, "apply", Visibility, e, {})
shareCatalogEntry(o, e)   == About(o, "set", Visibility, e, {"shared"})
unshareCatalogEntry(o, e) == About(o, "set", Visibility, e, {})

reviewCatalogEntry(o, e) == About(o, "set", ReviewSignal, e, {})

assignCatalogEntry(o, e) ==
  \/ About(o, "set", ReviewAssignment, e, {})
  \/ \E assignee \in Operators : About(o, "set", ReviewAssignment, e, {assignee})

checklistCatalogEntry(o, e)       == SetsItems(o, e, AssignmentChecklist)
progressCatalogEntry(o, e)        == SetsItems(o, e, ItemProgress)
blockCatalogEntry(o, e)           == SetsItems(o, e, ItemBlocker)
resolveCatalogEntryItems(o, e)    == SetsItems(o, e, ItemResolution)
verifyCatalogEntry(o, e)          == SetsItems(o, e, ItemVerification)
recordCatalogEntryEvidence(o, e)  == SetsItems(o, e, ItemEvidence)
attestCatalogEntry(o, e)          == SetsItems(o, e, ItemAttestation)
acknowledgeCatalogEntry(o, e)     == SetsItems(o, e, ItemAcknowledgment)
signOffCatalogEntry(o, e)         == SetsItems(o, e, ItemSignoff)

getCatalogVisibility(o, e)                       == Gets(o, e, Visibility)
getCatalogEntry(o, e)                            == Gets(o, e, Visibility)
getCatalogReviewSignal(o, e)                     == Gets(o, e, ReviewSignal)
getCatalogReviewAssignment(o, e)                 == Gets(o, e, ReviewAssignment)
getCatalogAssignmentChecklist(o, e)              == Gets(o, e, AssignmentChecklist)
getCatalogChecklistItemProgress(o, e)            == Gets(o, e, ItemProgress)
getCatalogChecklistItemBlocker(o, e)             == Gets(o, e, ItemBlocker)
getCatalogChecklistItemResolution(o, e)          == Gets(o, e, ItemResolution)
getCatalogChecklistItemVerification(o, e)        == Gets(o, e, ItemVerification)
getCatalogChecklistItemEvidence(o, e)            == Gets(o, e, ItemEvidence)
getCatalogChecklistItemAttestation(o, e)         == Gets(o, e, ItemAttestation)
getCatalogChecklistItemAcknowledgment(o, e)      == Gets(o, e, ItemAcknowledgment)
getCatalogChecklistItemSignoff(o, e)             == Gets(o, e, ItemSignoff)

clearCatalogReviewSignal(o, e)                     == Clears(o, e, ReviewSignal)
clearCatalogReviewAssignment(o, e)                 == Clears(o, e, ReviewAssignment)
clearCatalogAssignmentChecklist(o, e)              == Clears(o, e, AssignmentChecklist)
clearCatalogChecklistItemProgress(o, e)            == Clears(o, e, ItemProgress)
clearCatalogChecklistItemBlocker(o, e)             == Clears(o, e, ItemBlocker)
clearCatalogChecklistItemResolution(o, e)          == Clears(o, e, ItemResolution)
clearCatalogChecklistItemVerification(o, e)        == Clears(o, e, ItemVerification)
clearCatalogChecklistItemEvidence(o, e)            == Clears(o, e, ItemEvidence)
clearCatalogChecklistItemAttestation(o, e)         == Clears(o, e, ItemAttestation)
clearCatalogChecklistItemAcknowledgment(o, e)      == Clears(o, e, ItemAcknowledgment)
clearCatalogChecklistItemSignoff(o, e)             == Clears(o, e, ItemSignoff)

listVisibleCatalogEntries(o)       == Lists(o, Visibility)
listCatalogEntries(o)              == Lists(o, Visibility)
listReviewedCatalogEntries(o)      == Lists(o, ReviewSignal)
listAssignedCatalogEntries(o)      == Lists(o, ReviewAssignment)
listChecklistedCatalogEntries(o)   == Lists(o, AssignmentChecklist)
listProgressedCatalogEntries(o)    == Lists(o, ItemProgress)
listBlockedCatalogEntries(o)       == Lists(o, ItemBlocker)
listResolvedCatalogEntries(o)      == Lists(o, ItemResolution)
listVerifiedCatalogEntries(o)      == Lists(o, ItemVerification)
listEvidencedCatalogEntries(o)     == Lists(o, ItemEvidence)
listAttestedCatalogEntries(o)      == Lists(o, ItemAttestation)
listAcknowledgedCatalogEntries(o)  == Lists(o, ItemAcknowledgment)
listSignedOffCatalogEntries(o)     == Lists(o, ItemSignoff)

-----------------------------------------------------------------------------
Sets(o, e) ==
  \/ shareCatalogEntry(o, e) \/ unshareCatalogEntry(o, e)
  \/ reviewCatalogEntry(o, e) \/ assignCatalogEntry(o, e)
  \/ checklistCatalogEntry(o, e) \/ progressCatalogEntry(o, e)
  \/ blockCatalogEntry(o, e) \/ resolveCatalogEntryItems(o, e)
  \/ verifyCatalogEntry(o, e) \/ recordCatalogEntryEvidence(o, e)
  \/ attestCatalogEntry(o, e) \/ acknowledgeCatalogEntry(o, e)
  \/ signOffCatalogEntry(o, e)

Reads(o, e) ==
  \/ applies(o, e) \/ getCatalogVisibility(o, e) \/ getCatalogEntry(o, e)
  \/ getCatalogReviewSignal(o, e) \/ getCatalogReviewAssignment(o, e)
  \/ getCatalogAssignmentChecklist(o, e)
  \/ getCatalogChecklistItemProgress(o, e)
  \/ getCatalogChecklistItemBlocker(o, e)
  \/ getCatalogChecklistItemResolution(o, e)
  \/ getCatalogChecklistItemVerification(o, e)
  \/ getCatalogChecklistItemEvidence(o, e)
  \/ getCatalogChecklistItemAttestation(o, e)
  \/ getCatalogChecklistItemAcknowledgment(o, e)
  \/ getCatalogChecklistItemSignoff(o, e)

Clearings(o, e) ==
  \/ clearCatalogReviewSignal(o, e) \/ clearCatalogReviewAssignment(o, e)
  \/ clearCatalogAssignmentChecklist(o, e)
  \/ clearCatalogChecklistItemProgress(o, e)
  \/ clearCatalogChecklistItemBlocker(o, e)
  \/ clearCatalogChecklistItemResolution(o, e)
  \/ clearCatalogChecklistItemVerification(o, e)
  \/ clearCatalogChecklistItemEvidence(o, e)
  \/ clearCatalogChecklistItemAttestation(o, e)
  \/ clearCatalogChecklistItemAcknowledgment(o, e)
  \/ clearCatalogChecklistItemSignoff(o, e)

Listings(o) ==
  \/ listVisibleCatalogEntries(o) \/ listCatalogEntries(o)
  \/ listReviewedCatalogEntries(o)
  \/ listAssignedCatalogEntries(o) \/ listChecklistedCatalogEntries(o)
  \/ listProgressedCatalogEntries(o) \/ listBlockedCatalogEntries(o)
  \/ listResolvedCatalogEntries(o) \/ listVerifiedCatalogEntries(o)
  \/ listEvidencedCatalogEntries(o) \/ listAttestedCatalogEntries(o)
  \/ listAcknowledgedCatalogEntries(o) \/ listSignedOffCatalogEntries(o)

Queries(o) ==
  \/ CatalogVisibilityQuery(o) \/ CatalogReviewSignalQuery(o)
  \/ CatalogReviewAssignmentQuery(o) \/ CatalogAssignmentChecklistQuery(o)
  \/ CatalogChecklistItemProgressQuery(o)
  \/ CatalogChecklistItemBlockerQuery(o)
  \/ CatalogChecklistItemResolutionQuery(o)
  \/ CatalogChecklistItemVerificationQuery(o)
  \/ CatalogChecklistItemEvidenceQuery(o)
  \/ CatalogChecklistItemAttestationQuery(o)
  \/ CatalogChecklistItemAcknowledgmentQuery(o)
  \/ CatalogChecklistItemSignoffQuery(o)

Settings(o) ==
  \/ setCatalogVisibilityState(o) \/ setCatalogReviewSignal(o)
  \/ setCatalogReviewAssignment(o) \/ setCatalogAssignmentChecklist(o)
  \/ setCatalogChecklistItemProgress(o) \/ setCatalogChecklistItemBlocker(o)
  \/ setCatalogChecklistItemResolution(o)
  \/ setCatalogChecklistItemVerification(o)
  \/ setCatalogChecklistItemEvidence(o)
  \/ setCatalogChecklistItemAttestation(o)
  \/ setCatalogChecklistItemAcknowledgment(o)
  \/ setCatalogChecklistItemSignoff(o)

Publishing(o) ==
  \/ publishCatalogEntry(o) \/ saveCatalogVisibility(o)
  \/ requireOwnedCatalogVisibility(o) \/ archiveCatalogEntry(o)
  \/ saveArchivedEntry(o) \/ applyCatalogEntry(o)

\* The guards every request has, tested once.
Arrives(o) ==
  /\ req[o].pc = "idle" /\ requests < MaxRequests
  /\ \/ Listings(o)
     \/ \E e \in Entries : \/ saveSavedView(o, e) \/ publishes(o, e) \/ archives(o, e)
                           \/ Sets(o, e) \/ Reads(o, e) \/ Clearings(o, e)

Step(o) ==
  \/ Arrives(o) \/ ListNext(o)
  \/ Walk(o) \/ Queries(o) \/ Settings(o) \/ Publishing(o)
  \/ StoreThrows(o) \/ Dies(o)

Next == /\ \E o \in Operators : Step(o)
        /\ Remember /\ RememberCut
        /\ UNCHANGED desk

Spec == Init /\ [][Next]_vars

-----------------------------------------------------------------------------
(* Properties *)

RequestType ==
  [op : Ops, layer : Layers, entry : Entries \cup {None},
   input : SUBSET (Items \cup Operators \cup {"shared"}),
   pc : Pcs, at : Layers, got : [Entries -> [Layers -> SUBSET Items]],
   todo : SUBSET Entries, shown : SUBSET Entries,
   found : EntryRecord \cup VisibilityRecord \cup {None}, answer : Answers]

\* The state is well typed, and a layer holds records of its own kind.
TypeOK ==
  /\ \A l \in Layers, e \in Entries : row[l][e] \in RecordOf(l) \cup {None}
  /\ req \in [Operators -> RequestType]
  /\ desk \subseteq Layers
  /\ ever \in [ListLayers -> [Entries -> SUBSET Items]]
  /\ cut \subseteq Entries
  /\ entitled \in [Operators -> [visible : SUBSET Entries, party : SUBSET Entries]]
  /\ requests \in 0 .. MaxRequests /\ throws \in 0 .. MaxThrows

\* Provenance: an item recorded on a layer was, at some time, recorded on the
\* layer below it, whatever sets and clears ran between the walk of the set
\* and its save; so every item signed off was once on the checklist.
ItemsTraced ==
  \A l \in ItemLayers, e \in Entries :
    row[l][e] # None => row[l][e].items \subseteq ever[l - 1][e]

\* An entry without an owner record, which nobody can be shown, list or
\* archive, is a legacy entry, one being published, or one whose publishing was
\* cut off by a store or by the death of its process: the second half of a
\* publish (setCatalogVisibilityState) fails in no other way.
OrphanOnlyWhenCutOff ==
  \A e \in Entries :
    row[CatalogEntry][e] # None /\ row[Visibility][e] = None
      => e \in cut \/ \E o \in Operators : req[o].op = "publish" /\ req[o].entry = e

Answered(o) == req[o].pc # "idle" /\ req'[o].pc = "idle"

Entitles(o, l, e) == /\ e \in entitled[o].visible
                     /\ l >= ReviewAssignment => e \in entitled[o].party

\* What a request is answered about, and what it clears, ...
Reveals(o) ==
  Answered(o) /\ req[o].op \in {"get", "list", "clear", "apply"} =>
    /\ \A e \in req'[o].shown : Entitles(o, req[o].layer, e)
    /\ row' # row => Entitles(o, req[o].layer, req[o].entry)

\* ... and what a set records something on.
Records(o) ==
  req[o].op = "set" /\ req[o].layer > Visibility /\ row' # row /\ req'[o] # req[o]
    => Entitles(o, req[o].layer - 1, req[o].entry)

\* A request shows, clears and sets only what was visible to its operator,
\* unarchived, at some moment of the request; from the assignment on he was
\* also assigner or assignee at some moment of it.  An error of an unreadable
\* record counts: it never reaches a stranger's request.
OnlyEntitled == [][\A o \in Operators : Reveals(o) /\ Records(o)]_vars

\* Requests that will save the owner record or the entry, as they have already
\* found that they may.
MayDecide(o, e) ==
  /\ req[o].entry = e
  /\ \/ SetsVisibility(o) /\ req[o].pc = "saving"
     \/ req[o].op = "archive" /\ req[o].pc \in {"resolved", "saving"}

Settled(e) == \A o \in Operators : MayDecide(o, e) => row[Visibility][e].ownerId = o

\* An entry keeps its owner for ever, and only he shares, unshares or
\* archives it, whatever the other requests in flight have read of it.  One that
\* was legacy or cut off may go from one operator who shares it to another who
\* found it without an owner as well, and belongs to the last of them.
OnlyOwnerDecides ==
  [][\A e \in Entries : row[Visibility][e] # None /\ (e \in cut => Settled(e)) =>
       LET owner == row[Visibility][e].ownerId IN
       /\ row'[Visibility][e] # None /\ row'[Visibility][e].ownerId = owner
       /\ Settled(e)'
       /\ \A l \in {Visibility, CatalogEntry} :
            row'[l][e] # row[l][e] => req'[owner] # req[owner]]_vars

\* An archived entry stays archived, though an archive writes back the entry
\* it has read.
ArchivedForGood ==
  [][\A e \in Entries : row[CatalogEntry][e] # None =>
       /\ row'[CatalogEntry][e] # None
       /\ row[CatalogEntry][e].archived => row'[CatalogEntry][e].archived]_vars

\* A request fails with an internal error, no store having thrown, only over an
\* item that it has read on a layer and not on the layer below, which has held
\* it: a later set or a clear took it from there.  As long as layers only grow
\* every walk resolves, and an entry is mended by setting its layers again from
\* the bottom up.
CrashOnlyAfterLoss ==
  [][\A o \in Operators : Answered(o) /\ req'[o].answer = "crash" /\ throws' = throws =>
       \E e \in req'[o].shown, l \in ItemLayers :
         /\ l <= Top(req[o].op, req[o].layer)
         /\ \E item \in ever[l - 1][e] :
              item \in req[o].got[e][l] /\ item \notin req[o].got[e][l - 1]]_vars
=============================================================================
