------------------------- MODULE AuditCatalogProofs -------------------------
(***************************************************************************)
(* Proofs about AuditCatalog for any operators, entries, items, desks and  *)
(* number of requests.                                                     *)
(***************************************************************************)
EXTENDS AuditCatalog, TLAPS

USE LayersAssumption, NoneAssumption, CatalogAssumption
USE DEF SavedView, CatalogEntry, Visibility, ReviewSignal, ReviewAssignment,
        AssignmentChecklist, ItemProgress, ItemBlocker, ItemResolution,
        ItemVerification, ItemEvidence, ItemAttestation, ItemAcknowledgment,
        ItemSignoff, Layers, ListLayers, ItemLayers

-----------------------------------------------------------------------------
(* The inductive invariant *)

LayerRecords  == UNION {RecordOf(l) : l \in Layers}
AnyRecord    == LayerRecords \cup {None}

\* The stores are functions, and a layer's records are its own.
Stores ==
  /\ row \in [Layers -> [Entries -> AnyRecord]]
  /\ \A l \in Layers, e \in Entries : row[l][e] \in RecordOf(l) \cup {None}
  /\ ever \in [ListLayers -> [Entries -> SUBSET Items]]

\* What a layer holds it has held, and its items were once in the layer below.
Traced ==
  /\ \A l \in ListLayers, e \in Entries : ItemsAt(l, e) \subseteq ever[l][e]
  /\ \A l \in ItemLayers, e \in Entries : ItemsAt(l, e) \subseteq ever[l - 1][e]

Pending(e) == row[CatalogEntry][e] = None

\* An owner record is saved after its entry.
EntriesFirst == \A e \in Entries : row[Visibility][e] # None => ~Pending(e)

Publishes(p, e) == req[p].op = "publish" /\ req[p].entry = e

\* Where a request can be, by what it is about.
PcsOf(op) == CASE op = "none"    -> {"idle"}
               [] op = "list"    -> {"listing", "walking", "resolved", "missing"}
               [] op = "publish" -> {"creating", "walking", "resolved", "saving"}
               [] op = "archive" -> {"owning", "resolved", "saving"}
               [] op = "set"     -> {"walking", "resolved", "missing", "saving"}
               [] OTHER          -> {"walking", "resolved", "missing"}

Shape(r) ==
  /\ r \in RequestType
  /\ r.pc \in PcsOf(r.op)
  /\ r.pc \notin {"idle", "listing"} => r.entry \in Entries
  /\ r.op = "list" => r.layer \in Visibility .. ItemSignoff
  /\ r.op = "set" /\ r.layer = ReviewAssignment => r.input \subseteq Operators
  /\ r.op = "set" /\ r.layer \in ListLayers => r.input \subseteq Items

\* What a request has read was there, and its items in the layer below before.
Read(r) ==
  /\ \A l \in ListLayers, e \in Entries : r.got[e][l] \subseteq ever[l][e]
  /\ \A l \in ItemLayers, e \in Entries : r.got[e][l] \subseteq ever[l - 1][e]

\* What a request relies on when it writes an entry or its owner: an entry that
\* is being published is in nobody else's hands.
Owns(o, r) ==
  /\ r.op \in {"get", "set", "clear", "apply", "archive"} => Known(r.entry)
  /\ r.op = "archive" /\ r.pc = "saving" => r.found \in EntryRecord
  /\ r.op = "set" /\ r.pc = "saving" =>
       /\ r.layer = Visibility
       /\ r.found \in VisibilityRecord \cup {None}
       /\ r.found # None => r.found.ownerId = o
  /\ r.op = "publish" =>
       /\ row[SavedView][r.entry] # None /\ row[Visibility][r.entry] = None
       /\ (r.pc = "creating") = Pending(r.entry)
       /\ ~Pending(r.entry) => ~row[CatalogEntry][r.entry].archived
       /\ r.at \in {SavedView, CatalogEntry}
       /\ r.pc = "saving" => r.found = None

Good(o, r) == Shape(r) /\ Read(r) /\ Owns(o, r)

\* No entry is published twice.
Alone == \A o, p \in Operators :
           req[o].op = "publish" /\ req[p].op = "publish" /\ req[o].entry = req[p].entry
             => o = p

\* Whoever publishes an entry gives it its owner, unless he is cut off; whoever
\* is about to decide on an entry that was not cut off is its owner.
Tidy == \A e \in Entries :
  /\ ~Pending(e) /\ row[Visibility][e] = None =>
       e \in cut \/ \E p \in Operators : Publishes(p, e)
  /\ row[Visibility][e] # None /\ e \notin cut => Settled(e)

Counters ==
  /\ desk \subseteq Layers /\ cut \subseteq Entries
  /\ entitled \in [Operators -> [visible : SUBSET Entries, party : SUBSET Entries]]
  /\ requests \in 0 .. MaxRequests /\ throws \in 0 .. MaxThrows

IInv ==
  /\ Stores /\ Traced /\ EntriesFirst /\ Counters
  /\ req \in [Operators -> RequestType]
  /\ \A o \in Operators : Good(o, req[o])
  /\ Alone /\ Tidy

-----------------------------------------------------------------------------
(* Records of a request *)

LEMMA RequestFields ==
  ASSUME NEW r \in RequestType
  PROVE  /\ r.op \in Ops /\ r.layer \in Layers /\ r.entry \in Entries \cup {None}
         /\ r.input \in SUBSET (Items \cup Operators \cup {"shared"})
         /\ r.pc \in Pcs /\ r.at \in Layers
         /\ r.got \in [Entries -> [Layers -> SUBSET Items]]
         /\ r.todo \in SUBSET Entries /\ r.shown \in SUBSET Entries
         /\ r.answer \in Answers
         /\ r.found \in EntryRecord \cup VisibilityRecord \cup {None}
BY DEF RequestType

LEMMA RequestedFields ==
  ASSUME NEW op \in Ops, NEW l \in Layers, NEW e \in Entries \cup {None},
         NEW input \in SUBSET (Items \cup Operators \cup {"shared"}),
         NEW pc \in Pcs, NEW at \in Layers
  PROVE  /\ Requested(op, l, e, input, pc, at) \in RequestType
         /\ Requested(op, l, e, input, pc, at).op = op
         /\ Requested(op, l, e, input, pc, at).layer = l
         /\ Requested(op, l, e, input, pc, at).entry = e
         /\ Requested(op, l, e, input, pc, at).input = input
         /\ Requested(op, l, e, input, pc, at).pc = pc
         /\ Requested(op, l, e, input, pc, at).got = Nothing
<1>1. Nothing \in [Entries -> [Layers -> SUBSET Items]]
  BY DEF Nothing
<1>2. "none" \in Answers
  BY DEF Answers
<1> QED BY <1>1, <1>2 DEF Requested, RequestType

\* An idle request is good in every state.
LEMMA IdleIsGood ==
  ASSUME NEW o \in Operators, NEW answer \in Answers, NEW shown \in SUBSET Entries,
         NEW r, r = Idle(answer, shown)
  PROVE  /\ r \in RequestType /\ r.op = "none" /\ r.pc = "idle"
         /\ Good(o, r) /\ Good(o, r)'
<1> DEFINE q == Requested("none", SavedView, None, {}, "idle", SavedView)
<1>1. "none" \in Ops /\ "idle" \in Pcs
  BY DEF Ops, Pcs
<1>2. q \in RequestType /\ q.op = "none" /\ q.pc = "idle" /\ q.got = Nothing /\ q.input = {}
  BY <1>1, RequestedFields
<1>3. r = [q EXCEPT !.answer = answer, !.shown = shown]
  BY DEF Idle
<1> HIDE DEF q
<1>4. r \in RequestType /\ r.op = "none" /\ r.pc = "idle" /\ r.got = Nothing
  BY <1>2, <1>3 DEF RequestType
<1>5. Shape(r)
  BY <1>4 DEF Shape, PcsOf
<1>6. \A e \in Entries, l \in ListLayers : r.got[e][l] = {}
  BY <1>4 DEF Nothing
<1>7. Read(r) /\ Read(r)'
  BY <1>6 DEF Read
<1>8. Owns(o, r) /\ Owns(o, r)'
  BY <1>4 DEF Owns
<1> QED BY <1>4, <1>5, <1>7, <1>8 DEF Good, Shape

-----------------------------------------------------------------------------
(* Steps that write nothing, and steps that write one record *)

LEMMA RememberTyped ==
  ASSUME IInv, Remember
  PROVE  entitled' \in [Operators -> [visible : SUBSET Entries, party : SUBSET Entries]]
<1> DEFINE Both == [visible : SUBSET Entries, party : SUBSET Entries]
<1>1. \A o \in Operators : VisibleTo(o)' \in SUBSET Entries /\ PartyOf(o)' \in SUBSET Entries
  BY DEF VisibleTo, PartyOf
<1>2. \A o \in Operators : entitled[o].visible \in SUBSET Entries
                           /\ entitled[o].party \in SUBSET Entries
  <2>1. entitled \in [Operators -> Both]
    BY DEF IInv, Counters
  <2> QED BY <2>1
<1>3. NotEntitled \in Both
  BY DEF NotEntitled
<1>4. \A o \in Operators :
        [visible |-> entitled[o].visible \cup VisibleTo(o)',
         party   |-> entitled[o].party \cup PartyOf(o)'] \in Both
  BY <1>1, <1>2
<1> QED BY <1>3, <1>4 DEF Remember

\* What ArchivedForGood and OnlyOwnerDecides say of one step.
KeepsArchived ==
  \A e \in Entries : row[CatalogEntry][e] # None =>
    /\ row'[CatalogEntry][e] # None
    /\ row[CatalogEntry][e].archived => row'[CatalogEntry][e].archived

KeepsOwners ==
  \A e \in Entries : row[Visibility][e] # None /\ Settled(e) =>
    LET owner == row[Visibility][e].ownerId IN
    /\ row'[Visibility][e] # None /\ row'[Visibility][e].ownerId = owner
    /\ Settled(e)'
    /\ \A l \in {Visibility, CatalogEntry} :
         row'[l][e] # row[l][e] => req'[owner] # req[owner]

Counted == /\ requests' \in 0 .. MaxRequests /\ throws' \in 0 .. MaxThrows
           /\ Remember /\ RememberCut /\ UNCHANGED desk

\* What the request r that o has next may be: it publishes nothing that another
\* one publishes, ...
StaysAlone(o, r) ==
  r.op = "publish" =>
    \/ req[o].op = "publish" /\ req[o].entry = r.entry
    \/ Pending(r.entry) /\ \A p \in Operators : ~Publishes(p, r.entry)

\* ... what o publishes it goes on with, unless it has an owner or is cut off, ...
StaysTidy(o, r) ==
  req[o].op = "publish" =>
    \/ r.op = "publish" /\ r.entry = req[o].entry
    \/ req[o].entry \in cut'
    \/ row'[Visibility][req[o].entry] # None

\* ... and it comes to decide on an entry only as its owner.
Decides(r) ==
  \/ /\ r.op = "publish" \/ (r.op = "set" /\ r.layer = Visibility)
     /\ r.pc = "saving"
  \/ r.op = "archive" /\ r.pc \in {"resolved", "saving"}

StaysSettled(o, r) ==
  Decides(r) => \/ Decides(req[o]) /\ req[o].entry = r.entry
                \/ row[Visibility][r.entry] # None =>
                     row[Visibility][r.entry].ownerId = o

GoodNext(o, r) == StaysAlone(o, r) /\ StaysTidy(o, r) /\ StaysSettled(o, r)

LEMMA AloneKept ==
  ASSUME IInv, NEW o \in Operators, NEW r, StaysAlone(o, r), Continue(o, r)
  PROVE  Alone'
<1>1. \A p \in Operators : req'[p] = IF p = o THEN r ELSE req[p]
  BY DEF IInv, Continue
<1> QED BY <1>1 DEF IInv, Alone, StaysAlone, Publishes

\* Only publishers that are cut off make an entry count as cut off.
LEMMA CutTyped ==
  ASSUME IInv, RememberCut
  PROVE  cut \subseteq cut' /\ cut' \subseteq Entries
<1>1. \A p \in Operators : CutOff(p) => req[p].entry \in Entries
  BY DEF IInv, Good, Shape, PcsOf, CutOff
<1> QED BY <1>1 DEF RememberCut, IInv, Counters

LEMMA MayDecideIs ==
  ASSUME NEW o \in Operators, NEW e
  PROVE  MayDecide(o, e) <=> req[o].entry = e /\ Decides(req[o])
BY DEF MayDecide, Decides, SetsVisibility

\* A known entry is not published once more.
LEMMA KnownStays ==
  ASSUME IInv, NEW o \in Operators, NEW r, StaysAlone(o, r), Continue(o, r),
         NEW e \in Entries, Known(e), ~Pending(e)'
  PROVE  Known(e)'
<1>1. \A p \in Operators : req'[p] = IF p = o THEN r ELSE req[p]
  BY DEF IInv, Continue
<1> QED BY <1>1 DEF StaysAlone, Known, Pending

LEMMA QuietStep ==
  ASSUME IInv, NEW o \in Operators, NEW r, Good(o, r), GoodNext(o, r),
         Continue(o, r), UNCHANGED <<row, ever>>, Counted
  PROVE  IInv' /\ KeepsArchived /\ KeepsOwners
<1>1. r \in RequestType
  BY DEF Good, Shape
<1>2. req' \in [Operators -> RequestType]
  BY <1>1 DEF IInv, Continue
<1>3. \A p \in Operators : req'[p] = IF p = o THEN r ELSE req[p]
  BY DEF IInv, Continue
<1>4. \A p \in Operators : Good(p, req[p])
  BY DEF IInv
<1>5. ASSUME NEW p \in Operators
      PROVE  Good(p, req[p])'
  <2>1. Good(p, req'[p])
    BY <1>3, <1>4
  <2>2. PICK q : q = req'[p]
    OBVIOUS
  <2>3. Good(p, q)
    BY <2>1, <2>2
  <2>4. q.op \in {"get", "set", "clear", "apply", "archive"} => q.entry \in Entries
    BY <2>3, RequestFields DEF Good, Shape, PcsOf
  <2>5. q.op \in {"get", "set", "clear", "apply", "archive"} => Known(q.entry)'
    BY <2>3, <2>4, KnownStays DEF Good, Owns, GoodNext, Known, Pending
  <2>6. Owns(p, q)'
    BY <2>3, <2>5 DEF Good, Owns, Pending
  <2>7. Good(p, q)'
    BY <2>3, <2>6 DEF Good, Read
  <2> QED BY <2>2, <2>7 DEF Good, Read, Owns, Known, Pending
<1>6. Alone'
  BY AloneKept DEF GoodNext
<1>7. Stores' /\ Traced' /\ EntriesFirst'
  BY DEF IInv, Stores, Traced, EntriesFirst, ItemsAt, Pending
<1>8. Counters'
  BY RememberTyped, CutTyped DEF IInv, Counters, Counted
<1>9. ASSUME NEW e \in Entries, row[Visibility][e] # None, Settled(e)
      PROVE  Settled(e)'
  <2>1. ASSUME NEW p \in Operators, MayDecide(p, e)'
        PROVE  row[Visibility][e].ownerId = p
    <3>1. req'[p].entry = e /\ Decides(req'[p])
      BY <2>1 DEF MayDecide, Decides, SetsVisibility
    <3>2. CASE p # o
      BY <1>3, <1>9, <3>1, <3>2, MayDecideIs DEF Settled
    <3>3. CASE p = o
      BY <1>3, <1>9, <3>1, <3>3, MayDecideIs DEF Settled, GoodNext, StaysSettled
    <3> QED BY <3>2, <3>3
  <2> QED BY <2>1 DEF Settled
<1>10. Tidy'
  <2>1. ASSUME NEW e \in Entries, ~Pending(e)', row'[Visibility][e] = None
        PROVE  e \in cut' \/ \E p \in Operators : Publishes(p, e)'
    <3>1. e \in cut \/ \E p \in Operators : Publishes(p, e)
      BY <2>1 DEF IInv, Tidy, Pending
    <3>2. ASSUME NEW p \in Operators, Publishes(p, e)
          PROVE  e \in cut' \/ Publishes(p, e)'
      BY <1>3, <2>1, <3>2 DEF GoodNext, StaysTidy, Publishes
    <3> QED BY <3>1, <3>2, CutTyped DEF Counted
  <2>2. ASSUME NEW e \in Entries, row'[Visibility][e] # None, e \notin cut'
        PROVE  Settled(e)'
    BY <1>9, <2>2, CutTyped DEF IInv, Tidy, Counted
  <2> QED BY <2>1, <2>2 DEF Tidy
<1>11. IInv'
  BY <1>2, <1>5, <1>6, <1>7, <1>8, <1>10 DEF IInv
<1>12. KeepsArchived
  BY DEF KeepsArchived
<1>13. KeepsOwners
  BY <1>9 DEF KeepsOwners
<1> QED BY <1>11, <1>12, <1>13

\* The records that may be written: an owner's on his own entry, and on one he
\* publishes; items that the layer below has held.
MayWrite(o, l, e, rec) ==
  /\ rec \in RecordOf(l) \cup {None}
  /\ l \in {SavedView, Visibility, CatalogEntry} => rec # None
  /\ l \in {Visibility, CatalogEntry} => /\ req[o].entry = e
                                         /\ req[o].op = "publish" \/ Known(e)
  /\ l = Visibility => ~Pending(e) /\ Decides(req[o]) /\ rec.ownerId = o
  /\ l = CatalogEntry => IF Pending(e) THEN req[o].op = "publish"
                         ELSE req[o].op # "publish" /\ rec.archived /\ Decides(req[o])
  /\ l \in ItemLayers /\ rec # None => rec.items \subseteq ever[l - 1][e]

LEMMA ListRecords ==
  ASSUME NEW l \in ListLayers
  PROVE  RecordOf(l) = ItemsRecord
BY DEF RecordOf

LEMMA AnyRecords ==
  ASSUME NEW l \in Layers
  PROVE  RecordOf(l) \cup {None} \subseteq AnyRecord
<1>1. RecordOf(l) \subseteq LayerRecords
  BY DEF LayerRecords
<1> QED BY <1>1 DEF AnyRecord

LEMMA WriteStep ==
  ASSUME IInv, NEW o \in Operators, NEW l \in Layers, NEW e \in Entries, NEW rec, NEW r,
         MayWrite(o, l, e, rec),
         row' = [row EXCEPT ![l][e] = rec],
         ever' = IF l \in ListLayers /\ rec # None
                 THEN [ever EXCEPT ![l][e] = @ \cup rec.items] ELSE ever,
         Continue(o, r), Good(o, r)', GoodNext(o, r),
         l \in {Visibility, CatalogEntry} => r.pc # req[o].pc,
         Counted
  PROVE  IInv' /\ KeepsArchived /\ KeepsOwners
<1>0. /\ row \in [Layers -> [Entries -> AnyRecord]]
      /\ ever \in [ListLayers -> [Entries -> SUBSET Items]]
      /\ req \in [Operators -> RequestType]
  BY DEF IInv, Stores
<1>1. \A k \in Layers, f \in Entries :
        row'[k][f] = IF k = l /\ f = e THEN rec ELSE row[k][f]
  BY <1>0
<1>2. rec \in AnyRecord
  <2>1. rec \in RecordOf(l) \cup {None}
    BY DEF MayWrite
  <2> QED BY <2>1, AnyRecords
<1>3. row' \in [Layers -> [Entries -> AnyRecord]]
  BY <1>0, <1>2
<1>4. l \in ListLayers /\ rec # None => rec.items \subseteq Items
  <2>1. rec \in RecordOf(l) \cup {None}
    BY DEF MayWrite
  <2>2. ASSUME l \in ListLayers, rec # None
        PROVE  rec.items \subseteq Items
    <3>1. rec \in ItemsRecord
      BY <2>1, <2>2, ListRecords
    <3> QED BY <3>1 DEF ItemsRecord
  <2> QED BY <2>2
<1>5. ever' \in [ListLayers -> [Entries -> SUBSET Items]]
  BY <1>0, <1>4
<1>6. \A k \in ListLayers, f \in Entries : ever[k][f] \subseteq ever'[k][f]
  BY <1>0
<1>7. l \in ListLayers /\ rec # None => rec.items \subseteq ever'[l][e]
  BY <1>0
<1>8. Stores'
  BY <1>1, <1>3, <1>5 DEF IInv, Stores, MayWrite
<1>9. \A k \in Layers, f \in Entries :
        ItemsAt(k, f)' = IF k = l /\ f = e
                         THEN (IF l \in ListLayers /\ rec # None THEN rec.items ELSE {})
                         ELSE ItemsAt(k, f)
  BY <1>1 DEF ItemsAt
<1>10. Traced'
  <2>1. ASSUME NEW k \in ListLayers, NEW f \in Entries
        PROVE  ItemsAt(k, f)' \subseteq ever'[k][f]
    BY <1>6, <1>7, <1>9 DEF IInv, Traced
  <2>2. ASSUME NEW k \in ItemLayers, NEW f \in Entries
        PROVE  ItemsAt(k, f)' \subseteq ever'[k - 1][f]
    <3>1. k - 1 \in ListLayers
      OBVIOUS
    <3> QED BY <3>1, <1>6, <1>9 DEF IInv, Traced, MayWrite
  <2> QED BY <2>1, <2>2 DEF Traced
<1>11. /\ \A f \in Entries : Pending(f)' => Pending(f)
       /\ \A f \in Entries : Known(f) => ~Pending(f)
  BY <1>1 DEF MayWrite, Known, Pending
<1>12. EntriesFirst'
  BY <1>1 DEF IInv, EntriesFirst, MayWrite, Pending
<1>13. \A p \in Operators : req'[p] = IF p = o THEN r ELSE req[p]
  BY <1>0 DEF Continue
<1>14. ASSUME NEW p \in Operators, p # o
       PROVE  Good(p, req[p])'
  <2>1. PICK q : q = req[p]
    OBVIOUS
  <2>2. Good(p, q) /\ req'[p] = q
    BY <2>1, <1>13, <1>14 DEF IInv
  <2>3. q \in RequestType /\ q.entry \in Entries \cup {None}
    BY <2>2, RequestFields DEF Good, Shape
  <2>4. Read(q)'
    BY <2>2, <1>6 DEF Good, Read
  <2>5. q.op = "publish" => q.entry \in Entries
    BY <2>2 DEF Good, Shape, PcsOf
  <2>6. q.op = "publish" /\ req[o].op = "publish" => q.entry # req[o].entry
    BY <2>1, <1>14 DEF IInv, Alone
  <2>7. CASE q.op = "publish"
    <3>1. ~Known(q.entry)
      BY <2>1, <2>7 DEF Known
    <3>2. l \in {Visibility, CatalogEntry} => e # q.entry
      BY <2>6, <2>7, <3>1 DEF MayWrite
    <3>3. /\ row'[Visibility][q.entry] = row[Visibility][q.entry]
          /\ row'[CatalogEntry][q.entry] = row[CatalogEntry][q.entry]
          /\ row[SavedView][q.entry] # None => row'[SavedView][q.entry] # None
      BY <1>1, <2>5, <2>7, <3>2 DEF MayWrite
    <3>4. Owns(p, q)'
      BY <2>2, <2>7, <3>3 DEF Good, Owns, Pending
    <3> QED BY <2>2, <2>4, <3>4 DEF Good
  <2>8. CASE q.op # "publish"
    <3>1. q.op \in {"get", "set", "clear", "apply", "archive"} => q.entry \in Entries
      BY <2>2, <2>3 DEF Good, Shape, PcsOf
    <3>2. q.op \in {"get", "set", "clear", "apply", "archive"} => Known(q.entry)'
      BY <2>2, <3>1, <1>11, KnownStays DEF Good, Owns, GoodNext
    <3>3. Owns(p, q)'
      BY <2>2, <2>8, <3>2 DEF Good, Owns
    <3> QED BY <2>2, <2>4, <3>3 DEF Good
  <2> QED BY <2>7, <2>8
<1>15. Good(o, req[o])'
  BY <1>13 DEF Good, Read, Owns, Known, Pending
<1>16. req' \in [Operators -> RequestType]
  <2>1. r \in RequestType
    BY DEF Good, Shape
  <2> QED BY <2>1, <1>0 DEF Continue
<1>17. Alone'
  BY AloneKept DEF GoodNext
<1>18. Counters'
  BY RememberTyped, CutTyped DEF IInv, Counters, Counted
<1>19. ASSUME NEW f \in Entries, row[Visibility][f] # None, Settled(f)
       PROVE  /\ row'[Visibility][f] # None
              /\ row'[Visibility][f].ownerId = row[Visibility][f].ownerId
              /\ Settled(f)'
              /\ \A k \in {Visibility, CatalogEntry} :
                   row'[k][f] # row[k][f] => row[Visibility][f].ownerId = o
  <2>1. Decides(req[o]) /\ req[o].entry = f => row[Visibility][f].ownerId = o
    BY <1>19, MayDecideIs DEF Settled
  <2>2. ~Pending(f)
    BY <1>19 DEF IInv, EntriesFirst
  <2>3. /\ row'[Visibility][f] # None
        /\ row'[Visibility][f].ownerId = row[Visibility][f].ownerId
    BY <1>1, <1>19, <2>1 DEF MayWrite
  <2>4. ASSUME NEW k \in {Visibility, CatalogEntry}, row'[k][f] # row[k][f]
        PROVE  row[Visibility][f].ownerId = o
    BY <1>1, <2>1, <2>2, <2>4 DEF MayWrite
  <2>5. ASSUME NEW p \in Operators, MayDecide(p, f)'
        PROVE  row[Visibility][f].ownerId = p
    <3>1. req'[p].entry = f /\ Decides(req'[p])
      BY <2>5 DEF MayDecide, Decides, SetsVisibility
    <3>2. CASE p # o
      BY <1>13, <1>19, <3>1, <3>2, MayDecideIs DEF Settled
    <3>3. CASE p = o
      BY <1>13, <1>19, <2>1, <3>1, <3>3 DEF GoodNext, StaysSettled
    <3> QED BY <3>2, <3>3
  <2>6. Settled(f)'
    BY <2>3, <2>5 DEF Settled
  <2> QED BY <2>3, <2>4, <2>6
<1>20. Tidy'
  <2>1. ASSUME NEW f \in Entries, ~Pending(f)', row'[Visibility][f] = None
        PROVE  f \in cut' \/ \E p \in Operators : Publishes(p, f)'
    <3>1. row[Visibility][f] = None
      BY <1>1, <2>1 DEF MayWrite
    <3>2. f \in cut \/ \E p \in Operators : Publishes(p, f)
      <4>1. CASE ~Pending(f)
        BY <3>1, <4>1 DEF IInv, Tidy
      <4>2. CASE Pending(f)
        BY <1>1, <2>1, <4>2 DEF MayWrite, Publishes, Known, Pending
      <4> QED BY <4>1, <4>2
    <3>3. ASSUME NEW p \in Operators, Publishes(p, f)
          PROVE  f \in cut' \/ Publishes(p, f)'
      BY <1>13, <2>1, <3>3 DEF GoodNext, StaysTidy, Publishes
    <3> QED BY <3>2, <3>3, CutTyped DEF Counted
  <2>2. ASSUME NEW f \in Entries, row'[Visibility][f] # None, f \notin cut'
        PROVE  Settled(f)'
    <3>1. f \notin cut
      BY <2>2, CutTyped DEF Counted
    <3>2. CASE row[Visibility][f] # None
      BY <1>19, <3>1, <3>2 DEF IInv, Tidy
    <3>3. CASE row[Visibility][f] = None
      <4>1. /\ l = Visibility /\ f = e /\ req[o].entry = f /\ ~Pending(f)
            /\ rec.ownerId = o /\ row'[Visibility][f] = rec
            /\ req[o].op = "publish" \/ Known(f)
        BY <1>1, <2>2, <3>3 DEF MayWrite
      <4>2. PICK p \in Operators : Publishes(p, f)
        BY <3>1, <3>3, <4>1 DEF IInv, Tidy
      <4>3. p = o
        BY <4>1, <4>2 DEF IInv, Alone, Known, Publishes
      <4>4. ASSUME NEW q \in Operators, MayDecide(q, f)', q # o
            PROVE  FALSE
        <5>1. req[q].entry = f /\ Decides(req[q])
          BY <1>13, <4>4 DEF MayDecide, Decides, SetsVisibility
        <5>2. req[q].op = "publish" \/ Known(f)
          BY <5>1 DEF IInv, Good, Owns, Decides
        <5> QED BY <4>2, <4>3, <4>4, <5>1, <5>2 DEF IInv, Alone, Known, Publishes
      <4> QED BY <4>1, <4>4 DEF Settled
    <3> QED BY <3>2, <3>3
  <2> QED BY <2>1, <2>2 DEF Tidy
<1>21. IInv'
  BY <1>8, <1>10, <1>12, <1>14, <1>15, <1>16, <1>17, <1>18, <1>20 DEF IInv
<1>22. KeepsArchived
  BY <1>1 DEF KeepsArchived, MayWrite, Pending
<1>23. KeepsOwners
  <2>1. l \in {Visibility, CatalogEntry} => req'[o] # req[o]
    BY <1>13
  <2> QED BY <1>1, <1>19, <2>1 DEF KeepsOwners
<1> QED BY <1>21, <1>22, <1>23

-----------------------------------------------------------------------------
(* The ways a step ends *)

Background == Remember /\ RememberCut /\ UNCHANGED desk
Preserved  == IInv' /\ KeepsArchived /\ KeepsOwners

\* What is known of the request an operator has in flight.
LEMMA InFlight ==
  ASSUME IInv, NEW o \in Operators
  PROVE  /\ req[o] \in RequestType /\ Good(o, req[o])
         /\ req[o].pc \notin {"idle", "listing"} => req[o].entry \in Entries
BY DEF IInv, Good, Shape

LEMMA IdlePublishesNothing ==
  ASSUME IInv, NEW o \in Operators, req[o].pc = "idle"
  PROVE  req[o].op # "publish"
BY InFlight DEF Good, Shape, PcsOf

LEMMA RequestStep ==
  ASSUME IInv, NEW o \in Operators, NEW l, NEW r, Request(o, l, r),
         Good(o, r), StaysAlone(o, r), ~Decides(r), Background
  PROVE  Preserved
<1>1. Counted
  BY DEF IInv, Counters, Counted, Request, Background
<1>2. Continue(o, r) /\ UNCHANGED <<row, ever>>
  BY DEF Request
<1>3. GoodNext(o, r)
  BY IdlePublishesNothing DEF Request, GoodNext, StaysTidy, StaysSettled
<1> QED BY <1>1, <1>2, <1>3, QuietStep DEF Preserved

LEMMA AnswerStep ==
  ASSUME IInv, NEW o \in Operators, NEW answer \in Answers, NEW shown \in SUBSET Entries,
         req[o].op # "publish",
         Answer(o, answer, shown), UNCHANGED requests, Background
  PROVE  Preserved
<1>1. PICK r : r = Idle(answer, shown)
  OBVIOUS
<1>2. Good(o, r) /\ GoodNext(o, r)
  BY <1>1, IdleIsGood DEF GoodNext, StaysAlone, StaysTidy, StaysSettled, Decides
<1>3. Continue(o, r) /\ UNCHANGED <<row, ever>>
  BY <1>1 DEF Answer
<1>4. Counted
  BY DEF IInv, Counters, Counted, Answer, Background
<1> QED BY <1>2, <1>3, <1>4, QuietStep DEF Preserved

\* A request goes on without a write.
LEMMA GoesOn ==
  ASSUME IInv, NEW o \in Operators, NEW r, Continue(o, r), Good(o, r),
         r.op = req[o].op, r.op = "publish" => r.entry = req[o].entry,
         StaysSettled(o, r),
         UNCHANGED <<row, ever, requests, throws>>, Background
  PROVE  Preserved
<1>1. GoodNext(o, r)
  BY DEF GoodNext, StaysAlone, StaysTidy
<1>2. Counted
  BY DEF IInv, Counters, Counted, Background
<1> QED BY <1>1, <1>2, QuietStep DEF Preserved

\* A request that is cut off leaves nothing behind that nobody has noted.
LEMMA CutOffStep ==
  ASSUME IInv, NEW o \in Operators, NEW answer \in Answers,
         Continue(o, Idle(answer, {})), throws' # throws \/ answer = "none", RememberCut
  PROVE  GoodNext(o, Idle(answer, {}))
<1>1. PICK r : r = Idle(answer, {})
  OBVIOUS
<1>2. r.op = "none" /\ r.pc = "idle" /\ r.answer = answer
  BY <1>1, IdleIsGood DEF Idle, Requested
<1>3. req'[o] = r
  BY <1>1 DEF IInv, Continue
<1>4. req[o].op = "publish" => CutOff(o)
  BY <1>2, <1>3 DEF CutOff
<1>5. req[o].op = "publish" => req[o].entry \in cut'
  BY <1>4 DEF RememberCut
<1> QED BY <1>1, <1>2, <1>5 DEF GoodNext, StaysAlone, StaysTidy, StaysSettled, Decides

LEMMA StoreThrowsStep ==
  ASSUME IInv, NEW o \in Operators, StoreThrows(o) \/ Dies(o), Background
  PROVE  Preserved
<1>1. PICK answer \in Answers :
        /\ Continue(o, Idle(answer, {})) /\ UNCHANGED <<row, ever>>
        /\ throws' # throws \/ answer = "none"
  BY DEF StoreThrows, Dies, Answers, IInv, Counters
<1>2. Counted
  BY DEF IInv, Counters, Counted, StoreThrows, Dies, Background
<1>3. PICK r : r = Idle(answer, {})
  OBVIOUS
<1>4. Good(o, r) /\ GoodNext(o, r)
  BY <1>1, <1>3, IdleIsGood, CutOffStep DEF Background
<1> QED BY <1>1, <1>2, <1>3, <1>4, QuietStep DEF Preserved

\* The promise of a write may be rejected: the request then ends.
LEMMA WriteReported ==
  ASSUME IInv, NEW o \in Operators, NEW l \in Layers, NEW rec, NEW r,
         req[o].entry \in Entries, req[o].pc # "idle",
         MayWrite(o, l, req[o].entry, rec), Write(o, l, rec, r),
         Good(o, r)', GoodNext(o, r), r.pc # req[o].pc,
         UNCHANGED requests, Background
  PROVE  Preserved
<1>1. PICK e \in Entries : e = req[o].entry
  OBVIOUS
<1>2. /\ row' = [row EXCEPT ![l][e] = rec]
      /\ ever' = IF l \in ListLayers /\ rec # None
                 THEN [ever EXCEPT ![l][e] = @ \cup rec.items] ELSE ever
      /\ Reported(o, r, {e})
  BY <1>1 DEF Write
<1>3. MayWrite(o, l, e, rec)
  BY <1>1
<1>4. Counted
  BY <1>2 DEF IInv, Counters, Counted, Reported, Background
<1>5. CASE Continue(o, r)
  BY <1>2, <1>3, <1>4, <1>5, WriteStep DEF Preserved
<1>6. CASE Continue(o, Idle("crash", {})) /\ throws' = throws + 1
  <2>1. PICK q : q = Idle("crash", {})
    OBVIOUS
  <2>2. throws' # throws /\ "crash" \in Answers
    BY <1>6 DEF IInv, Counters, Answers
  <2>3. Good(o, q)' /\ q.pc = "idle"
    BY <2>1, <2>2, IdleIsGood
  <2>4. GoodNext(o, q)
    BY <1>6, <2>1, <2>2, CutOffStep DEF Background
  <2> QED BY <1>2, <1>3, <1>4, <1>6, <2>1, <2>3, <2>4, WriteStep DEF Preserved
<1> QED BY <1>2, <1>5, <1>6 DEF Reported

LEMMA SaveStep ==
  ASSUME IInv, NEW o \in Operators, NEW l \in Layers, NEW rec,
         req[o].entry \in Entries, req[o].pc # "idle",
         req[o].op = "publish" => l = Visibility,
         MayWrite(o, l, req[o].entry, rec), Save(o, l, rec),
         UNCHANGED requests, Background
  PROVE  Preserved
<1>1. PICK r : r = Idle("done", {req[o].entry})
  OBVIOUS
<1>2. Good(o, r)' /\ r.op = "none" /\ r.pc = "idle"
  BY <1>1, IdleIsGood DEF Answers
<1>3. Write(o, l, rec, r)
  BY <1>1 DEF Save
<1>4. req[o].op = "publish" => row'[Visibility][req[o].entry] # None
  BY <1>3 DEF IInv, Stores, Write, MayWrite
<1>5. GoodNext(o, r)
  BY <1>2, <1>4 DEF GoodNext, StaysAlone, StaysTidy, StaysSettled, Decides
<1> QED BY <1>2, <1>3, <1>5, WriteReported
-----------------------------------------------------------------------------
(* A request reaches the service *)

LEMMA AboutStep ==
  ASSUME IInv, NEW o \in Operators, NEW l \in Layers, NEW e \in Entries,
         NEW op \in {"get", "set", "clear", "apply"},
         NEW input \in SUBSET (Items \cup Operators \cup {"shared"}),
         op = "set" => l # SavedView,
         op = "set" /\ l = ReviewAssignment => input \subseteq Operators,
         op = "set" /\ l \in ListLayers => input \subseteq Items,
         About(o, op, l, e, input), Background
  PROVE  Preserved
<1>0. PICK at \in Layers : at = Top(op, l)
  BY DEF Top
<1>1. PICK r : r = Requested(op, l, e, input, "walking", at)
  OBVIOUS
<1>2. op \in Ops /\ "walking" \in Pcs /\ e \in Entries \cup {None}
  BY DEF Ops, Pcs
<1>3. /\ r \in RequestType /\ r.op = op /\ r.layer = l /\ r.entry = e
      /\ r.input = input /\ r.pc = "walking"
  <2>1. /\ Requested(op, l, e, input, "walking", at) \in RequestType
        /\ Requested(op, l, e, input, "walking", at).op = op
        /\ Requested(op, l, e, input, "walking", at).layer = l
        /\ Requested(op, l, e, input, "walking", at).entry = e
        /\ Requested(op, l, e, input, "walking", at).input = input
        /\ Requested(op, l, e, input, "walking", at).pc = "walking"
    <3> HIDE DEF Layers
    <3> QED BY <1>2, RequestedFields
  <2> QED BY <1>1, <2>1
<1>4. r.got = Nothing
  BY <1>1 DEF Requested
<1>5. Shape(r)
  BY <1>3 DEF Shape, PcsOf
<1>6. Read(r)
  BY <1>4 DEF Read, Nothing
<1>7. Known(e) /\ Request(o, l, r)
  BY <1>0, <1>1 DEF About
<1>8. Owns(o, r) /\ StaysAlone(o, r) /\ ~Decides(r)
  BY <1>3, <1>7 DEF Owns, StaysAlone, Decides
<1> QED BY <1>5, <1>6, <1>7, <1>8, RequestStep DEF Good

LEMMA SetsItemsStep ==
  ASSUME IInv, NEW o \in Operators, NEW l \in ListLayers, NEW e \in Entries,
         SetsItems(o, e, l), Background
  PROVE  Preserved
<1>1. PICK items \in SUBSET Items : About(o, "set", l, e, items)
  BY DEF SetsItems
<1> QED BY <1>1, AboutStep

LEMMA SetsStep ==
  ASSUME IInv, NEW o \in Operators, NEW e \in Entries, Sets(o, e), Background
  PROVE  Preserved
<1>1. CASE shareCatalogEntry(o, e)
  BY <1>1, AboutStep DEF shareCatalogEntry
<1>2. CASE unshareCatalogEntry(o, e)
  BY <1>2, AboutStep DEF unshareCatalogEntry
<1>3. CASE reviewCatalogEntry(o, e)
  BY <1>3, AboutStep DEF reviewCatalogEntry
<1>4. CASE assignCatalogEntry(o, e)
  <2>1. CASE About(o, "set", ReviewAssignment, e, {})
    BY <2>1, AboutStep
  <2>2. ASSUME NEW a \in Operators, About(o, "set", ReviewAssignment, e, {a})
        PROVE  Preserved
    BY <2>2, AboutStep
  <2> QED BY <1>4, <2>1, <2>2 DEF assignCatalogEntry
<1>5. CASE \E l \in ListLayers : SetsItems(o, e, l)
  BY <1>5, SetsItemsStep
<1> QED BY <1>1, <1>2, <1>3, <1>4, <1>5
        DEF Sets, checklistCatalogEntry, progressCatalogEntry, blockCatalogEntry,
            resolveCatalogEntryItems, verifyCatalogEntry, recordCatalogEntryEvidence,
            attestCatalogEntry, acknowledgeCatalogEntry, signOffCatalogEntry

LEMMA ReadsStep ==
  ASSUME IInv, NEW o \in Operators, NEW e \in Entries, Reads(o, e), Background
  PROVE  Preserved
<1>1. CASE applies(o, e)
  BY <1>1, AboutStep DEF applies
<1>2. CASE \E l \in Layers : Gets(o, e, l)
  BY <1>2, AboutStep DEF Gets
<1> QED BY <1>1, <1>2
        DEF Reads, getCatalogVisibility, getCatalogEntry, getCatalogReviewSignal,
            getCatalogReviewAssignment, getCatalogAssignmentChecklist,
            getCatalogChecklistItemProgress, getCatalogChecklistItemBlocker,
            getCatalogChecklistItemResolution, getCatalogChecklistItemVerification,
            getCatalogChecklistItemEvidence, getCatalogChecklistItemAttestation,
            getCatalogChecklistItemAcknowledgment, getCatalogChecklistItemSignoff

LEMMA ClearingsStep ==
  ASSUME IInv, NEW o \in Operators, NEW e \in Entries, Clearings(o, e), Background
  PROVE  Preserved
<1>1. CASE \E l \in Layers : Clears(o, e, l)
  BY <1>1, AboutStep DEF Clears
<1> QED BY <1>1
        DEF Clearings, clearCatalogReviewSignal, clearCatalogReviewAssignment,
            clearCatalogAssignmentChecklist, clearCatalogChecklistItemProgress,
            clearCatalogChecklistItemBlocker, clearCatalogChecklistItemResolution,
            clearCatalogChecklistItemVerification, clearCatalogChecklistItemEvidence,
            clearCatalogChecklistItemAttestation,
            clearCatalogChecklistItemAcknowledgment, clearCatalogChecklistItemSignoff

LEMMA ListsStep ==
  ASSUME IInv, NEW o \in Operators, NEW l \in Visibility .. ItemSignoff,
         Lists(o, l), Background
  PROVE  Preserved
<1> DEFINE listed == {e \in Entries : Resolves(l, row[l][e], o)}
           q   == Requested("list", l, None, {}, "listing", l)
           got == [e \in Entries |-> [k \in Layers |->
                     IF e \in listed /\ k = l THEN ItemsAt(l, e) ELSE {}]]
<1>1. PICK r : r = [q EXCEPT !.todo = listed, !.got = got]
  OBVIOUS
<1>2. "list" \in Ops /\ "listing" \in Pcs
  BY DEF Ops, Pcs
<1>3. q \in RequestType /\ q.op = "list" /\ q.layer = l /\ q.pc = "listing"
  BY <1>2, RequestedFields
<1>4. listed \in SUBSET Entries
  OBVIOUS
<1>5. \A e \in Entries : ItemsAt(l, e) \subseteq Items
                         /\ (l \in ListLayers => ItemsAt(l, e) \subseteq ever[l][e])
                         /\ (l \in ItemLayers => ItemsAt(l, e) \subseteq ever[l - 1][e])
                         /\ (l \notin ListLayers => ItemsAt(l, e) = {})
  BY DEF IInv, Stores, Traced, ItemsAt
<1>6. got \in [Entries -> [Layers -> SUBSET Items]]
  BY <1>5
<1>7. /\ \A k \in ListLayers, e \in Entries : got[e][k] \subseteq ever[k][e]
      /\ \A k \in ItemLayers, e \in Entries : got[e][k] \subseteq ever[k - 1][e]
  BY <1>5
<1>8. Request(o, l, r)
  BY <1>1 DEF Lists
<1> HIDE DEF q, got, listed
<1>9. /\ r \in RequestType /\ r.op = "list" /\ r.layer = l /\ r.pc = "listing"
      /\ r.got = got
  BY <1>1, <1>3, <1>4, <1>6 DEF RequestType
<1>10. Shape(r)
  BY <1>9 DEF Shape, PcsOf
<1>11. Read(r) /\ Owns(o, r) /\ StaysAlone(o, r) /\ ~Decides(r)
  BY <1>7, <1>9 DEF Read, Owns, StaysAlone, Decides
<1> QED BY <1>8, <1>10, <1>11, RequestStep DEF Good

LEMMA ListingsStep ==
  ASSUME IInv, NEW o \in Operators, Listings(o), Background
  PROVE  Preserved
<1>1. CASE \E l \in Visibility .. ItemSignoff : Lists(o, l)
  BY <1>1, ListsStep
<1> QED BY <1>1
        DEF Listings, listVisibleCatalogEntries, listCatalogEntries,
            listReviewedCatalogEntries, listAssignedCatalogEntries,
            listChecklistedCatalogEntries, listProgressedCatalogEntries,
            listBlockedCatalogEntries, listResolvedCatalogEntries,
            listVerifiedCatalogEntries, listEvidencedCatalogEntries,
            listAttestedCatalogEntries, listAcknowledgedCatalogEntries,
            listSignedOffCatalogEntries

LEMMA SaveSavedViewStep ==
  ASSUME IInv, NEW o \in Operators, NEW e \in Entries, saveSavedView(o, e), Background
  PROVE  Preserved
<1>1. PICK r : r = Idle("done", {})
  OBVIOUS
<1>2. Good(o, r)' /\ GoodNext(o, r)
  BY <1>1, IdleIsGood, IdlePublishesNothing
     DEF saveSavedView, GoodNext, StaysAlone, StaysTidy, StaysSettled, Decides, Answers
<1>3. PICK l \in Layers, rec \in SavedViewRecord : l = SavedView /\ rec = "saved"
  BY DEF SavedViewRecord
<1>4. rec \in RecordOf(l)
  BY <1>3 DEF RecordOf, SavedViewRecord
<1>5. MayWrite(o, l, e, rec)
  BY <1>3, <1>4, NoneAssumption DEF MayWrite
<1>6. /\ row' = [row EXCEPT ![l][e] = rec] /\ Continue(o, r)
      /\ ever' = IF l \in ListLayers /\ rec # None
                 THEN [ever EXCEPT ![l][e] = @ \cup rec.items] ELSE ever
  BY <1>1, <1>3 DEF saveSavedView
<1>7. Counted
  BY DEF IInv, Counters, Counted, saveSavedView, Background
<1>8. l \in {Visibility, CatalogEntry} => r.pc # req[o].pc
  BY <1>3
<1>9. IInv' /\ KeepsArchived /\ KeepsOwners
  <2> HIDE DEF Layers, ListLayers
  <2> QED BY <1>2, <1>5, <1>6, <1>7, <1>8, WriteStep
<1> QED BY <1>9 DEF Preserved

LEMMA PublishesStep ==
  ASSUME IInv, NEW o \in Operators, NEW e \in Entries, publishes(o, e), Background
  PROVE  Preserved
<1>1. PICK idle : idle = Idle("not_found", {})
  OBVIOUS
<1>2. PICK r : r = Requested("publish", CatalogEntry, e, {}, "creating", SavedView)
  OBVIOUS
<1>3. CASE Request(o, CatalogEntry, idle)
  <2>1. Good(o, idle) /\ StaysAlone(o, idle) /\ ~Decides(idle)
    BY <1>1, IdleIsGood DEF StaysAlone, Decides, Answers
  <2> QED BY <1>3, <2>1, RequestStep
<1>4. CASE Request(o, CatalogEntry, r) /\ row[SavedView][e] # None
  <2>1. "publish" \in Ops /\ "creating" \in Pcs
    BY DEF Ops, Pcs
  <2>2. /\ r \in RequestType /\ r.op = "publish" /\ r.layer = CatalogEntry
        /\ r.entry = e /\ r.pc = "creating"
    BY <1>2, <2>1, RequestedFields
  <2>3. r.got = Nothing /\ r.at = SavedView
    BY <1>2 DEF Requested
  <2>4. Shape(r)
    BY <2>2 DEF Shape, PcsOf
  <2>5. Read(r)
    BY <2>3 DEF Read, Nothing
  <2>6. Pending(e) /\ row[Visibility][e] = None
    BY DEF IInv, EntriesFirst, publishes, Pending
  <2>7. Owns(o, r)
    BY <1>4, <2>2, <2>3, <2>6 DEF Owns
  <2>8. StaysAlone(o, r) /\ ~Decides(r)
    BY <2>2, <2>6 DEF StaysAlone, Decides, Publishes, publishes
  <2> QED BY <1>4, <2>4, <2>5, <2>7, <2>8, RequestStep DEF Good
<1> QED BY <1>1, <1>2, <1>3, <1>4 DEF publishes

LEMMA ArchivesStep ==
  ASSUME IInv, NEW o \in Operators, NEW e \in Entries, archives(o, e), Background
  PROVE  Preserved
<1>1. PICK r : r = Requested("archive", CatalogEntry, e, {}, "owning", SavedView)
  OBVIOUS
<1>2. "archive" \in Ops /\ "owning" \in Pcs
  BY DEF Ops, Pcs
<1>3. r \in RequestType /\ r.op = "archive" /\ r.entry = e /\ r.pc = "owning"
  BY <1>1, <1>2, RequestedFields
<1>4. r.got = Nothing
  BY <1>1 DEF Requested
<1>5. Shape(r)
  BY <1>3 DEF Shape, PcsOf
<1>6. Read(r)
  BY <1>4 DEF Read, Nothing
<1>7. /\ Owns(o, r) /\ StaysAlone(o, r) /\ ~Decides(r)
      /\ Request(o, CatalogEntry, r)
  BY <1>1, <1>3 DEF Owns, StaysAlone, Decides, archives
<1> QED BY <1>5, <1>6, <1>7, RequestStep DEF Good
-----------------------------------------------------------------------------
(* The walk and the queries *)

LEMMA WalkStep ==
  ASSUME IInv, NEW o \in Operators, Walk(o), Background
  PROVE  Preserved
<1>1. PICK q : q = req[o]
  OBVIOUS
<1>2. q \in RequestType /\ Good(o, q) /\ q.pc = "walking" /\ q.entry \in Entries
  BY <1>1, InFlight DEF Walk
<1>3. q.op \in {"list", "get", "set", "clear", "apply", "publish"}
  BY <1>2, RequestFields DEF Good, Shape, PcsOf, Ops
<1>4. /\ q.got \in [Entries -> [Layers -> SUBSET Items]] /\ q.at \in Layers
      /\ \A l \in ListLayers, e \in Entries : q.got[e][l] \subseteq ever[l][e]
      /\ \A l \in ItemLayers, e \in Entries : q.got[e][l] \subseteq ever[l - 1][e]
  BY <1>2, RequestFields DEF Good, Read
<1>5. \A l \in Layers, e \in Entries :
        /\ ItemsAt(l, e) \in SUBSET Items
        /\ l \in ListLayers => ItemsAt(l, e) \subseteq ever[l][e]
        /\ l \in ItemLayers => ItemsAt(l, e) \subseteq ever[l - 1][e]
  BY DEF IInv, Stores, Traced, ItemsAt
<1>6. ASSUME NEW r, NEW got \in [Entries -> [Layers -> SUBSET Items]], NEW at \in Layers,
             NEW pc \in {"walking", "resolved", "missing"},
             q.op = "publish" => pc # "missing" /\ at \in {SavedView, CatalogEntry},
             \A l \in ListLayers, e \in Entries : got[e][l] \subseteq ever[l][e],
             \A l \in ItemLayers, e \in Entries : got[e][l] \subseteq ever[l - 1][e],
             r = [q EXCEPT !.got = got, !.at = at, !.pc = pc], Continue(o, r)
      PROVE  Preserved
  <2>1. pc \in Pcs
    BY DEF Pcs
  <2>2. /\ r \in RequestType /\ r.op = q.op /\ r.pc = pc /\ r.got = got
        /\ r.entry = q.entry /\ r.layer = q.layer /\ r.input = q.input /\ r.at = at
    BY <1>2, <1>6, <2>1 DEF RequestType
  <2>3. Shape(r)
    BY <1>2, <1>3, <1>6, <2>2 DEF Good, Shape, PcsOf
  <2>4. Read(r)
    BY <1>6, <2>2 DEF Read
  <2>5. Owns(o, r)
    BY <1>2, <1>3, <1>6, <2>2 DEF Good, Owns
  <2>6. UNCHANGED <<row, ever, requests, throws>>
    BY DEF Walk
  <2>7. r.op = req[o].op /\ r.entry = req[o].entry /\ StaysSettled(o, r)
    BY <1>1, <1>3, <2>2 DEF StaysSettled, Decides
  <2> QED BY <1>6, <2>3, <2>4, <2>5, <2>6, <2>7, GoesOn DEF Good
<1>7. CASE Continue(o, [q EXCEPT !.pc = "missing"]) /\ q.op # "publish"
  <2>1. PICK r : r = [q EXCEPT !.got = q.got, !.at = q.at, !.pc = "missing"]
    OBVIOUS
  <2>2. r = [q EXCEPT !.pc = "missing"]
    BY <1>2, <2>1 DEF RequestType
  <2> QED BY <1>4, <1>6, <1>7, <2>1, <2>2
<1>8. ASSUME NEW to \in Layers, to <= q.at,
             Continue(o, [q EXCEPT
               !.got[q.entry] = [l \in Layers |->
                                   IF l \in to .. q.at THEN ItemsAt(l, q.entry) ELSE @[l]],
               !.at = IF to = SavedView THEN SavedView ELSE to - 1,
               !.pc = IF to = SavedView THEN "resolved" ELSE "walking"])
      PROVE  Preserved
  <2>1. PICK got : got = [q.got EXCEPT ![q.entry] =
                            [l \in Layers |-> IF l \in to .. q.at
                                              THEN ItemsAt(l, q.entry) ELSE @[l]]]
    OBVIOUS
  <2>2. PICK at \in Layers : at = IF to = SavedView THEN SavedView ELSE to - 1
    BY <1>8
  <2>3. PICK pc \in {"walking", "resolved", "missing"} :
          pc = IF to = SavedView THEN "resolved" ELSE "walking"
    OBVIOUS
  <2>4. PICK r : r = [q EXCEPT !.got = got, !.at = at, !.pc = pc]
    OBVIOUS
  <2>5. Continue(o, r)
    BY <1>8, <2>1, <2>2, <2>3, <2>4
  <2>6. got \in [Entries -> [Layers -> SUBSET Items]]
    BY <1>2, <1>4, <1>5, <2>1
  <2>7. \A l \in ListLayers, e \in Entries : got[e][l] \subseteq ever[l][e]
    BY <1>2, <1>4, <1>5, <2>1
  <2>8. \A l \in ItemLayers, e \in Entries : got[e][l] \subseteq ever[l - 1][e]
    BY <1>2, <1>4, <1>5, <2>1
  <2>9. q.op = "publish" => pc # "missing" /\ at \in {SavedView, CatalogEntry}
    BY <1>2, <1>8, <2>2, <2>3 DEF Good, Owns
  <2> QED BY <2>4, <2>5, <2>6, <2>7, <2>8, <2>9, <1>6
<1>9. PICK to \in Layers :
        /\ ReadsDownTo(o, to)
        /\ IF \A l \in to .. q.at : Resolves(l, row[l][q.entry], o)
           THEN Continue(o, [q EXCEPT
                  !.got[q.entry] = [l \in Layers |->
                                      IF l \in to .. q.at THEN ItemsAt(l, q.entry) ELSE @[l]],
                  !.at = IF to = SavedView THEN SavedView ELSE to - 1,
                  !.pc = IF to = SavedView THEN "resolved" ELSE "walking"])
           ELSE Continue(o, [q EXCEPT !.pc = "missing"])
  BY <1>1 DEF Walk
<1>10. to <= q.at
  BY <1>1, <1>9 DEF ReadsDownTo
<1>11. q.op = "publish" => \A l \in to .. q.at : Resolves(l, row[l][q.entry], o)
  <2>1. ASSUME q.op = "publish"
        PROVE  /\ row[SavedView][q.entry] # None
               /\ row[CatalogEntry][q.entry] # None /\ ~row[CatalogEntry][q.entry].archived
               /\ q.at \in {SavedView, CatalogEntry}
    BY <1>2, <2>1 DEF Good, Owns, Pending
  <2>2. ASSUME q.op = "publish", NEW l \in to .. q.at
        PROVE  l \in {SavedView, CatalogEntry}
    BY <2>1, <2>2
  <2>3. ASSUME q.op = "publish", NEW l \in to .. q.at
        PROVE  Resolves(l, row[l][q.entry], o)
    <3>1. CASE l = SavedView
      BY <2>1, <2>3, <3>1 DEF Resolves
    <3>2. CASE l = CatalogEntry
      BY <2>1, <2>3, <3>2 DEF Resolves, resolveCatalogEntry
    <3> QED BY <2>2, <2>3, <3>1, <3>2
  <2> QED BY <2>3
<1> QED BY <1>7, <1>8, <1>9, <1>10, <1>11

LEMMA ViewStep ==
  ASSUME IInv, NEW o \in Operators, req[o].entry \in Entries, req[o].op # "publish",
         View(o),
         UNCHANGED requests, Background
  PROVE  Preserved
<1>1. {"not_found", "crash", "shown"} \subseteq Answers
  BY DEF Answers
<1>2. CASE Answer(o, "not_found", {})
  BY <1>1, <1>2, AnswerStep
<1>3. CASE Answer(o, "crash", {req[o].entry})
  BY <1>1, <1>3, AnswerStep
<1>4. CASE Answer(o, "shown", {req[o].entry})
  BY <1>1, <1>4, AnswerStep
<1> QED BY <1>2, <1>3, <1>4 DEF View

LEMMA GetEndsStep ==
  ASSUME IInv, NEW o \in Operators, NEW l \in Layers, GetEnds(o, l), Background
  PROVE  Preserved
<1>1. req[o].entry \in Entries /\ req[o].op # "publish"
  BY InFlight DEF GetEnds, Ends
<1> QED BY <1>1, ViewStep DEF GetEnds, Ends

LEMMA ClearEndsStep ==
  ASSUME IInv, NEW o \in Operators, NEW l \in ReviewSignal .. ItemSignoff,
         ClearEnds(o, l), Background
  PROVE  Preserved
<1>1. /\ req[o].entry \in Entries /\ req[o].pc # "idle" /\ req[o].op = "clear"
      /\ UNCHANGED requests
  BY InFlight DEF ClearEnds, Ends
<1>2. CASE View(o)
  BY <1>1, <1>2, ViewStep
<1>3. CASE Save(o, l, None)
  <2>1. MayWrite(o, l, req[o].entry, None) /\ l \in Layers
    BY DEF MayWrite
  <2>2. PICK rec : rec = None
    OBVIOUS
  <2> QED BY <1>1, <1>3, <2>1, <2>2, SaveStep
<1> QED BY <1>2, <1>3 DEF ClearEnds

LEMMA ListedEndsStep ==
  ASSUME IInv, NEW o \in Operators, NEW l \in Layers, ListedEnds(o, l), Background
  PROVE  Preserved
<1>1. PICK q : q = req[o]
  OBVIOUS
<1>2. /\ q \in RequestType /\ Good(o, q) /\ q.entry \in Entries /\ q.op = "list"
      /\ UNCHANGED requests
  BY <1>1, InFlight DEF ListedEnds, Ends
<1>3. q.shown \in SUBSET Entries /\ q.todo \in SUBSET Entries
  BY <1>2, RequestFields
<1>4. CASE Answer(o, "crash", q.shown \cup {q.entry})
  <2>1. q.shown \cup {q.entry} \in SUBSET Entries /\ "crash" \in Answers
    BY <1>2, <1>3 DEF Answers
  <2> QED BY <1>1, <1>2, <1>4, <2>1, AnswerStep
<1>5. ASSUME Continue(o, [q EXCEPT !.pc = "listing", !.entry = None,
                            !.todo = @ \ {q.entry},
                            !.shown = IF q.pc = "resolved" THEN @ \cup {q.entry} ELSE @]),
             UNCHANGED <<row, ever, throws>>
      PROVE  Preserved
  <2>1. PICK todo \in SUBSET Entries : todo = q.todo \ {q.entry}
    BY <1>3
  <2>2. PICK shown \in SUBSET Entries :
          shown = IF q.pc = "resolved" THEN q.shown \cup {q.entry} ELSE q.shown
    BY <1>2, <1>3
  <2>3. PICK r : r = [q EXCEPT !.pc = "listing", !.entry = None,
                               !.todo = todo, !.shown = shown]
    OBVIOUS
  <2>4. Continue(o, r)
    BY <1>5, <2>1, <2>2, <2>3
  <2>5. "listing" \in Pcs
    BY DEF Pcs
  <2>6. /\ r \in RequestType /\ r.op = "list" /\ r.pc = "listing"
        /\ r.layer = q.layer /\ r.got = q.got
    BY <1>2, <2>3, <2>5 DEF RequestType
  <2>7. Shape(r)
    BY <1>2, <2>6 DEF Good, Shape, PcsOf
  <2>8. Read(r) /\ Owns(o, r) /\ StaysSettled(o, r)
    BY <1>2, <2>6 DEF Good, Read, Owns, StaysSettled, Decides
  <2> QED BY <1>1, <1>2, <1>5, <2>4, <2>6, <2>7, <2>8, GoesOn DEF Good
<1> QED BY <1>1, <1>4, <1>5 DEF ListedEnds

LEMMA ListNextStep ==
  ASSUME IInv, NEW o \in Operators, ListNext(o), Background
  PROVE  Preserved
<1>1. PICK q : q = req[o]
  OBVIOUS
<1>2. /\ q \in RequestType /\ Good(o, q) /\ q.pc = "listing"
      /\ UNCHANGED requests
  BY <1>1, InFlight DEF ListNext
<1>3. q.op = "list" /\ q.layer \in Visibility .. ItemSignoff
  BY <1>2, RequestFields DEF Good, Shape, PcsOf, Ops
<1>4. q.shown \in SUBSET Entries /\ q.todo \in SUBSET Entries
  BY <1>2, RequestFields
<1>5. CASE Answer(o, "shown", q.shown)
  <2>1. "shown" \in Answers
    BY DEF Answers
  <2> QED BY <1>1, <1>2, <1>3, <1>4, <1>5, <2>1, AnswerStep
<1>6. ASSUME NEW e \in q.todo, UNCHANGED <<row, ever, throws>>,
             Continue(o, [q EXCEPT !.pc = "walking", !.entry = e, !.at = q.layer - 1])
      PROVE  Preserved
  <2>1. PICK at \in Layers : at = q.layer - 1
    BY <1>3
  <2>2. PICK r : r = [q EXCEPT !.pc = "walking", !.entry = e, !.at = at]
    OBVIOUS
  <2>3. "walking" \in Pcs /\ e \in Entries
    BY <1>4 DEF Pcs
  <2>4. /\ r \in RequestType /\ r.op = "list" /\ r.pc = "walking"
        /\ r.layer = q.layer /\ r.got = q.got /\ r.entry = e
    BY <1>2, <1>3, <2>2, <2>3 DEF RequestType
  <2>5. Shape(r)
    BY <1>3, <2>3, <2>4 DEF Shape, PcsOf
  <2>6. Read(r) /\ Owns(o, r) /\ StaysSettled(o, r)
    BY <1>2, <2>4 DEF Good, Read, Owns, StaysSettled, Decides
  <2>7. Continue(o, r)
    BY <1>6, <2>1, <2>2
  <2> QED BY <1>1, <1>2, <1>3, <1>6, <2>4, <2>5, <2>6, <2>7, GoesOn DEF Good
<1> QED BY <1>1, <1>5, <1>6 DEF ListNext

LEMMA LayerEndsStep ==
  ASSUME IInv, NEW o \in Operators, NEW l \in ReviewSignal .. ItemSignoff,
         LayerEnds(o, l), Background
  PROVE  Preserved
BY GetEndsStep, ClearEndsStep, ListedEndsStep DEF LayerEnds

LEMMA QueriesStep ==
  ASSUME IInv, NEW o \in Operators, Queries(o), Background
  PROVE  Preserved
<1>1. CASE CatalogVisibilityQuery(o)
  BY <1>1, GetEndsStep, ListedEndsStep DEF CatalogVisibilityQuery
<1>2. CASE \E l \in ReviewSignal .. ItemSignoff : LayerEnds(o, l)
  BY <1>2, LayerEndsStep
<1> QED BY <1>1, <1>2
        DEF Queries, CatalogReviewSignalQuery, CatalogReviewAssignmentQuery,
            CatalogAssignmentChecklistQuery, CatalogChecklistItemProgressQuery,
            CatalogChecklistItemBlockerQuery, CatalogChecklistItemResolutionQuery,
            CatalogChecklistItemVerificationQuery, CatalogChecklistItemEvidenceQuery,
            CatalogChecklistItemAttestationQuery,
            CatalogChecklistItemAcknowledgmentQuery, CatalogChecklistItemSignoffQuery
-----------------------------------------------------------------------------
(* Setting a layer *)

Kinds == {"absent", "items", "owner"}

LEMMA ToldIsAnswer ==
  ASSUME NEW l \in Layers, NEW fault, fault.kind \in Kinds
  PROVE  Told(l, fault) \in Answers
BY DEF Told, Kinds, Answers

LEMMA FaultKinds ==
  ASSUME NEW o \in Operators
  PROVE  /\ BelowFault(o) # NoFault => BelowFault(o).kind \in Kinds
         /\ ItemsFault(o) # NoFault => ItemsFault(o).kind \in Kinds
         /\ OwnerFault(o) # NoFault => OwnerFault(o).kind \in Kinds
BY DEF BelowFault, ItemsFault, OwnerFault, Fault, Kinds

LEMMA RefusedStep ==
  ASSUME IInv, NEW o \in Operators, req[o].entry \in Entries, req[o].op # "publish",
         NEW told \in Answers,
         Refused(o, told), UNCHANGED requests, Background
  PROVE  Preserved
<1>1. CASE Answer(o, told, {req[o].entry})
  BY <1>1, AnswerStep
<1>2. CASE Answer(o, told, {})
  BY <1>2, AnswerStep
<1> QED BY <1>1, <1>2 DEF Refused

\* What a set that is about to save relies on.
LEMMA SetEnds ==
  ASSUME IInv, NEW o \in Operators, NEW l \in Layers, Ends(o, "set", l)
  PROVE  /\ req[o].entry \in Entries /\ req[o].pc # "idle" /\ UNCHANGED requests
         /\ Known(req[o].entry) /\ req[o].layer = l /\ req[o].op = "set"
         /\ l = ReviewAssignment => req[o].input \subseteq Operators
         /\ l \in ListLayers => req[o].input \subseteq Items
BY InFlight DEF Ends, Good, Shape, Owns

\* Whoever publishes an entry finds it without an owner.
LEMMA PublishOwns ==
  ASSUME IInv, NEW o \in Operators, setCatalogVisibilityState(o), req[o].op = "publish"
  PROVE  OwnerFault(o) = NoFault
<1>1. req[o].pc = "resolved" /\ row[Visibility][req[o].entry] = None
  BY InFlight DEF setCatalogVisibilityState, Good, Shape, PcsOf, Owns
<1> QED BY <1>1 DEF OwnerFault

LEMMA SetVisibilityStep ==
  ASSUME IInv, NEW o \in Operators, setCatalogVisibilityState(o), Background
  PROVE  Preserved
<1>1. PICK q : q = req[o]
  OBVIOUS
<1>2. /\ q \in RequestType /\ Good(o, q) /\ q.entry \in Entries
      /\ q.pc \in {"resolved", "missing"} /\ UNCHANGED requests
      /\ q.op = "publish" \/ (q.op = "set" /\ q.layer = Visibility)
  BY <1>1, InFlight DEF setCatalogVisibilityState, SetsVisibility
<1>3. q.op = "publish" => /\ row[Visibility][q.entry] = None /\ ~Pending(q.entry)
                          /\ q.pc = "resolved"
  BY <1>2 DEF Good, Shape, PcsOf, Owns
<1>4. PICK existing \in VisibilityRecord \cup {None} : existing = row[Visibility][q.entry]
  BY <1>2 DEF IInv, Stores, RecordOf
<1>5. NoFault.kind = "none" /\ \A kind \in Kinds : Fault(Visibility, kind) # NoFault
  BY DEF Fault, NoFault, Kinds
<1>6. CASE OwnerFault(o) # NoFault
  <2>1. q.op # "publish"
    BY <1>1, <1>6, PublishOwns
  <2>2. OwnerFault(o).kind \in Kinds
    BY <1>6, FaultKinds
  <2>3. PICK told \in Answers : told = normalizeCatalogVisibilityError(OwnerFault(o))
    BY <2>2, ToldIsAnswer DEF normalizeCatalogVisibilityError
  <2>4. Refused(o, told)
    BY <1>1, <1>6, <2>1, <2>3 DEF setCatalogVisibilityState
  <2> QED BY <1>1, <1>2, <2>1, <2>4, RefusedStep
<1>7. CASE OwnerFault(o) = NoFault
  <2>1. existing # None => existing.ownerId = o
    BY <1>1, <1>4, <1>5, <1>7 DEF OwnerFault, Kinds
  <2>2. PICK r : r = [q EXCEPT !.pc = "saving", !.found = existing]
    OBVIOUS
  <2>3. /\ Continue(o, r) /\ UNCHANGED <<row, ever, throws>>
    BY <1>1, <1>4, <1>7, <2>2 DEF setCatalogVisibilityState
  <2>4. /\ r \in RequestType /\ r.op = q.op /\ r.pc = "saving" /\ r.got = q.got
        /\ r.entry = q.entry /\ r.layer = q.layer /\ r.input = q.input
        /\ r.at = q.at /\ r.found = existing
    BY <1>2, <2>2 DEF RequestType, Pcs
  <2>5. Shape(r)
    BY <1>2, <2>4 DEF Good, Shape, PcsOf
  <2>6. Read(r)
    BY <1>2, <2>4 DEF Good, Read
  <2>7. Owns(o, r)
    BY <1>2, <1>3, <1>4, <2>1, <2>4 DEF Good, Owns
  <2>8. StaysSettled(o, r)
    BY <1>4, <2>1, <2>4 DEF StaysSettled
  <2> QED BY <1>1, <1>2, <2>3, <2>4, <2>5, <2>6, <2>7, <2>8, GoesOn DEF Good
<1> QED BY <1>6, <1>7

LEMMA SaveVisibilityStep ==
  ASSUME IInv, NEW o \in Operators, saveCatalogVisibility(o), Background
  PROVE  Preserved
<1>1. PICK q : q = req[o]
  OBVIOUS
<1>2. /\ q \in RequestType /\ Good(o, q) /\ q.entry \in Entries
      /\ q.pc = "saving" /\ UNCHANGED requests
      /\ q.op = "publish" \/ (q.op = "set" /\ q.layer = Visibility)
  BY <1>1, InFlight DEF saveCatalogVisibility, SetsVisibility
<1>3. /\ q.found \in VisibilityRecord \cup {None}
      /\ q.found # None => q.found.ownerId = o
  BY <1>2 DEF Good, Owns
<1>4. q.op = "publish" \/ Known(q.entry)
  BY <1>2 DEF Good, Owns
<1>5. ~Pending(q.entry)
  BY <1>2, <1>4 DEF Good, Owns, Known, Pending
<1> DEFINE shared == "shared" \in q.input
<1>6. shared \in BOOLEAN
  OBVIOUS
<1>7. PICK rec : rec = IF q.found = None THEN createCrossRunAuditCatalogVisibility(o, shared)
                       ELSE [q.found EXCEPT !.shared = shared,
                               !.scopeId = IF shared THEN scopeId(o) ELSE @]
  OBVIOUS
<1>8. rec \in VisibilityRecord /\ rec.ownerId = o
  <2> HIDE DEF shared
  <2> QED BY <1>3, <1>6, <1>7
          DEF VisibilityRecord, scopeId, Scopes, createCrossRunAuditCatalogVisibility
<1>9. RecordOf(Visibility) = VisibilityRecord /\ Visibility \in Layers
  BY DEF RecordOf
<1>10. rec # None
  BY <1>8, <1>9, NoneAssumption
<1>11. Decides(q)
  BY <1>2 DEF Decides
<1>12. MayWrite(o, Visibility, req[o].entry, rec)
  BY <1>1, <1>4, <1>5, <1>8, <1>9, <1>10, <1>11 DEF MayWrite
<1>13. Save(o, Visibility, rec)
  BY <1>1, <1>7 DEF saveCatalogVisibility
<1> QED BY <1>1, <1>2, <1>9, <1>12, <1>13, SaveStep

LEMMA SetReviewStep ==
  ASSUME IInv, NEW o \in Operators, setCatalogReviewSignal(o), Background
  PROVE  Preserved
<1>1. Ends(o, "set", ReviewSignal) /\ ReviewSignal \in Layers
  BY DEF setCatalogReviewSignal
<1>2. /\ req[o].entry \in Entries /\ req[o].pc # "idle" /\ UNCHANGED requests
      /\ req[o].op = "set"
  BY <1>1, SetEnds
<1>3. ASSUME BelowFault(o) # NoFault,
             Refused(o, normalizeCatalogReviewSignalError(BelowFault(o)))
      PROVE  Preserved
  <2>1. PICK told \in Answers : told = normalizeCatalogReviewSignalError(BelowFault(o))
    BY <1>3, FaultKinds, ToldIsAnswer DEF normalizeCatalogReviewSignalError
  <2> QED BY <1>2, <1>3, <2>1, RefusedStep
<1>4. CASE Save(o, ReviewSignal, createCrossRunAuditCatalogReviewSignal(o))
  <2>1. PICK rec : rec = createCrossRunAuditCatalogReviewSignal(o)
    OBVIOUS
  <2>2. rec \in RecordOf(ReviewSignal)
    BY <2>1 DEF RecordOf, ReviewRecord, createCrossRunAuditCatalogReviewSignal
  <2>3. MayWrite(o, ReviewSignal, req[o].entry, rec)
    BY <2>2 DEF MayWrite
  <2> QED BY <1>1, <1>2, <1>4, <2>1, <2>3, SaveStep
<1> QED BY <1>3, <1>4 DEF setCatalogReviewSignal

LEMMA SetAssignmentStep ==
  ASSUME IInv, NEW o \in Operators, setCatalogReviewAssignment(o), Background
  PROVE  Preserved
<1> DEFINE fault == IF BelowFault(o) # NoFault THEN BelowFault(o)
                    ELSE IF req[o].input = {} THEN Fault(ReviewAssignment, "items")
                    ELSE NoFault
           assignee == CHOOSE a \in Operators : a \in req[o].input
<1>1. Ends(o, "set", ReviewAssignment) /\ ReviewAssignment \in Layers
  BY DEF setCatalogReviewAssignment
<1>2. /\ req[o].entry \in Entries /\ req[o].pc # "idle" /\ UNCHANGED requests
      /\ req[o].input \subseteq Operators /\ req[o].op = "set"
  BY <1>1, SetEnds
<1>3. ASSUME fault # NoFault, Refused(o, normalizeCatalogReviewAssignmentError(fault))
      PROVE  Preserved
  <2>1. fault.kind \in Kinds
    BY <1>3, FaultKinds DEF Fault, Kinds
  <2>2. PICK told \in Answers : told = normalizeCatalogReviewAssignmentError(fault)
    BY <2>1, ToldIsAnswer DEF normalizeCatalogReviewAssignmentError
  <2> QED BY <1>2, <1>3, <2>2, RefusedStep
<1>4. ASSUME fault = NoFault,
             Save(o, ReviewAssignment,
                  createCrossRunAuditCatalogReviewAssignment(o, assignee))
      PROVE  Preserved
  <2>1. PICK rec : rec = createCrossRunAuditCatalogReviewAssignment(o, assignee)
    OBVIOUS
  <2>2. req[o].input # {}
    BY <1>4 DEF Fault, NoFault
  <2>3. assignee \in Operators
    BY <1>2, <2>2
  <2>4. rec \in RecordOf(ReviewAssignment)
    BY <2>1, <2>3 DEF RecordOf, AssignmentRecord, scopeId, Scopes,
                      createCrossRunAuditCatalogReviewAssignment
  <2>5. MayWrite(o, ReviewAssignment, req[o].entry, rec)
    BY <2>4 DEF MayWrite
  <2> QED BY <1>1, <1>2, <1>4, <2>1, <2>5, SaveStep
<1> QED BY <1>3, <1>4 DEF setCatalogReviewAssignment

LEMMA ItemsSaved ==
  ASSUME IInv, NEW o \in Operators, NEW l \in ListLayers, Ends(o, "set", l),
         l \in ItemLayers => req[o].input \subseteq ever[l - 1][req[o].entry],
         Save(o, l, ItemsOf(o, req[o].input)), Background
  PROVE  Preserved
<1>1. /\ req[o].entry \in Entries /\ req[o].pc # "idle" /\ UNCHANGED requests
      /\ req[o].input \subseteq Items /\ l \in Layers /\ req[o].op = "set"
  BY SetEnds
<1>2. PICK rec : rec = ItemsOf(o, req[o].input)
  OBVIOUS
<1>3. rec \in RecordOf(l) /\ rec.items = req[o].input
  BY <1>1, <1>2, ListRecords DEF ItemsOf, ItemsRecord, scopeId, Scopes
<1>4. MayWrite(o, l, req[o].entry, rec)
  BY <1>3 DEF MayWrite
<1>5. Save(o, l, rec)
  BY <1>2
<1> QED BY <1>1, <1>4, <1>5, SaveStep

LEMMA SetChecklistStep ==
  ASSUME IInv, NEW o \in Operators, setCatalogAssignmentChecklist(o), Background
  PROVE  Preserved
<1>1. /\ Ends(o, "set", AssignmentChecklist) /\ AssignmentChecklist \in Layers
      /\ AssignmentChecklist \in ListLayers
  BY DEF setCatalogAssignmentChecklist
<1>2. req[o].entry \in Entries /\ UNCHANGED requests /\ req[o].op = "set"
  BY <1>1, SetEnds
<1>3. ASSUME BelowFault(o) # NoFault,
             Refused(o, normalizeCatalogAssignmentChecklistError(BelowFault(o)))
      PROVE  Preserved
  <2>1. PICK told \in Answers : told = normalizeCatalogAssignmentChecklistError(BelowFault(o))
    BY <1>3, FaultKinds, ToldIsAnswer DEF normalizeCatalogAssignmentChecklistError
  <2> QED BY <1>2, <1>3, <2>1, RefusedStep
<1>4. CASE Save(o, AssignmentChecklist, ItemsOf(o, req[o].input))
  BY <1>1, <1>4, ItemsSaved
<1> QED BY <1>3, <1>4
        DEF setCatalogAssignmentChecklist, createCrossRunAuditCatalogAssignmentChecklist

\* The one form of the eight item layers.
SetsLayer(o, l) ==
  /\ Ends(o, "set", l)
  /\ IF ItemsFault(o) # NoFault THEN Refused(o, Told(l, ItemsFault(o)))
     ELSE Save(o, l, ItemsOf(o, req[o].input))

LEMMA ItemsComeFromBelow ==
  ASSUME NEW l \in ItemLayers, NEW items, NEW below, Normalizes(l, items, below)
  PROVE  items \subseteq below
<1>1. CASE l = ItemProgress
  BY <1>1 DEF Normalizes, Allowed, normalizeChecklistItemProgressItems
<1>2. CASE l = ItemBlocker
  BY <1>2 DEF Normalizes, Allowed, normalizeChecklistItemBlockerItems
<1>3. CASE l = ItemResolution
  BY <1>3 DEF Normalizes, Allowed, normalizeChecklistItemResolutionItems
<1>4. CASE l = ItemVerification
  BY <1>4 DEF Normalizes, Allowed, normalizeChecklistItemVerificationItems
<1>5. CASE l = ItemEvidence
  BY <1>5 DEF Normalizes, Allowed, normalizeChecklistItemEvidenceItems
<1>6. CASE l = ItemAttestation
  BY <1>6 DEF Normalizes, Allowed, normalizeChecklistItemAttestationItems
<1>7. CASE l = ItemAcknowledgment
  BY <1>7 DEF Normalizes, Allowed, normalizeChecklistItemAcknowledgmentItems
<1>8. CASE l = ItemSignoff
  BY <1>8 DEF Normalizes, Allowed, normalizeChecklistItemSignoffItems
<1> QED BY <1>1, <1>2, <1>3, <1>4, <1>5, <1>6, <1>7, <1>8

LEMMA SetsLayerStep ==
  ASSUME IInv, NEW o \in Operators, NEW l \in ItemLayers, SetsLayer(o, l), Background
  PROVE  Preserved
<1>1. Ends(o, "set", l) /\ l \in Layers /\ l \in ListLayers
  BY DEF SetsLayer
<1>2. /\ req[o].entry \in Entries /\ UNCHANGED requests /\ req[o].layer = l
      /\ req[o].op = "set"
  BY <1>1, SetEnds
<1>3. ASSUME ItemsFault(o) # NoFault, Refused(o, Told(l, ItemsFault(o)))
      PROVE  Preserved
  <2>1. PICK told \in Answers : told = Told(l, ItemsFault(o))
    BY <1>1, <1>3, FaultKinds, ToldIsAnswer
  <2> QED BY <1>2, <1>3, <2>1, RefusedStep
<1>4. ASSUME ItemsFault(o) = NoFault, Save(o, l, ItemsOf(o, req[o].input))
      PROVE  Preserved
  <2>1. Normalizes(l, req[o].input, req[o].got[req[o].entry][l - 1])
    BY <1>2, <1>4 DEF ItemsFault, Fault, NoFault
  <2>2. req[o].input \subseteq req[o].got[req[o].entry][l - 1]
    BY <2>1, ItemsComeFromBelow
  <2>3. l - 1 \in ListLayers
    OBVIOUS
  <2>4. req[o].got[req[o].entry][l - 1] \subseteq ever[l - 1][req[o].entry]
    BY <1>2, <2>3, InFlight DEF Good, Read
  <2> QED BY <1>1, <1>4, <2>2, <2>4, ItemsSaved
<1> QED BY <1>3, <1>4 DEF SetsLayer

\* Every setting of an item layer has that form.
LEMMA SetsItemLayer ==
  ASSUME NEW o \in Operators,
         \/ setCatalogChecklistItemProgress(o) \/ setCatalogChecklistItemBlocker(o)
         \/ setCatalogChecklistItemResolution(o)
         \/ setCatalogChecklistItemVerification(o)
         \/ setCatalogChecklistItemEvidence(o)
         \/ setCatalogChecklistItemAttestation(o)
         \/ setCatalogChecklistItemAcknowledgment(o)
         \/ setCatalogChecklistItemSignoff(o)
  PROVE  \E l \in ItemLayers : SetsLayer(o, l)
<1>1. setCatalogChecklistItemProgress(o) => SetsLayer(o, ItemProgress)
  BY DEF setCatalogChecklistItemProgress, SetsLayer,
         normalizeCatalogChecklistItemProgressError,
         createCrossRunAuditCatalogChecklistItemProgress
<1>2. setCatalogChecklistItemBlocker(o) => SetsLayer(o, ItemBlocker)
  BY DEF setCatalogChecklistItemBlocker, SetsLayer,
         normalizeCatalogChecklistItemBlockerError,
         createCrossRunAuditCatalogChecklistItemBlocker
<1>3. setCatalogChecklistItemResolution(o) => SetsLayer(o, ItemResolution)
  BY DEF setCatalogChecklistItemResolution, SetsLayer,
         normalizeCatalogChecklistItemResolutionError,
         createCrossRunAuditCatalogChecklistItemResolution
<1>4. setCatalogChecklistItemVerification(o) => SetsLayer(o, ItemVerification)
  BY DEF setCatalogChecklistItemVerification, SetsLayer,
         normalizeCatalogChecklistItemVerificationError,
         createCrossRunAuditCatalogChecklistItemVerification
<1>5. setCatalogChecklistItemEvidence(o) => SetsLayer(o, ItemEvidence)
  BY DEF setCatalogChecklistItemEvidence, SetsLayer,
         normalizeCatalogChecklistItemEvidenceError,
         createCrossRunAuditCatalogChecklistItemEvidence
<1>6. setCatalogChecklistItemAttestation(o) => SetsLayer(o, ItemAttestation)
  BY DEF setCatalogChecklistItemAttestation, SetsLayer,
         normalizeCatalogChecklistItemAttestationError,
         createCrossRunAuditCatalogChecklistItemAttestation
<1>7. setCatalogChecklistItemAcknowledgment(o) => SetsLayer(o, ItemAcknowledgment)
  BY DEF setCatalogChecklistItemAcknowledgment, SetsLayer,
         normalizeCatalogChecklistItemAcknowledgmentError,
         createCrossRunAuditCatalogChecklistItemAcknowledgment
<1>8. setCatalogChecklistItemSignoff(o) => SetsLayer(o, ItemSignoff)
  BY DEF setCatalogChecklistItemSignoff, SetsLayer,
         normalizeCatalogChecklistItemSignoffError,
         createCrossRunAuditCatalogChecklistItemSignoff
<1> QED BY <1>1, <1>2, <1>3, <1>4, <1>5, <1>6, <1>7, <1>8

LEMMA SettingsStep ==
  ASSUME IInv, NEW o \in Operators, Settings(o), Background
  PROVE  Preserved
<1>1. CASE setCatalogVisibilityState(o) \/ setCatalogReviewSignal(o)
           \/ setCatalogReviewAssignment(o) \/ setCatalogAssignmentChecklist(o)
  BY <1>1, SetVisibilityStep, SetReviewStep, SetAssignmentStep, SetChecklistStep
<1>2. CASE \E l \in ItemLayers : SetsLayer(o, l)
  BY <1>2, SetsLayerStep
<1> QED BY <1>1, <1>2, SetsItemLayer DEF Settings

-----------------------------------------------------------------------------
(* Publishing, archiving and applying *)

LEMMA PublishEntryStep ==
  ASSUME IInv, NEW o \in Operators, publishCatalogEntry(o), Background
  PROVE  Preserved
<1>1. PICK q : q = req[o]
  OBVIOUS
<1>2. /\ q \in RequestType /\ Good(o, q) /\ q.pc = "creating" /\ q.entry \in Entries
      /\ UNCHANGED requests
  BY <1>1, InFlight DEF publishCatalogEntry
<1>3. q.op = "publish"
  BY <1>2, RequestFields DEF Good, Shape, PcsOf, Ops
<1>4. /\ row[SavedView][q.entry] # None /\ row[Visibility][q.entry] = None
      /\ Pending(q.entry)
  BY <1>2, <1>3 DEF Good, Owns
<1>5. PICK rec : rec = createCrossRunAuditCatalogEntry
  OBVIOUS
<1>6. rec \in RecordOf(CatalogEntry) /\ CatalogEntry \in Layers /\ ~rec.archived
  BY <1>5 DEF RecordOf, EntryRecord, createCrossRunAuditCatalogEntry
<1>7. rec # None
  BY <1>6, NoneAssumption
<1>8. MayWrite(o, CatalogEntry, req[o].entry, rec)
  BY <1>1, <1>3, <1>4, <1>6, <1>7 DEF MayWrite
<1>9. PICK r : r = [q EXCEPT !.pc = "walking", !.at = CatalogEntry]
  OBVIOUS
<1>10. /\ r \in RequestType /\ r.op = q.op /\ r.pc = "walking" /\ r.got = q.got
       /\ r.entry = q.entry /\ r.layer = q.layer /\ r.input = q.input
       /\ r.at = CatalogEntry
  <2>1. "walking" \in Pcs /\ CatalogEntry \in Layers
    BY DEF Pcs
  <2> HIDE DEF Layers, CatalogEntry
  <2> QED BY <1>2, <1>9, <2>1 DEF RequestType
<1>11. Write(o, CatalogEntry, rec, r)
  BY <1>1, <1>5, <1>9 DEF publishCatalogEntry
<1>12. /\ row' = [row EXCEPT ![CatalogEntry][q.entry] = rec]
       /\ ever' = ever
  BY <1>1, <1>11 DEF Write
<1>13. Shape(r)
  BY <1>2, <1>3, <1>10 DEF Good, Shape, PcsOf
<1>14. Read(r)'
  BY <1>2, <1>10, <1>12 DEF Good, Read
<1>15. /\ row'[Visibility][q.entry] = None /\ row'[CatalogEntry][q.entry] = rec
       /\ row'[SavedView][q.entry] # None
  BY <1>2, <1>4, <1>12 DEF IInv, Stores
<1>16. Owns(o, r)'
  BY <1>3, <1>6, <1>7, <1>10, <1>15 DEF Owns, Pending
<1>17. Good(o, r)'
  BY <1>13, <1>14, <1>16 DEF Good, Shape
<1>18. GoodNext(o, r)
  BY <1>1, <1>3, <1>10 DEF GoodNext, StaysAlone, StaysTidy, StaysSettled, Decides
<1> QED BY <1>1, <1>2, <1>6, <1>8, <1>10, <1>11, <1>17, <1>18, WriteReported

LEMMA RequireOwnedStep ==
  ASSUME IInv, NEW o \in Operators, requireOwnedCatalogVisibility(o), Background
  PROVE  Preserved
<1>1. PICK q : q = req[o]
  OBVIOUS
<1>2. /\ q \in RequestType /\ Good(o, q) /\ q.pc = "owning" /\ q.entry \in Entries
      /\ UNCHANGED requests
  BY <1>1, InFlight DEF requireOwnedCatalogVisibility
<1>3. q.op = "archive"
  BY <1>2, RequestFields DEF Good, Shape, PcsOf, Ops
<1>4. ASSUME NEW answer \in {"not_found", "conflict"}, Answer(o, answer, {})
      PROVE  Preserved
  <2>1. answer \in Answers
    BY DEF Answers
  <2> QED BY <1>1, <1>2, <1>3, <1>4, <2>1, AnswerStep
<1>5. ASSUME row[Visibility][q.entry].ownerId = o, UNCHANGED <<row, ever, throws>>,
             Continue(o, [q EXCEPT !.pc = "resolved"])
      PROVE  Preserved
  <2>1. PICK r : r = [q EXCEPT !.pc = "resolved"]
    OBVIOUS
  <2>2. /\ r \in RequestType /\ r.op = q.op /\ r.pc = "resolved" /\ r.got = q.got
        /\ r.entry = q.entry /\ r.layer = q.layer /\ r.input = q.input
    BY <1>2, <2>1 DEF RequestType, Pcs
  <2>3. Shape(r)
    BY <1>2, <1>3, <2>2 DEF Good, Shape, PcsOf
  <2>4. Read(r) /\ Owns(o, r) /\ StaysSettled(o, r)
    BY <1>2, <1>3, <1>5, <2>2 DEF Good, Read, Owns, StaysSettled
  <2>5. Continue(o, r)
    BY <1>5, <2>1
  <2> QED BY <1>1, <1>2, <1>3, <1>5, <2>2, <2>3, <2>4, <2>5, GoesOn DEF Good
<1> QED BY <1>1, <1>4, <1>5 DEF requireOwnedCatalogVisibility

LEMMA ArchiveEntryStep ==
  ASSUME IInv, NEW o \in Operators, archiveCatalogEntry(o), Background
  PROVE  Preserved
<1>1. PICK q : q = req[o]
  OBVIOUS
<1>2. /\ q \in RequestType /\ Good(o, q) /\ q.entry \in Entries /\ q.op = "archive"
      /\ q.pc = "resolved" /\ UNCHANGED requests
  BY <1>1, InFlight DEF archiveCatalogEntry, Ends, Good, Shape, PcsOf
<1>3. PICK entry \in EntryRecord : entry = row[CatalogEntry][q.entry]
  BY <1>2 DEF IInv, Stores, Good, Owns, Known, RecordOf
<1>4. entry # None
  BY <1>2, <1>3 DEF Good, Owns, Known
<1>5. PICK r : r = [q EXCEPT !.pc = "saving", !.found = entry]
  OBVIOUS
<1>6. Continue(o, r) /\ UNCHANGED <<row, ever, throws>>
  BY <1>1, <1>3, <1>4, <1>5 DEF archiveCatalogEntry
<1>7. /\ r \in RequestType /\ r.op = "archive" /\ r.pc = "saving" /\ r.got = q.got
      /\ r.entry = q.entry /\ r.layer = q.layer /\ r.input = q.input /\ r.found = entry
  BY <1>2, <1>5 DEF RequestType, Pcs
<1>8. Shape(r)
  BY <1>2, <1>7 DEF Good, Shape, PcsOf
<1>9. Read(r)
  BY <1>2, <1>7 DEF Good, Read
<1>10. Owns(o, r) /\ StaysSettled(o, r)
  BY <1>1, <1>2, <1>7 DEF Good, Owns, StaysSettled, Decides
<1> QED BY <1>1, <1>2, <1>6, <1>7, <1>8, <1>9, <1>10, GoesOn DEF Good

LEMMA SaveArchivedStep ==
  ASSUME IInv, NEW o \in Operators, saveArchivedEntry(o), Background
  PROVE  Preserved
<1>1. PICK q : q = req[o]
  OBVIOUS
<1>2. /\ Good(o, q) /\ q.entry \in Entries /\ q.op = "archive"
      /\ q.pc = "saving" /\ UNCHANGED requests
  BY <1>1, InFlight DEF saveArchivedEntry
<1>3. /\ Known(q.entry) /\ ~Pending(q.entry) /\ q.found \in EntryRecord /\ Decides(q)
  BY <1>2 DEF Good, Owns, Known, Pending, Decides
<1>4. PICK rec : rec = archiveCrossRunAuditCatalogEntry(q.found)
  OBVIOUS
<1>5. rec \in EntryRecord /\ rec.archived = TRUE
  BY <1>3, <1>4 DEF EntryRecord, archiveCrossRunAuditCatalogEntry
<1>6. RecordOf(CatalogEntry) = EntryRecord /\ CatalogEntry \in Layers
  BY DEF RecordOf
<1>7. rec # None
  BY <1>5, <1>6, NoneAssumption
<1>8. MayWrite(o, CatalogEntry, req[o].entry, rec)
  BY <1>1, <1>2, <1>3, <1>5, <1>6, <1>7 DEF MayWrite
<1>9. Save(o, CatalogEntry, rec)
  BY <1>1, <1>4 DEF saveArchivedEntry
<1> QED BY <1>1, <1>2, <1>6, <1>8, <1>9, SaveStep

LEMMA ApplyEntryStep ==
  ASSUME IInv, NEW o \in Operators, applyCatalogEntry(o), Background
  PROVE  Preserved
<1>1. req[o].entry \in Entries /\ UNCHANGED requests /\ req[o].op = "apply"
  BY InFlight DEF applyCatalogEntry, Ends
<1>2. CASE Answer(o, "not_found", {})
  BY <1>1, <1>2, AnswerStep DEF Answers
<1>3. CASE View(o)
  BY <1>1, <1>3, ViewStep
<1> QED BY <1>2, <1>3 DEF applyCatalogEntry

LEMMA PublishingStep ==
  ASSUME IInv, NEW o \in Operators, Publishing(o), Background
  PROVE  Preserved
BY PublishEntryStep, SaveVisibilityStep, RequireOwnedStep, ArchiveEntryStep,
   SaveArchivedStep, ApplyEntryStep DEF Publishing

-----------------------------------------------------------------------------
(* The invariant *)

LEMMA FilledRecords ==
  ASSUME NEW l \in Layers, NEW items \in SUBSET Items
  PROVE  /\ Filled(l, items) \in RecordOf(l)
         /\ l \in ListLayers => Filled(l, items).items = items
<1>0. Owner \in Operators /\ Assignee \in Operators
  BY DEF CatalogAssumption, LayersAssumption
<1>1. CASE l = SavedView
  BY <1>1 DEF Filled, RecordOf, SavedViewRecord
<1>2. CASE l = CatalogEntry
  BY <1>2 DEF Filled, RecordOf, EntryRecord, createCrossRunAuditCatalogEntry
<1>3. CASE l = Visibility
  BY <1>0, <1>3 DEF Filled, RecordOf, VisibilityRecord, Scopes, scopeId,
                    createCrossRunAuditCatalogVisibility
<1>4. CASE l = ReviewSignal
  BY <1>0, <1>4 DEF Filled, RecordOf, ReviewRecord, createCrossRunAuditCatalogReviewSignal
<1>5. CASE l = ReviewAssignment
  BY <1>0, <1>5 DEF Filled, RecordOf, AssignmentRecord, Scopes, scopeId,
                    createCrossRunAuditCatalogReviewAssignment
<1>6. CASE l \in ListLayers
  <2>1. Filled(l, items) = ItemsOf(Owner, items)
    BY <1>6 DEF Filled
  <2>2. ItemsOf(Owner, items) \in ItemsRecord /\ ItemsOf(Owner, items).items = items
    BY DEF ItemsRecord, ItemsOf, Scopes, scopeId
  <2> QED BY <1>6, <2>1, <2>2, ListRecords
<1> QED BY <1>1, <1>2, <1>3, <1>4, <1>5, <1>6

LEMMA InitInvariant == Init => IInv
<1> SUFFICES ASSUME Init PROVE IInv
  OBVIOUS
<1>1. PICK height \in 0 .. ItemSignoff + 1, items \in SUBSET Items :
        /\ desk \in Desks
        /\ cut = IF height = Visibility THEN Entries ELSE {}
        /\ row = [l \in Layers |-> [e \in Entries |->
                    IF l < height THEN Filled(l, items) ELSE None]]
        /\ ever = [l \in ListLayers |-> [e \in Entries |->
                    IF l < height THEN items ELSE {}]]
        /\ req = [o \in Operators |-> Idle("none", {})]
        /\ entitled = [o \in Operators |-> NotEntitled]
        /\ requests = 0 /\ throws = 0
  BY DEF Init
<1>2. \A l \in Layers, e \in Entries :
        row[l][e] = IF l < height THEN Filled(l, items) ELSE None
  BY <1>1
<1>3. \A l \in Layers, e \in Entries :
        /\ row[l][e] \in RecordOf(l) \cup {None}
        /\ row[l][e] # None => l < height
  BY <1>2, FilledRecords
<1>4. row \in [Layers -> [Entries -> AnyRecord]]
  <2>1. \A l \in Layers : Filled(l, items) \in AnyRecord /\ None \in AnyRecord
    BY FilledRecords, AnyRecords
  <2> QED BY <1>1, <2>1
<1>5. ever \in [ListLayers -> [Entries -> SUBSET Items]]
  BY <1>1
<1>6. Stores
  BY <1>3, <1>4, <1>5 DEF Stores
<1>7. \A l \in ListLayers, e \in Entries :
        ItemsAt(l, e) \subseteq IF l < height THEN items ELSE {}
  BY <1>2, FilledRecords DEF ItemsAt
<1>8. Traced
  <2>1. \A l \in ItemLayers : l - 1 \in ListLayers /\ (l < height => l - 1 < height)
    OBVIOUS
  <2> QED BY <1>1, <1>7, <2>1 DEF Traced
<1>9. EntriesFirst
  BY <1>2, <1>3, FilledRecords, NoneAssumption DEF EntriesFirst, Pending
<1>10. Counters
  BY <1>1, CatalogAssumption DEF Counters, NotEntitled
<1>11. PICK r : r = Idle("none", {})
  OBVIOUS
<1>12. r \in RequestType /\ r.op = "none"
  <2>1. "none" \in Answers
    BY DEF Answers
  <2>2. ASSUME NEW o \in Operators PROVE r \in RequestType /\ r.op = "none"
    BY <1>11, <2>1, IdleIsGood
  <2> QED BY <2>2, CatalogAssumption, LayersAssumption
<1>13. \A o \in Operators : Good(o, req[o])
  <2>1. \A o \in Operators : Good(o, r)
    BY <1>11, IdleIsGood DEF Answers
  <2> QED BY <1>1, <1>11, <2>1
<1>14. req \in [Operators -> RequestType] /\ Alone
  BY <1>1, <1>11, <1>12 DEF Alone
<1>15. \A e \in Entries : Settled(e)
  BY <1>1, <1>11, <1>12 DEF Settled, MayDecide, SetsVisibility
<1>16. ASSUME NEW e \in Entries, ~Pending(e), row[Visibility][e] = None
       PROVE  e \in cut
  <2>1. CatalogEntry < height
    BY <1>3, <1>16 DEF Pending
  <2>2. ~(Visibility < height)
    BY <1>2, <1>16, FilledRecords, NoneAssumption
  <2> QED BY <1>1, <2>1, <2>2
<1>17. Tidy
  BY <1>15, <1>16 DEF Tidy
<1> QED BY <1>6, <1>8, <1>9, <1>10, <1>13, <1>14, <1>17 DEF IInv

LEMMA NextPreserves ==
  ASSUME IInv, Next
  PROVE  Preserved
<1>1. PICK o \in Operators : Step(o)
  BY DEF Next
<1>2. Background
  BY DEF Next, Background
<1>3. ASSUME NEW e \in Entries, saveSavedView(o, e) \/ publishes(o, e) \/ archives(o, e)
      PROVE  Preserved
  BY <1>2, <1>3, SaveSavedViewStep, PublishesStep, ArchivesStep
<1>4. ASSUME NEW e \in Entries, Sets(o, e) \/ Reads(o, e) \/ Clearings(o, e)
      PROVE  Preserved
  BY <1>2, <1>4, SetsStep, ReadsStep, ClearingsStep
<1>5. CASE Listings(o) \/ ListNext(o) \/ Walk(o)
  BY <1>2, <1>5, ListingsStep, ListNextStep, WalkStep
<1>6. CASE Queries(o) \/ Settings(o) \/ Publishing(o) \/ StoreThrows(o) \/ Dies(o)
  BY <1>2, <1>6, QueriesStep, SettingsStep, PublishingStep, StoreThrowsStep
<1> QED BY <1>1, <1>3, <1>4, <1>5, <1>6 DEF Step, Arrives

LEMMA NextInvariant == IInv /\ [Next]_vars => IInv'
<1> SUFFICES ASSUME IInv, [Next]_vars PROVE IInv'
  OBVIOUS
<1>1. CASE Next
  BY <1>1, NextPreserves DEF Preserved
<1>2. CASE UNCHANGED vars
  <2>1. /\ Stores' /\ Traced' /\ EntriesFirst' /\ Counters'
        /\ req' \in [Operators -> RequestType]
    BY <1>2 DEF vars, IInv, Stores, Traced, EntriesFirst, Counters, ItemsAt, Known,
                Pending
  <2>2. \A o \in Operators : Good(o, req[o])'
    BY <1>2 DEF vars, IInv, Good, Shape, Read, Owns, ItemsAt, Known, Pending
  <2>3. Alone' /\ Tidy'
    BY <1>2 DEF vars, IInv, Alone, Tidy, Pending, Publishes, Settled, MayDecide,
                SetsVisibility
  <2> QED BY <2>1, <2>2, <2>3 DEF IInv
<1> QED BY <1>1, <1>2

LEMMA Invariant == Spec => []IInv
BY InitInvariant, NextInvariant, PTL DEF Spec

-----------------------------------------------------------------------------
(* Results *)

\* The state is well typed, and a layer holds records of its own kind.
THEOREM TypeCorrect == Spec => []TypeOK
<1>1. IInv => TypeOK
  BY DEF IInv, Stores, Counters, TypeOK
<1> QED BY <1>1, Invariant, PTL

\* Every item of a layer was once in the layer below it, whatever the requests
\* that set and clear the layers do between each other's reads and writes: it
\* is enough that what a request has read was there when it read it, and that
\* the items ever held only grow.
THEOREM ItemsAreTraced == Spec => []ItemsTraced
<1>1. IInv => ItemsTraced
  BY DEF IInv, Traced, ItemsTraced, ItemsAt
<1> QED BY <1>1, Invariant, PTL

\* An archived entry stays archived: an entry is created only while there is
\* none, and everything written over it afterwards is archived.
THEOREM ArchivedStays == Spec => ArchivedForGood
<1>1. IInv /\ [Next]_vars =>
        [\A e \in Entries : row[CatalogEntry][e] # None =>
           /\ row'[CatalogEntry][e] # None
           /\ row[CatalogEntry][e].archived => row'[CatalogEntry][e].archived]_vars
  BY NextPreserves DEF Preserved, KeepsArchived
<1> QED BY <1>1, Invariant, PTL DEF Spec, ArchivedForGood

\* Only the owner of an entry shares, unshares or archives it, and it keeps him.
\* Whoever is about to decide on an entry has found himself its owner, or has
\* found it without one: that is only so of a legacy entry and of one that was
\* cut off, since an entry that is being published is known to nobody else.
THEOREM OwnerDecides == Spec => OnlyOwnerDecides
<1>1. ASSUME IInv, Next, NEW e \in Entries, row[Visibility][e] # None,
             e \in cut => Settled(e)
      PROVE  LET owner == row[Visibility][e].ownerId IN
             /\ row'[Visibility][e] # None /\ row'[Visibility][e].ownerId = owner
             /\ Settled(e)'
             /\ \A l \in {Visibility, CatalogEntry} :
                  row'[l][e] # row[l][e] => req'[owner] # req[owner]
  <2>1. Settled(e)
    BY <1>1 DEF IInv, Tidy
  <2> QED BY <1>1, <2>1, NextPreserves DEF Preserved, KeepsOwners
<1>2. IInv /\ [Next]_vars =>
        [\A e \in Entries : row[Visibility][e] # None /\ (e \in cut => Settled(e)) =>
           LET owner == row[Visibility][e].ownerId IN
           /\ row'[Visibility][e] # None /\ row'[Visibility][e].ownerId = owner
           /\ Settled(e)'
           /\ \A l \in {Visibility, CatalogEntry} :
                row'[l][e] # row[l][e] => req'[owner] # req[owner]]_vars
  BY <1>1
<1> QED BY <1>2, Invariant, PTL DEF Spec, OnlyOwnerDecides

\* An entry without an owner is a legacy entry, one being published, or one
\* whose publishing was cut off: a publish that nothing cuts off resolves its
\* entry, finds it without an owner, and so never fails.
THEOREM OrphansWereCutOff == Spec => []OrphanOnlyWhenCutOff
<1>1. IInv => OrphanOnlyWhenCutOff
  BY DEF IInv, Tidy, Pending, Publishes, OrphanOnlyWhenCutOff
<1> QED BY <1>1, Invariant, PTL

-----------------------------------------------------------------------------
(* What the requests lead to: none shows, clears or sets what its operator *)
(* was not entitled to during the request, and none ends with an internal  *)
(* error unless a store threw or the layer below a record has lost an      *)
(* item.                                                                   *)
(*                                                                         *)
(* A walk reads the assignment, the owner record and the entry in steps of *)
(* their own, so that it may never see the entry shared, assigned and      *)
(* unarchived at once.  The argument is that an archived entry stays       *)
(* archived: when the walk has passed the entry, the entry was unarchived  *)
(* already when the walk found it shared.                                  *)

-----------------------------------------------------------------------------
(* What a request has found out *)

Archived(e) == row[CatalogEntry][e] # None /\ row[CatalogEntry][e].archived

\* The operator was shown the entry, or it is archived and the walk will fail.
Shared(o, e) == e \in entitled[o].visible \/ Archived(e)

Walks == {"get", "list", "clear", "set", "apply"}

\* The walk is below layer l, that is it has read it.
Below(r, l) == r.pc = "resolved" \/ (r.pc = "walking" /\ r.at < l)

\* What the layers that the walk has read have told.
Found(o, r) ==
  LET top == Top(r.op, r.layer) IN
  /\ top >= ReviewAssignment /\ Below(r, ReviewAssignment)
       => r.entry \in entitled[o].party
  /\ top >= Visibility /\ Below(r, Visibility) => Shared(o, r.entry)
  /\ top >= Visibility /\ Below(r, CatalogEntry) => r.entry \in entitled[o].visible

\* ... and what the records of a list have told, and the entries it is through.
FoundAll(o, r) ==
  /\ \A e \in r.todo : /\ r.layer = Visibility => Shared(o, e)
                       /\ r.layer = ReviewAssignment => e \in entitled[o].party
  /\ \A e \in r.shown : Entitles(o, r.layer, e)

Seen(o, r) ==
  /\ r.op \in Walks => Found(o, r)
  /\ r.op = "list" => FoundAll(o, r)
  /\ r.op \in {"get", "clear", "apply"} => r.layer >= Visibility

EInv == IInv /\ \A o \in Operators : Seen(o, req[o])

Honest(o) == Reveals(o) /\ Records(o)

Kept(o) == \A p \in Operators : p # o => req'[p] = req[p]

\* What a step of o has to show.
Fair(o) == Seen(o, req[o])' /\ Honest(o) /\ Kept(o)

-----------------------------------------------------------------------------
(* The requests of the other operators *)

\* During a request nothing it was entitled to is forgotten.
LEMMA EntitledGrows ==
  ASSUME IInv, Remember, NEW o \in Operators, req'[o].pc # "idle"
  PROVE  /\ entitled[o].visible \cup VisibleTo(o)' = entitled'[o].visible
         /\ entitled[o].party \cup PartyOf(o)' = entitled'[o].party
BY DEF Remember

LEMMA ArchivedGrows ==
  ASSUME KeepsArchived, NEW e \in Entries, Archived(e)
  PROVE  Archived(e)'
BY DEF KeepsArchived, Archived

\* What a request has found out stays found out, as long as it goes on.
LEMMA FoundKept ==
  ASSUME IInv, Remember, KeepsArchived, NEW o \in Operators, req'[o].pc # "idle",
         NEW r, Good(o, r)
  PROVE  /\ \A e \in Entries : Shared(o, e) => Shared(o, e)'
         /\ \A e \in Entries, l \in Layers : Entitles(o, l, e) => Entitles(o, l, e)'
         /\ Found(o, r) => Found(o, r)'
         /\ FoundAll(o, r) => FoundAll(o, r)'
<1>1. /\ entitled[o].visible \subseteq entitled'[o].visible
      /\ entitled[o].party \subseteq entitled'[o].party
  BY EntitledGrows
<1>2. r.pc \in {"walking", "resolved"} => r.entry \in Entries
  BY DEF Good, Shape
<1>3. r.todo \subseteq Entries
  BY RequestFields DEF Good, Shape
<1>4. \A e \in Entries : Shared(o, e) => Shared(o, e)'
  BY <1>1, ArchivedGrows DEF Shared
<1>5. Found(o, r) => Found(o, r)'
  BY <1>1, <1>2, <1>4 DEF Found, Below
<1>6. \A e \in Entries, l \in Layers : Entitles(o, l, e) => Entitles(o, l, e)'
  BY <1>1 DEF Entitles
<1>7. FoundAll(o, r) => FoundAll(o, r)'
  BY <1>1, <1>3, <1>4 DEF FoundAll, Entitles
<1> QED BY <1>4, <1>5, <1>6, <1>7

LEMMA SeenKept ==
  ASSUME IInv, Remember, KeepsArchived, NEW o \in Operators, NEW r,
         req'[o] = r, Good(o, r), Seen(o, r)
  PROVE  Seen(o, r)'
<1>1. CASE r.op \notin Walks
  BY <1>1 DEF Seen, Walks
<1>2. CASE r.op \in Walks
  <2>1. req'[o].pc # "idle"
    BY <1>2 DEF Good, Shape, PcsOf, Walks
  <2> QED BY <1>2, <2>1, FoundKept DEF Seen
<1> QED BY <1>1, <1>2

LEMMA OthersHonest ==
  ASSUME EInv, Remember, KeepsArchived, NEW o \in Operators, NEW p \in Operators,
         p # o, req'[p] = req[p]
  PROVE  Seen(p, req[p])' /\ Honest(p)
<1>1. PICK r : r = req[p]
  OBVIOUS
<1>2. Good(p, r) /\ Seen(p, r) /\ req'[p] = r
  BY <1>1 DEF EInv, IInv
<1>3. Seen(p, r)'
  BY <1>2, SeenKept DEF EInv
<1>4. Seen(p, req[p])'
  BY <1>2, <1>3 DEF Seen, Found, FoundAll, Shared, Entitles, Archived
<1>5. Honest(p)
  BY DEF Honest, Reveals, Records, Answered
<1> QED BY <1>4, <1>5
-----------------------------------------------------------------------------
(* The ways a step of a request ends *)

\* The walk of a resolved request has found its operator entitled.
LEMMA ResolvedEntitles ==
  ASSUME EInv, NEW o \in Operators, NEW r, r = req[o], r.op \in Walks,
         r.pc = "resolved", NEW l, l = Top(r.op, r.layer), l \in Nat, l >= Visibility
  PROVE  Entitles(o, l, r.entry)
BY DEF EInv, Seen, Found, Below, Entitles

\* Seen depends on the request, and the state it is seen in, only.
LEMMA SeenNext ==
  ASSUME NEW o \in Operators, NEW r, req'[o] = r, Seen(o, r)'
  PROVE  Seen(o, req[o])'
BY DEF Seen, Found, FoundAll, Shared, Entitles, Archived

LEMMA NoWalkSeen ==
  ASSUME NEW o \in Operators, req'[o].op \notin Walks
  PROVE  Seen(o, req[o])'
BY DEF Seen, Walks

LEMMA NoWalkHonest ==
  ASSUME NEW o \in Operators, req[o].op \notin Walks
  PROVE  Honest(o)
BY DEF Honest, Reveals, Records, Walks

LEMMA GoesOnHonest ==
  ASSUME NEW o \in Operators, row' = row, req'[o].pc # "idle"
  PROVE  Honest(o)
BY DEF Honest, Reveals, Records, Answered

LEMMA NextRequest ==
  ASSUME IInv, NEW o \in Operators, NEW r, Continue(o, r)
  PROVE  req'[o] = r /\ Kept(o)
BY DEF IInv, Continue, Kept

LEMMA IdleNext ==
  ASSUME IInv, NEW o \in Operators, NEW answer \in Answers, NEW shown \in SUBSET Entries,
         Continue(o, Idle(answer, shown))
  PROVE  req'[o].pc = "idle" /\ req'[o].shown = shown /\ Seen(o, req[o])' /\ Kept(o)
<1>1. PICK r : r = Idle(answer, shown)
  OBVIOUS
<1>2. r.op = "none" /\ r.pc = "idle" /\ req'[o] = r /\ Kept(o)
  BY <1>1, IdleIsGood, NextRequest
<1>3. r.shown = shown
  BY <1>1 DEF Idle, Requested
<1>4. req'[o].op \notin Walks
  BY <1>2 DEF Walks
<1> QED BY <1>2, <1>3, <1>4, NoWalkSeen

\* An answer may be about what the operator is entitled to, and that of a set
\* about any entry.
LEMMA AnswerFair ==
  ASSUME EInv, NEW o \in Operators, NEW answer \in Answers, NEW shown \in SUBSET Entries,
         Continue(o, Idle(answer, shown)), row' = row,
         req[o].op \in Walks \ {"set"} =>
           \A e \in shown : Entitles(o, req[o].layer, e)
  PROVE  Fair(o)
<1>1. req'[o].pc = "idle" /\ req'[o].shown = shown /\ Seen(o, req[o])' /\ Kept(o)
  BY IdleNext DEF EInv
<1>2. Honest(o)
  BY <1>1 DEF Honest, Reveals, Records, Walks
<1> QED BY <1>1, <1>2 DEF Fair

\* A save or a delete, whose promise may be rejected.
LEMMA SavedFair ==
  ASSUME EInv, NEW o \in Operators, NEW l, NEW rec, Save(o, l, rec),
         req[o].entry \in Entries,
         req[o].op \in {"get", "list", "clear", "apply"}
           => Entitles(o, req[o].layer, req[o].entry),
         req[o].op = "set" /\ req[o].layer > Visibility
           => Entitles(o, req[o].layer - 1, req[o].entry)
  PROVE  Fair(o)
<1>1. PICK shown \in SUBSET Entries : shown = {req[o].entry}
  OBVIOUS
<1>2. "done" \in Answers /\ "crash" \in Answers
  BY DEF Answers
<1>3. \/ Continue(o, Idle("done", shown)) \/ Continue(o, Idle("crash", shown))
      \/ Continue(o, Idle("crash", {}))
  BY <1>1 DEF Save, Write, Reported
<1>4. /\ req'[o].pc = "idle" /\ Seen(o, req[o])' /\ Kept(o)
      /\ req'[o].shown \subseteq {req[o].entry}
  BY <1>1, <1>2, <1>3, IdleNext DEF EInv
<1>5. Honest(o)
  BY <1>4 DEF Honest, Reveals, Records
<1> QED BY <1>4, <1>5 DEF Fair

\* A request reaches the service, or one that reads no layer goes on.
LEMMA NoWalkFair ==
  ASSUME NEW o \in Operators, req[o].op \notin Walks, req'[o].op \notin Walks, Kept(o)
  PROVE  Fair(o)
BY NoWalkSeen, NoWalkHonest DEF Fair

LEMMA IdleOp ==
  ASSUME IInv, NEW o \in Operators, req[o].pc \in {"idle", "creating", "owning"}
  PROVE  req[o].op \notin Walks
BY InFlight DEF Good, Shape, PcsOf, Walks

LEMMA StoreThrowsFair ==
  ASSUME EInv, NEW o \in Operators, StoreThrows(o) \/ Dies(o)
  PROVE  Fair(o)
<1>1. PICK answer \in Answers : Continue(o, Idle(answer, {})) /\ row' = row
  BY DEF StoreThrows, Dies, Answers
<1> QED BY <1>1, AnswerFair
-----------------------------------------------------------------------------
(* A request reaches the service *)

LEMMA AboutFair ==
  ASSUME IInv, NEW o \in Operators, NEW l \in Layers, NEW e \in Entries,
         NEW op \in {"get", "set", "clear", "apply"}, NEW input,
         l \in Visibility .. ItemSignoff, About(o, op, l, e, input)
  PROVE  Fair(o)
<1>1. PICK r : r = Requested(op, l, e, input, "walking", Top(op, l))
  OBVIOUS
<1>2. /\ r.op = op /\ r.layer = l /\ r.pc = "walking" /\ r.at = Top(op, l)
  BY <1>1 DEF Requested
<1>3. req[o].pc = "idle" /\ Continue(o, r)
  BY <1>1 DEF About, Request
<1>4. req'[o] = r /\ Kept(o)
  BY <1>3, NextRequest
<1>5. Top(op, l) \in Nat
  BY DEF Top
<1>6. Seen(o, r)'
  BY <1>2, <1>5 DEF Seen, Found, Below
<1>7. Honest(o)
  BY <1>3, IdleOp, NoWalkHonest
<1> QED BY <1>4, <1>6, <1>7, SeenNext DEF Fair

LEMMA SetsFair ==
  ASSUME IInv, NEW o \in Operators, NEW e \in Entries, Sets(o, e)
  PROVE  Fair(o)
<1>1. ASSUME NEW l \in Visibility .. ItemSignoff, NEW input, About(o, "set", l, e, input)
      PROVE  Fair(o)
  BY <1>1, AboutFair
<1>2. CASE shareCatalogEntry(o, e) \/ unshareCatalogEntry(o, e) \/ reviewCatalogEntry(o, e)
  BY <1>1, <1>2 DEF shareCatalogEntry, unshareCatalogEntry, reviewCatalogEntry
<1>3. CASE assignCatalogEntry(o, e)
  <2>1. PICK input : About(o, "set", ReviewAssignment, e, input)
    BY <1>3, Zenon DEF assignCatalogEntry
  <2> QED BY <1>1, <2>1
<1>4. CASE \E l \in ListLayers : SetsItems(o, e, l)
  BY <1>1, <1>4 DEF SetsItems
<1> QED BY <1>2, <1>3, <1>4
        DEF Sets, checklistCatalogEntry, progressCatalogEntry, blockCatalogEntry,
            resolveCatalogEntryItems, verifyCatalogEntry, recordCatalogEntryEvidence,
            attestCatalogEntry, acknowledgeCatalogEntry, signOffCatalogEntry

LEMMA ReadsFair ==
  ASSUME IInv, NEW o \in Operators, NEW e \in Entries, Reads(o, e) \/ Clearings(o, e)
  PROVE  Fair(o)
<1>1. \E op \in {"get", "clear", "apply"}, l \in Visibility .. ItemSignoff :
        About(o, op, l, e, {})
  BY DEF Reads, getCatalogVisibility, getCatalogEntry, getCatalogReviewSignal,
         getCatalogReviewAssignment, getCatalogAssignmentChecklist,
         getCatalogChecklistItemProgress, getCatalogChecklistItemBlocker,
         getCatalogChecklistItemResolution, getCatalogChecklistItemVerification,
         getCatalogChecklistItemEvidence, getCatalogChecklistItemAttestation,
         getCatalogChecklistItemAcknowledgment, getCatalogChecklistItemSignoff,
         Clearings, clearCatalogReviewSignal, clearCatalogReviewAssignment,
         clearCatalogAssignmentChecklist, clearCatalogChecklistItemProgress,
         clearCatalogChecklistItemBlocker, clearCatalogChecklistItemResolution,
         clearCatalogChecklistItemVerification, clearCatalogChecklistItemEvidence,
         clearCatalogChecklistItemAttestation, clearCatalogChecklistItemAcknowledgment,
         clearCatalogChecklistItemSignoff, applies, Gets, Clears
<1> QED BY <1>1, AboutFair

\* An owner record that resolves shares its entry, unless that is archived.
LEMMA VisibilityResolves ==
  ASSUME IInv, NEW o \in Operators, NEW e \in Entries,
         Resolves(Visibility, row[Visibility][e], o)
  PROVE  e \in VisibleTo(o) \/ Archived(e)
<1>1. resolveCatalogVisibility(row[Visibility][e], o)
  BY DEF Resolves
<1>2. row[Visibility][e] # None
  BY <1>1 DEF resolveCatalogVisibility
<1>3. ~Pending(e)
  BY <1>2 DEF IInv, EntriesFirst
<1> QED BY <1>1, <1>3
        DEF resolveCatalogVisibility, isCrossRunAuditCatalogVisibleToViewer, VisibleTo,
            Archived, Pending

LEMMA AssignmentResolves ==
  ASSUME NEW o \in Operators, NEW e \in Entries,
         Resolves(ReviewAssignment, row[ReviewAssignment][e], o)
  PROVE  e \in PartyOf(o)
<1>1. resolveCatalogReviewAssignment(row[ReviewAssignment][e], o)
  BY DEF Resolves
<1> QED BY <1>1 DEF resolveCatalogReviewAssignment, PartyOf

LEMMA EntryResolves ==
  ASSUME NEW o \in Operators, NEW e \in Entries,
         Resolves(CatalogEntry, row[CatalogEntry][e], o)
  PROVE  ~Archived(e)
<1>1. resolveCatalogEntry(row[CatalogEntry][e])
  BY DEF Resolves
<1> QED BY <1>1 DEF resolveCatalogEntry, Archived

\* ... and what it tells is remembered when the request goes on.
LEMMA ResolvesRemembered ==
  ASSUME IInv, Remember, row' = row, NEW o \in Operators, req'[o].pc # "idle",
         NEW e \in Entries
  PROVE  /\ Resolves(Visibility, row[Visibility][e], o) => Shared(o, e)'
         /\ Resolves(ReviewAssignment, row[ReviewAssignment][e], o)
              => e \in entitled'[o].party
<1>1. VisibleTo(o)' = VisibleTo(o) /\ PartyOf(o)' = PartyOf(o)
      /\ (Archived(e)' <=> Archived(e))
  BY DEF VisibleTo, PartyOf, Archived
<1>2. /\ VisibleTo(o)' \subseteq entitled'[o].visible
      /\ PartyOf(o)' \subseteq entitled'[o].party
  BY EntitledGrows
<1> QED BY <1>1, <1>2, VisibilityResolves, AssignmentResolves DEF Shared

LEMMA ListsFair ==
  ASSUME IInv, Remember, NEW o \in Operators, NEW l \in Visibility .. ItemSignoff,
         Lists(o, l)
  PROVE  Fair(o)
<1> DEFINE listed == {e \in Entries : Resolves(l, row[l][e], o)}
           got == [e \in Entries |-> [k \in Layers |->
                     IF e \in listed /\ k = l THEN ItemsAt(l, e) ELSE {}]]
<1>1. PICK r : r = [Requested("list", l, None, {}, "listing", l)
                      EXCEPT !.todo = listed, !.got = got]
  OBVIOUS
<1>2. Request(o, l, r)
  BY <1>1 DEF Lists
<1> HIDE DEF got
<1>3. /\ r.op = "list" /\ r.layer = l /\ r.pc = "listing" /\ r.todo = listed
      /\ r.shown = {}
  BY <1>1 DEF Requested
<1>4. req[o].pc = "idle" /\ Continue(o, r) /\ row' = row
  BY <1>2 DEF Request
<1>5. req'[o] = r /\ Kept(o)
  BY <1>4, NextRequest
<1>6. \A e \in listed : /\ l = Visibility => Shared(o, e)'
                        /\ l = ReviewAssignment => e \in entitled'[o].party
  BY <1>3, <1>4, <1>5, ResolvesRemembered
<1>7. FoundAll(o, r)'
  BY <1>3, <1>6 DEF FoundAll, Shared, Archived
<1>8. Seen(o, r)'
  BY <1>3, <1>7 DEF Seen, Found, Below
<1>9. Honest(o)
  BY <1>4, IdleOp, NoWalkHonest
<1> QED BY <1>5, <1>8, <1>9, SeenNext DEF Fair

LEMMA ListingsFair ==
  ASSUME IInv, Remember, NEW o \in Operators, Listings(o)
  PROVE  Fair(o)
<1>1. \E l \in Visibility .. ItemSignoff : Lists(o, l)
  BY DEF Listings, listVisibleCatalogEntries, listCatalogEntries,
         listReviewedCatalogEntries, listAssignedCatalogEntries,
         listChecklistedCatalogEntries, listProgressedCatalogEntries,
         listBlockedCatalogEntries, listResolvedCatalogEntries,
         listVerifiedCatalogEntries, listEvidencedCatalogEntries,
         listAttestedCatalogEntries, listAcknowledgedCatalogEntries,
         listSignedOffCatalogEntries
<1> QED BY <1>1, ListsFair

LEMMA EntryRequestsFair ==
  ASSUME IInv, NEW o \in Operators, NEW e \in Entries,
         saveSavedView(o, e) \/ publishes(o, e) \/ archives(o, e)
  PROVE  Fair(o)
<1>1. req[o].op \notin Walks
  BY IdleOp DEF saveSavedView, publishes, archives, Request
<1>2. PICK r : Continue(o, r) /\ (\/ \E answer \in Answers : r = Idle(answer, {})
                                  \/ \E l, pc : r = Requested("publish", l, e, {}, pc, SavedView)
                                  \/ \E l, pc : r = Requested("archive", l, e, {}, pc, SavedView))
  BY DEF saveSavedView, publishes, archives, Request, Answers
<1>3. r.op \notin Walks
  <2>1. ASSUME NEW answer \in Answers, r = Idle(answer, {})
        PROVE  r.op = "none"
    BY <2>1, IdleIsGood
  <2>2. ASSUME NEW op, NEW l, NEW pc, r = Requested(op, l, e, {}, pc, SavedView)
        PROVE  r.op = op
    BY <2>2 DEF Requested
  <2> QED BY <1>2, <2>1, <2>2 DEF Walks
<1> QED BY <1>1, <1>2, <1>3, NextRequest, NoWalkFair
-----------------------------------------------------------------------------
(* The walk *)

LEMMA WalkFair ==
  ASSUME EInv, Remember, KeepsArchived, NEW o \in Operators, Walk(o)
  PROVE  Fair(o)
<1>1. PICK q : q = req[o]
  OBVIOUS
<1>2. /\ IInv /\ q \in RequestType /\ Good(o, q) /\ q.pc = "walking" /\ q.entry \in Entries
      /\ Seen(o, q) /\ q.at \in Layers /\ row' = row
  BY <1>1, InFlight, RequestFields DEF Walk, EInv
<1>3. q.op \in Walks \/ q.op = "publish"
  BY <1>2, RequestFields DEF Good, Shape, PcsOf, Ops, Walks
<1>4. q.op = "list" => q.layer \in Layers
  BY <1>2 DEF Good, Shape
<1>5. ASSUME NEW r, Continue(o, r), r.pc \in {"walking", "resolved", "missing"},
             r.op = q.op, r.layer = q.layer, r.entry = q.entry, r.todo = q.todo,
             r.shown = q.shown,
             Found(o, q)' => Found(o, r)'
      PROVE  Fair(o)
  <2>1. req'[o] = r /\ Kept(o)
    BY <1>2, <1>5, NextRequest
  <2>2. req'[o].pc # "idle"
    BY <1>5, <2>1
  <2>3. q.op \in Walks => Found(o, r)'
    BY <1>2, <1>5, <2>2, FoundKept DEF Seen
  <2>4. q.op = "list" => FoundAll(o, q)'
    BY <1>2, <2>2, FoundKept DEF Seen
  <2>5. r.op = "list" => FoundAll(o, r)'
    BY <1>5, <2>4 DEF FoundAll, Shared, Entitles, Archived
  <2>6. Seen(o, r)'
    BY <1>2, <1>5, <2>3, <2>5 DEF Seen
  <2>7. Honest(o)
    BY <1>2, <2>2, GoesOnHonest
  <2> QED BY <2>1, <2>6, <2>7, SeenNext DEF Fair
<1>6. CASE Continue(o, [q EXCEPT !.pc = "missing"])
  <2>1. PICK r : r = [q EXCEPT !.pc = "missing"]
    OBVIOUS
  <2>2. /\ r.pc = "missing" /\ r.op = q.op /\ r.layer = q.layer /\ r.entry = q.entry
        /\ r.todo = q.todo /\ r.shown = q.shown
    BY <1>2, <2>1 DEF RequestType
  <2>3. Found(o, r)'
    BY <2>2 DEF Found, Below
  <2> QED BY <1>5, <1>6, <2>1, <2>2, <2>3
<1>7. ASSUME NEW to \in Layers, to <= q.at,
             \A l \in to .. q.at : Resolves(l, row[l][q.entry], o),
             NEW got, NEW at, at = IF to = SavedView THEN SavedView ELSE to - 1,
             NEW pc, pc = IF to = SavedView THEN "resolved" ELSE "walking",
             Continue(o, [q EXCEPT !.got = got, !.at = at, !.pc = pc])
      PROVE  Fair(o)
  <2>1. PICK r : r = [q EXCEPT !.got = got, !.at = at, !.pc = pc]
    OBVIOUS
  <2>2. /\ r.pc = pc /\ r.at = at /\ r.op = q.op /\ r.layer = q.layer
        /\ r.entry = q.entry /\ r.todo = q.todo /\ r.shown = q.shown
    BY <1>2, <2>1 DEF RequestType
  <2>3. req'[o].pc # "idle"
    <3>1. Continue(o, r)
      BY <1>7, <2>1
    <3>2. req'[o] = r
      BY <1>2, <3>1, NextRequest
    <3> QED BY <1>7, <2>2, <3>2
  <2>4. \A l \in Layers : Below(r, l) => Below(q, l) \/ l \in to .. q.at
    BY <1>2, <1>7, <2>2 DEF Below
  <2>5. ReviewAssignment \in to .. q.at => q.entry \in entitled'[o].party
    BY <1>2, <1>7, <2>3, ResolvesRemembered
  <2>6. Visibility \in to .. q.at => Shared(o, q.entry)'
    BY <1>2, <1>7, <2>3, ResolvesRemembered
  <2>7. CatalogEntry \in to .. q.at => ~Archived(q.entry)'
    BY <1>2, <1>7, EntryResolves DEF Archived
  <2>8. Below(r, CatalogEntry) => Below(r, Visibility)
    BY <1>2, <1>7, <2>2 DEF Below
  <2>9. ASSUME Found(o, q)'
        PROVE  Found(o, r)'
    <3> DEFINE top == Top(q.op, q.layer)
    <3>1. Top(r.op, r.layer) = top
      BY <2>2
    <3> HIDE DEF top
    <3>2. top >= ReviewAssignment /\ Below(r, ReviewAssignment)
            => q.entry \in entitled'[o].party
      BY <2>4, <2>5, <2>9 DEF Found, top, Below
    <3>3. top >= Visibility /\ Below(r, Visibility) => Shared(o, q.entry)'
      BY <2>4, <2>6, <2>9 DEF Found, top, Below
    <3>4. top >= Visibility /\ Below(r, CatalogEntry) => q.entry \in entitled'[o].visible
      <4>1. CASE Below(q, CatalogEntry)
        BY <2>9, <4>1 DEF Found, top, Below
      <4>2. CASE CatalogEntry \in to .. q.at
        BY <2>7, <2>8, <3>3, <4>2 DEF Shared
      <4> QED BY <2>4, <4>1, <4>2
    <3> QED BY <2>2, <3>1, <3>2, <3>3, <3>4 DEF Found, Below, Shared
  <2> QED BY <1>5, <1>7, <2>1, <2>2, <2>9
<1>8. PICK to \in Layers :
        /\ ReadsDownTo(o, to)
        /\ IF \A l \in to .. q.at : Resolves(l, row[l][q.entry], o)
           THEN Continue(o, [q EXCEPT
                  !.got[q.entry] = [l \in Layers |->
                                      IF l \in to .. q.at THEN ItemsAt(l, q.entry) ELSE @[l]],
                  !.at = IF to = SavedView THEN SavedView ELSE to - 1,
                  !.pc = IF to = SavedView THEN "resolved" ELSE "walking"])
           ELSE Continue(o, [q EXCEPT !.pc = "missing"])
  BY <1>1 DEF Walk
<1>9. to <= q.at
  BY <1>1, <1>8 DEF ReadsDownTo
<1>10. CASE \A l \in to .. q.at : Resolves(l, row[l][q.entry], o)
  <2>1. PICK got : got = [q.got EXCEPT ![q.entry] =
                            [l \in Layers |-> IF l \in to .. q.at
                                              THEN ItemsAt(l, q.entry) ELSE @[l]]]
    OBVIOUS
  <2>2. PICK at : at = IF to = SavedView THEN SavedView ELSE to - 1
    OBVIOUS
  <2>3. PICK pc : pc = IF to = SavedView THEN "resolved" ELSE "walking"
    OBVIOUS
  <2>4. Continue(o, [q EXCEPT !.got = got, !.at = at, !.pc = pc])
    BY <1>8, <1>10, <2>1, <2>2, <2>3
  <2> QED BY <1>7, <1>9, <1>10, <2>2, <2>3, <2>4
<1> QED BY <1>6, <1>8, <1>10

LEMMA TopOf ==
  ASSUME IInv, NEW o \in Operators
  PROVE  /\ req[o].layer \in Layers
         /\ req[o].op # "set" => Top(req[o].op, req[o].layer) = req[o].layer
         /\ req[o].op = "set" => Top(req[o].op, req[o].layer) = req[o].layer - 1
         /\ req[o].op = "list" => req[o].layer >= Visibility
BY InFlight, RequestFields DEF Top, Good, Shape

\* What the answer of a resolved request is about.
LEMMA EntryEntitled ==
  ASSUME EInv, NEW o \in Operators, req[o].pc = "resolved"
  PROVE  /\ req[o].op \in Walks \ {"set"} => Entitles(o, req[o].layer, req[o].entry)
         /\ req[o].op = "set" /\ req[o].layer > Visibility
              => Entitles(o, req[o].layer - 1, req[o].entry)
<1>1. PICK l : l = Top(req[o].op, req[o].layer)
  OBVIOUS
<1>2. CASE req[o].op \in Walks \ {"set"}
  <2>1. l = req[o].layer /\ l \in Nat /\ l >= Visibility
    BY <1>1, <1>2, TopOf DEF EInv, Seen, Walks
  <2> QED BY <1>1, <1>2, <2>1, ResolvedEntitles
<1>3. CASE req[o].op = "set" /\ req[o].layer > Visibility
  <2>1. l = req[o].layer - 1 /\ l \in Nat /\ l >= Visibility /\ "set" \in Walks
    BY <1>1, <1>3, TopOf DEF EInv, Walks
  <2> QED BY <1>1, <1>3, <2>1, ResolvedEntitles
<1> QED BY <1>2, <1>3

LEMMA ViewFair ==
  ASSUME EInv, NEW o \in Operators, req[o].pc \in {"resolved", "missing"}, View(o)
  PROVE  Fair(o)
<1>1. row' = row /\ {"not_found", "crash", "shown"} \subseteq Answers
  BY DEF View, Answer, Answers
<1>2. CASE Continue(o, Idle("not_found", {}))
  BY <1>1, <1>2, AnswerFair
<1>3. ASSUME NEW answer \in {"crash", "shown"}, req[o].pc = "resolved",
             Continue(o, Idle(answer, {req[o].entry}))
      PROVE  Fair(o)
  <2>1. {req[o].entry} \in SUBSET Entries /\ answer \in Answers
    BY <1>1, <1>3, InFlight DEF EInv
  <2>2. req[o].op \in Walks \ {"set"} => Entitles(o, req[o].layer, req[o].entry)
    BY <1>3, EntryEntitled
  <2>3. PICK shown \in SUBSET Entries : shown = {req[o].entry}
    BY <2>1
  <2>4. Continue(o, Idle(answer, shown))
    BY <1>3, <2>3
  <2> QED BY <1>1, <2>1, <2>2, <2>3, <2>4, AnswerFair
<1> QED BY <1>2, <1>3 DEF View, Answer

LEMMA GetEndsFair ==
  ASSUME EInv, NEW o \in Operators, NEW l, GetEnds(o, l)
  PROVE  Fair(o)
BY ViewFair DEF GetEnds, Ends

LEMMA ClearEndsFair ==
  ASSUME EInv, NEW o \in Operators, NEW l, ClearEnds(o, l)
  PROVE  Fair(o)
<1>1. req[o].pc \in {"resolved", "missing"} /\ req[o].op = "clear"
  BY DEF ClearEnds, Ends
<1>2. CASE View(o)
  BY <1>1, <1>2, ViewFair
<1>3. CASE req[o].pc = "resolved" /\ Save(o, l, None)
  <2>1. req[o].entry \in Entries /\ "clear" \in Walks
    BY <1>1, InFlight DEF EInv, Walks
  <2>2. PICK rec : rec = None
    OBVIOUS
  <2> QED BY <1>1, <1>3, <2>1, <2>2, EntryEntitled, SavedFair
<1> QED BY <1>1, <1>2, <1>3 DEF ClearEnds

LEMMA ListedEndsFair ==
  ASSUME EInv, Remember, KeepsArchived, NEW o \in Operators, NEW l, ListedEnds(o, l)
  PROVE  Fair(o)
<1>1. PICK q : q = req[o]
  OBVIOUS
<1>2. /\ IInv /\ q \in RequestType /\ Good(o, q) /\ q.entry \in Entries /\ q.op = "list"
      /\ Seen(o, q) /\ q.layer \in Layers
  BY <1>1, InFlight, RequestFields DEF ListedEnds, Ends, EInv
<1>3. q.pc = "resolved" => Entitles(o, q.layer, q.entry)
  BY <1>1, <1>2, EntryEntitled DEF Walks
<1>4. q.shown \in SUBSET Entries /\ \A e \in q.shown : Entitles(o, q.layer, e)
  BY <1>2, RequestFields DEF Seen, FoundAll
<1>5. CASE q.pc = "resolved" /\ Answer(o, "crash", q.shown \cup {q.entry})
  <2>1. PICK shown \in SUBSET Entries : shown = q.shown \cup {q.entry}
    BY <1>2, <1>4
  <2>2. Continue(o, Idle("crash", shown)) /\ row' = row /\ "crash" \in Answers
    BY <1>5, <2>1 DEF Answer, Answers
  <2> QED BY <1>1, <1>3, <1>4, <1>5, <2>1, <2>2, AnswerFair
<1>6. ASSUME Continue(o, [q EXCEPT !.pc = "listing", !.entry = None,
                            !.todo = @ \ {q.entry},
                            !.shown = IF q.pc = "resolved" THEN @ \cup {q.entry} ELSE @]),
             UNCHANGED <<row, ever, throws>>
      PROVE  Fair(o)
  <2>1. PICK r : r = [q EXCEPT !.pc = "listing", !.entry = None,
                        !.todo = @ \ {q.entry},
                        !.shown = IF q.pc = "resolved" THEN @ \cup {q.entry} ELSE @]
    OBVIOUS
  <2>2. /\ r.pc = "listing" /\ r.op = "list" /\ r.layer = q.layer
        /\ r.todo \subseteq q.todo
        /\ r.shown = IF q.pc = "resolved" THEN q.shown \cup {q.entry} ELSE q.shown
    BY <1>2, <2>1 DEF RequestType
  <2>3. req'[o] = r /\ req'[o].pc # "idle" /\ Kept(o)
    BY <1>2, <1>6, <2>1, <2>2, NextRequest
  <2>4. FoundAll(o, q)'
    BY <1>2, <2>3, FoundKept DEF Seen
  <2>5. \A e \in r.shown : Entitles(o, r.layer, e)'
    BY <1>2, <1>3, <1>4, <2>2, <2>3, FoundKept
  <2>6. FoundAll(o, r)'
    BY <2>2, <2>4, <2>5 DEF FoundAll, Shared, Entitles, Archived
  <2>7. Seen(o, r)'
    BY <2>2, <2>6 DEF Seen, Found, Below
  <2>8. Honest(o)
    BY <1>6, <2>3, GoesOnHonest
  <2> QED BY <2>3, <2>7, <2>8, SeenNext DEF Fair
<1> QED BY <1>1, <1>5, <1>6 DEF ListedEnds

LEMMA ListNextFair ==
  ASSUME EInv, Remember, KeepsArchived, NEW o \in Operators, ListNext(o)
  PROVE  Fair(o)
<1>1. PICK q : q = req[o]
  OBVIOUS
<1>2. /\ IInv /\ q \in RequestType /\ Good(o, q) /\ q.pc = "listing"
      /\ Seen(o, q) /\ q.layer \in Layers
  BY <1>1, InFlight, RequestFields DEF ListNext, EInv
<1>3. q.op = "list" /\ q.layer \in Visibility .. ItemSignoff
  BY <1>2, RequestFields DEF Good, Shape, PcsOf, Ops
<1>4. FoundAll(o, q) /\ q.shown \in SUBSET Entries /\ q.todo \in SUBSET Entries
  BY <1>2, <1>3, RequestFields DEF Seen
<1>5. CASE Answer(o, "shown", q.shown)
  <2>1. Continue(o, Idle("shown", q.shown)) /\ row' = row /\ "shown" \in Answers
    BY <1>5 DEF Answer, Answers
  <2>2. \A e \in q.shown : Entitles(o, req[o].layer, e)
    BY <1>1, <1>4 DEF FoundAll
  <2>3. PICK shown \in SUBSET Entries : shown = q.shown
    BY <1>4
  <2> QED BY <2>1, <2>2, <2>3, AnswerFair
<1>6. ASSUME NEW e \in q.todo, UNCHANGED <<row, ever, throws>>,
             Continue(o, [q EXCEPT !.pc = "walking", !.entry = e, !.at = q.layer - 1])
      PROVE  Fair(o)
  <2>1. PICK r : r = [q EXCEPT !.pc = "walking", !.entry = e, !.at = q.layer - 1]
    OBVIOUS
  <2>2. /\ r.pc = "walking" /\ r.op = "list" /\ r.layer = q.layer /\ r.entry = e
        /\ r.at = q.layer - 1 /\ r.todo = q.todo /\ r.shown = q.shown
    BY <1>2, <1>3, <2>1 DEF RequestType
  <2>3. req'[o] = r /\ req'[o].pc # "idle" /\ Kept(o)
    BY <1>2, <1>6, <2>1, <2>2, NextRequest
  <2>4. FoundAll(o, q)'
    BY <1>2, <1>4, <2>3, FoundKept
  <2>5. FoundAll(o, r)'
    BY <2>2, <2>4 DEF FoundAll, Shared, Entitles, Archived
  <2>6. /\ r.layer = Visibility => Shared(o, r.entry)'
        /\ r.layer = ReviewAssignment => r.entry \in entitled'[o].party
    BY <2>2, <2>4 DEF FoundAll
  <2>7. Found(o, r)'
    BY <1>3, <2>2, <2>6 DEF Found, Below, Top, Shared, Archived
  <2>8. Seen(o, r)'
    BY <2>2, <2>5, <2>7 DEF Seen
  <2>9. Honest(o)
    BY <1>6, <2>3, GoesOnHonest
  <2> QED BY <2>3, <2>8, <2>9, SeenNext DEF Fair
<1> QED BY <1>1, <1>5, <1>6 DEF ListNext

LEMMA QueriesFair ==
  ASSUME EInv, Remember, KeepsArchived, NEW o \in Operators, Queries(o)
  PROVE  Fair(o)
<1>1. CASE CatalogVisibilityQuery(o)
  BY <1>1, GetEndsFair, ListedEndsFair DEF CatalogVisibilityQuery
<1>2. CASE \E l \in ReviewSignal .. ItemSignoff : LayerEnds(o, l)
  BY <1>2, GetEndsFair, ClearEndsFair, ListedEndsFair DEF LayerEnds
<1> QED BY <1>1, <1>2
        DEF Queries, CatalogReviewSignalQuery, CatalogReviewAssignmentQuery,
            CatalogAssignmentChecklistQuery, CatalogChecklistItemProgressQuery,
            CatalogChecklistItemBlockerQuery, CatalogChecklistItemResolutionQuery,
            CatalogChecklistItemVerificationQuery, CatalogChecklistItemEvidenceQuery,
            CatalogChecklistItemAttestationQuery,
            CatalogChecklistItemAcknowledgmentQuery, CatalogChecklistItemSignoffQuery
-----------------------------------------------------------------------------
(* Setting a layer, publishing, archiving and applying *)

\* A set answers, or saves when its walk has resolved.
SetsSomething(o, l) ==
  /\ Ends(o, "set", l)
  /\ \/ \E told \in Answers : Refused(o, told)
     \/ /\ l > Visibility => req[o].pc = "resolved"
        /\ \E rec : Save(o, l, rec)

LEMMA SetsSomethingFair ==
  ASSUME EInv, NEW o \in Operators, NEW l \in Layers, SetsSomething(o, l)
  PROVE  Fair(o)
<1>1. /\ req[o].op = "set" /\ req[o].layer = l /\ req[o].entry \in Entries
  BY InFlight DEF SetsSomething, Ends, EInv
<1>2. ASSUME NEW told \in Answers, Refused(o, told)
      PROVE  Fair(o)
  <2>1. PICK shown \in SUBSET Entries : Answer(o, told, shown)
    BY <1>1, <1>2 DEF Refused
  <2>2. Continue(o, Idle(told, shown)) /\ row' = row
    BY <2>1 DEF Answer
  <2> QED BY <1>1, <2>2, AnswerFair
<1>3. ASSUME NEW rec, Save(o, l, rec), l > Visibility => req[o].pc = "resolved"
      PROVE  Fair(o)
  BY <1>1, <1>3, EntryEntitled, SavedFair
<1> QED BY <1>2, <1>3 DEF SetsSomething

LEMMA BelowResolved ==
  ASSUME NEW o \in Operators, req[o].pc \in {"resolved", "missing"},
         BelowFault(o) = NoFault \/ ItemsFault(o) = NoFault
  PROVE  req[o].pc = "resolved"
<1>1. BelowFault(o) = NoFault
  BY DEF ItemsFault
<1>2. Fault(req[o].layer, "absent") # NoFault
  BY DEF Fault, NoFault
<1> QED BY <1>1, <1>2 DEF BelowFault

LEMMA SetVisibilityFair ==
  ASSUME EInv, NEW o \in Operators, setCatalogVisibilityState(o)
  PROVE  Fair(o)
<1>1. PICK q : q = req[o]
  OBVIOUS
<1>2. /\ IInv /\ q \in RequestType /\ q.entry \in Entries
      /\ q.op \in {"publish", "set"} /\ row' = row
  BY <1>1, InFlight DEF setCatalogVisibilityState, SetsVisibility, Refused, Answer, EInv
<1>3. ASSUME NEW found, Continue(o, [q EXCEPT !.pc = "saving", !.found = found])
      PROVE  Fair(o)
  <2>1. PICK r : r = [q EXCEPT !.pc = "saving", !.found = found]
    OBVIOUS
  <2>2. r.op = q.op /\ r.pc = "saving"
    BY <1>2, <2>1 DEF RequestType
  <2>3. req'[o] = r /\ Kept(o)
    BY <1>2, <1>3, <2>1, NextRequest
  <2>4. Seen(o, r)'
    BY <1>2, <2>2 DEF Seen, Found, Below
  <2>5. Honest(o)
    BY <1>2, <2>2, <2>3, GoesOnHonest
  <2> QED BY <2>3, <2>4, <2>5, SeenNext DEF Fair
<1>4. ASSUME NEW told \in Answers, Refused(o, told)
      PROVE  Fair(o)
  <2>1. PICK shown \in SUBSET Entries : Answer(o, told, shown)
    BY <1>1, <1>2, <1>4 DEF Refused
  <2>2. Continue(o, Idle(told, shown))
    BY <2>1 DEF Answer
  <2>3. req[o].op \notin Walks \ {"set"}
    BY <1>1, <1>2 DEF Walks
  <2> QED BY <1>2, <2>2, <2>3, AnswerFair
<1>5. OwnerFault(o) # NoFault => Told(Visibility, OwnerFault(o)) \in Answers
  BY FaultKinds, ToldIsAnswer
<1>6. "crash" \in Answers
  BY DEF Answers
<1> QED BY <1>1, <1>3, <1>4, <1>5, <1>6
        DEF setCatalogVisibilityState, normalizeCatalogVisibilityError

LEMMA SetReviewFair ==
  ASSUME EInv, NEW o \in Operators, setCatalogReviewSignal(o)
  PROVE  Fair(o)
<1>1. Ends(o, "set", ReviewSignal) /\ req[o].pc \in {"resolved", "missing"}
  BY DEF setCatalogReviewSignal, Ends
<1>2. BelowFault(o) # NoFault => Told(ReviewSignal, BelowFault(o)) \in Answers
  BY FaultKinds, ToldIsAnswer
<1>3. BelowFault(o) = NoFault => req[o].pc = "resolved"
  BY <1>1, BelowResolved
<1>4. SetsSomething(o, ReviewSignal)
  BY <1>1, <1>2, <1>3 DEF SetsSomething, setCatalogReviewSignal,
                          normalizeCatalogReviewSignalError
<1> QED BY <1>4, SetsSomethingFair

LEMMA SetAssignmentFair ==
  ASSUME EInv, NEW o \in Operators, setCatalogReviewAssignment(o)
  PROVE  Fair(o)
<1> DEFINE fault == IF BelowFault(o) # NoFault THEN BelowFault(o)
                    ELSE IF req[o].input = {} THEN Fault(ReviewAssignment, "items")
                    ELSE NoFault
<1>1. Ends(o, "set", ReviewAssignment) /\ req[o].pc \in {"resolved", "missing"}
  BY DEF setCatalogReviewAssignment, Ends
<1>2. fault # NoFault => fault.kind \in Kinds
  BY FaultKinds DEF Fault, Kinds
<1>3. fault = NoFault => req[o].pc = "resolved"
  BY <1>1, BelowResolved
<1>4. \/ fault # NoFault /\ Refused(o, Told(ReviewAssignment, fault))
      \/ fault = NoFault /\ \E rec : Save(o, ReviewAssignment, rec)
  BY DEF setCatalogReviewAssignment, normalizeCatalogReviewAssignmentError
<1> HIDE DEF fault
<1>5. fault # NoFault => Told(ReviewAssignment, fault) \in Answers
  BY <1>2, ToldIsAnswer
<1>6. SetsSomething(o, ReviewAssignment)
  BY <1>1, <1>3, <1>4, <1>5 DEF SetsSomething
<1> QED BY <1>6, SetsSomethingFair

LEMMA SetChecklistFair ==
  ASSUME EInv, NEW o \in Operators, setCatalogAssignmentChecklist(o)
  PROVE  Fair(o)
<1>1. Ends(o, "set", AssignmentChecklist) /\ req[o].pc \in {"resolved", "missing"}
  BY DEF setCatalogAssignmentChecklist, Ends
<1>2. BelowFault(o) # NoFault => Told(AssignmentChecklist, BelowFault(o)) \in Answers
  BY FaultKinds, ToldIsAnswer
<1>3. BelowFault(o) = NoFault => req[o].pc = "resolved"
  BY <1>1, BelowResolved
<1>4. SetsSomething(o, AssignmentChecklist)
  BY <1>1, <1>2, <1>3 DEF SetsSomething, setCatalogAssignmentChecklist,
                          normalizeCatalogAssignmentChecklistError
<1> QED BY <1>4, SetsSomethingFair

LEMMA SetsLayerFair ==
  ASSUME EInv, NEW o \in Operators, NEW l \in ItemLayers, SetsLayer(o, l)
  PROVE  Fair(o)
<1>1. Ends(o, "set", l) /\ req[o].pc \in {"resolved", "missing"}
  BY DEF SetsLayer, Ends
<1>2. ItemsFault(o) # NoFault => Told(l, ItemsFault(o)) \in Answers
  BY FaultKinds, ToldIsAnswer
<1>3. ItemsFault(o) = NoFault => req[o].pc = "resolved"
  BY <1>1, BelowResolved
<1>4. SetsSomething(o, l)
  BY <1>1, <1>2, <1>3 DEF SetsSomething, SetsLayer
<1> QED BY <1>4, SetsSomethingFair

LEMMA SettingsFair ==
  ASSUME EInv, NEW o \in Operators, Settings(o)
  PROVE  Fair(o)
<1>1. CASE setCatalogVisibilityState(o) \/ setCatalogReviewSignal(o)
           \/ setCatalogReviewAssignment(o) \/ setCatalogAssignmentChecklist(o)
  BY <1>1, SetVisibilityFair, SetReviewFair, SetAssignmentFair, SetChecklistFair
<1>2. CASE \E l \in ItemLayers : SetsLayer(o, l)
  BY <1>2, SetsLayerFair
<1> QED BY <1>1, <1>2, SetsItemLayer DEF Settings

LEMMA PublishingFair ==
  ASSUME EInv, NEW o \in Operators, Publishing(o)
  PROVE  Fair(o)
<1>1. CASE publishCatalogEntry(o)
  <2>1. req[o].op \notin Walks /\ req[o] \in RequestType
    BY <1>1, IdleOp, InFlight DEF publishCatalogEntry, EInv
  <2>2. PICK r : r = [req[o] EXCEPT !.pc = "walking", !.at = CatalogEntry]
    OBVIOUS
  <2>3. r.op = req[o].op
    BY <2>1, <2>2 DEF RequestType
  <2>4. Continue(o, r) \/ Continue(o, Idle("crash", {}))
    BY <1>1, <2>2 DEF publishCatalogEntry, Write, Reported
  <2>5. Idle("crash", {}).op = "none"
    BY DEF Idle, Requested
  <2>6. req'[o].op \notin Walks /\ Kept(o)
    BY <2>1, <2>3, <2>4, <2>5, NextRequest DEF EInv, Walks
  <2> QED BY <2>1, <2>6, NoWalkFair
<1>2. CASE saveCatalogVisibility(o)
  <2>1. /\ req[o].op = "publish" \/ (req[o].op = "set" /\ req[o].layer = Visibility)
        /\ req[o].entry \in Entries
    BY <1>2, InFlight DEF saveCatalogVisibility, SetsVisibility, EInv
  <2>2. PICK rec : Save(o, Visibility, rec)
    BY <1>2 DEF saveCatalogVisibility
  <2> QED BY <2>1, <2>2, SavedFair
<1>3. CASE requireOwnedCatalogVisibility(o)
  <2>1. req[o].op \notin Walks /\ req[o] \in RequestType
    BY <1>3, IdleOp, InFlight DEF requireOwnedCatalogVisibility, EInv
  <2>2. PICK r : r = [req[o] EXCEPT !.pc = "resolved"]
    OBVIOUS
  <2>3. r.op = req[o].op
    BY <2>1, <2>2 DEF RequestType
  <2>4. Continue(o, r) \/ Continue(o, Idle("not_found", {})) \/ Continue(o, Idle("conflict", {}))
    BY <1>3, <2>2 DEF requireOwnedCatalogVisibility, Answer
  <2>5. Idle("not_found", {}).op = "none" /\ Idle("conflict", {}).op = "none"
    BY DEF Idle, Requested
  <2>6. req'[o].op \notin Walks /\ Kept(o)
    BY <2>1, <2>3, <2>4, <2>5, NextRequest DEF EInv, Walks
  <2> QED BY <2>1, <2>6, NoWalkFair
<1>4. CASE archiveCatalogEntry(o)
  <2>1. req[o].op = "archive" /\ req[o] \in RequestType
    BY <1>4, InFlight DEF archiveCatalogEntry, Ends, EInv
  <2>2. PICK r : r = [req[o] EXCEPT !.pc = "saving",
                                    !.found = row[CatalogEntry][req[o].entry]]
    OBVIOUS
  <2>3. r.op = req[o].op
    BY <2>1, <2>2 DEF RequestType
  <2>4. Continue(o, r) \/ Continue(o, Idle("not_found", {}))
    BY <1>4, <2>2 DEF archiveCatalogEntry, Answer
  <2>5. Idle("not_found", {}).op = "none"
    BY DEF Idle, Requested
  <2>6. req'[o].op \notin Walks /\ Kept(o)
    BY <2>1, <2>3, <2>4, <2>5, NextRequest DEF EInv, Walks
  <2> QED BY <2>1, <2>6, NoWalkFair DEF Walks
<1>6. CASE saveArchivedEntry(o)
  <2>1. req[o].op = "archive" /\ req[o].entry \in Entries
    BY <1>6, InFlight DEF saveArchivedEntry, EInv
  <2>2. PICK rec : Save(o, CatalogEntry, rec)
    BY <1>6 DEF saveArchivedEntry
  <2> QED BY <2>1, <2>2, SavedFair
<1>5. CASE applyCatalogEntry(o)
  <2>1. req[o].pc \in {"resolved", "missing"}
    BY <1>5 DEF applyCatalogEntry, Ends
  <2>2. CASE Answer(o, "not_found", {})
    <3>1. Continue(o, Idle("not_found", {})) /\ row' = row /\ "not_found" \in Answers
      BY <2>2 DEF Answer, Answers
    <3> QED BY <3>1, AnswerFair
  <2>3. CASE View(o)
    BY <2>1, <2>3, ViewFair
  <2> QED BY <1>5, <2>2, <2>3 DEF applyCatalogEntry
<1> QED BY <1>1, <1>2, <1>3, <1>4, <1>5, <1>6 DEF Publishing

-----------------------------------------------------------------------------
(* The result *)

LEMMA StepFair ==
  ASSUME EInv, Remember, KeepsArchived, NEW o \in Operators, Step(o)
  PROVE  Fair(o)
<1>1. IInv
  BY DEF EInv
<1>2. ASSUME NEW e \in Entries, saveSavedView(o, e) \/ publishes(o, e) \/ archives(o, e)
      PROVE  Fair(o)
  BY <1>1, <1>2, EntryRequestsFair
<1>3. ASSUME NEW e \in Entries, Sets(o, e) \/ Reads(o, e) \/ Clearings(o, e)
      PROVE  Fair(o)
  BY <1>1, <1>3, SetsFair, ReadsFair
<1>4. CASE Listings(o) \/ ListNext(o) \/ Walk(o)
  BY <1>1, <1>4, ListingsFair, ListNextFair, WalkFair
<1>5. CASE Queries(o) \/ Settings(o) \/ Publishing(o) \/ StoreThrows(o) \/ Dies(o)
  BY <1>5, QueriesFair, SettingsFair, PublishingFair, StoreThrowsFair
<1> QED BY <1>2, <1>3, <1>4, <1>5 DEF Step, Arrives

LEMMA NextHonest ==
  ASSUME EInv, Next
  PROVE  EInv' /\ \A o \in Operators : Honest(o)
<1>1. IInv' /\ KeepsArchived /\ Remember
  BY NextPreserves DEF EInv, Preserved, Next
<1>2. PICK o \in Operators : Step(o)
  BY DEF Next
<1>3. Fair(o)
  BY <1>1, <1>2, StepFair
<1>4. \A p \in Operators : Seen(p, req[p])' /\ Honest(p)
  BY <1>1, <1>3, OthersHonest DEF Fair, Kept
<1> QED BY <1>1, <1>4 DEF EInv

LEMMA InitEntitled == Init => EInv
<1> SUFFICES ASSUME Init PROVE EInv
  OBVIOUS
<1>1. IInv
  BY InitInvariant
<1>2. \A o \in Operators : req[o].pc = "idle"
  <2>1. PICK r : r = Idle("none", {})
    OBVIOUS
  <2>2. \A o \in Operators : r.pc = "idle"
    BY <2>1, IdleIsGood DEF Answers
  <2> QED BY <2>1, <2>2 DEF Init
<1>3. \A o \in Operators : req[o].op \notin Walks
  BY <1>1, <1>2, IdleOp
<1>4. \A o \in Operators : Seen(o, req[o])
  BY <1>3 DEF Seen, Walks
<1> QED BY <1>1, <1>4 DEF EInv

LEMMA NextEntitled == EInv /\ [Next]_vars => EInv'
<1> SUFFICES ASSUME EInv, [Next]_vars PROVE EInv'
  OBVIOUS
<1>1. CASE Next
  BY <1>1, NextHonest
<1>2. CASE UNCHANGED vars
  <2>1. IInv'
    BY <1>2, NextInvariant DEF EInv
  <2>2. \A o \in Operators : Seen(o, req[o])'
    BY <1>2 DEF vars, EInv, Seen, Found, FoundAll, Shared, Entitles, Archived
  <2> QED BY <2>1, <2>2 DEF EInv
<1> QED BY <1>1, <1>2

\* For any operators, entries and layers, a request shows, clears and sets only
\* what its operator was entitled to at some moment of it, though the records
\* it decides by are read at different moments.
THEOREM RequestsEntitled == Spec => OnlyEntitled
<1>1. EInv /\ [Next]_vars => [\A o \in Operators : Reveals(o) /\ Records(o)]_vars
  BY NextHonest DEF Honest
<1> QED BY <1>1, InitEntitled, NextEntitled, PTL DEF Spec, OnlyEntitled

-----------------------------------------------------------------------------
(* The requests that reach the service *)

\* A request begins: only a saved view may be written.
Begins(o) == /\ req[o].pc = "idle" /\ UNCHANGED throws
             /\ \/ row' = row
                \/ \E e \in Entries : row' = [row EXCEPT ![SavedView][e] = "saved"]

LEMMA RequestBegins ==
  ASSUME NEW o \in Operators, NEW e \in Entries,
         \/ saveSavedView(o, e) \/ publishes(o, e) \/ archives(o, e)
         \/ Sets(o, e) \/ Reads(o, e) \/ Clearings(o, e)
  PROVE  Begins(o)
<1>1. ASSUME NEW l, NEW r, Request(o, l, r)
      PROVE  Begins(o)
  BY <1>1 DEF Request, Begins
<1>2. ASSUME NEW op, NEW l, NEW input, About(o, op, l, e, input)
      PROVE  Begins(o)
  BY <1>1, <1>2 DEF About
<1>3. CASE saveSavedView(o, e)
  BY <1>3 DEF saveSavedView, Begins
<1>4. CASE publishes(o, e) \/ archives(o, e)
  BY <1>1, <1>4 DEF publishes, archives
<1>5. CASE Sets(o, e)
  <2>1. ASSUME NEW l, SetsItems(o, e, l)
        PROVE  Begins(o)
    BY <1>2, <2>1 DEF SetsItems
  <2>2. CASE shareCatalogEntry(o, e) \/ unshareCatalogEntry(o, e) \/ reviewCatalogEntry(o, e)
    BY <1>2, <2>2 DEF shareCatalogEntry, unshareCatalogEntry, reviewCatalogEntry
  <2>3. CASE assignCatalogEntry(o, e)
    BY <1>2, <2>3, Zenon DEF assignCatalogEntry
  <2>4. CASE \E l \in ListLayers : SetsItems(o, e, l)
    BY <2>1, <2>4
  <2> QED BY <1>5, <2>2, <2>3, <2>4
          DEF Sets, checklistCatalogEntry, progressCatalogEntry, blockCatalogEntry,
              resolveCatalogEntryItems, verifyCatalogEntry, recordCatalogEntryEvidence,
              attestCatalogEntry, acknowledgeCatalogEntry, signOffCatalogEntry
<1>6. CASE Reads(o, e) \/ Clearings(o, e)
  <2>1. \E op \in {"get", "clear", "apply"}, l \in Layers : About(o, op, l, e, {})
    BY <1>6
       DEF Reads, getCatalogVisibility, getCatalogEntry, getCatalogReviewSignal,
           getCatalogReviewAssignment, getCatalogAssignmentChecklist,
           getCatalogChecklistItemProgress, getCatalogChecklistItemBlocker,
           getCatalogChecklistItemResolution, getCatalogChecklistItemVerification,
           getCatalogChecklistItemEvidence, getCatalogChecklistItemAttestation,
           getCatalogChecklistItemAcknowledgment, getCatalogChecklistItemSignoff,
           Clearings, clearCatalogReviewSignal, clearCatalogReviewAssignment,
           clearCatalogAssignmentChecklist, clearCatalogChecklistItemProgress,
           clearCatalogChecklistItemBlocker, clearCatalogChecklistItemResolution,
           clearCatalogChecklistItemVerification, clearCatalogChecklistItemEvidence,
           clearCatalogChecklistItemAttestation, clearCatalogChecklistItemAcknowledgment,
           clearCatalogChecklistItemSignoff, applies, Gets, Clears
  <2> QED BY <1>2, <2>1
<1> QED BY <1>3, <1>4, <1>5, <1>6

LEMMA ListingsBegin ==
  ASSUME NEW o \in Operators, Listings(o)
  PROVE  Begins(o)
<1>1. PICK l \in Layers : Lists(o, l)
  BY DEF Listings, listVisibleCatalogEntries, listCatalogEntries,
         listReviewedCatalogEntries, listAssignedCatalogEntries,
         listChecklistedCatalogEntries, listProgressedCatalogEntries,
         listBlockedCatalogEntries, listResolvedCatalogEntries,
         listVerifiedCatalogEntries, listEvidencedCatalogEntries,
         listAttestedCatalogEntries, listAcknowledgedCatalogEntries,
         listSignedOffCatalogEntries
<1> QED BY <1>1 DEF Lists, Request, Begins

-----------------------------------------------------------------------------
(* What a stale layer is *)

\* The request is answered about an entry with a stale layer.
SaysStale(o) ==
  Stale(o) # {} /\ req[o].entry \in Entries /\ req[o].entry \in req'[o].shown

\* A step of o that does not end its request with an internal error, or ends
\* it for a reason.
Explained(o) ==
  \/ throws' # throws
  \/ req[o].pc = "idle"
  \/ req'[o].pc # "idle"
  \/ req'[o].answer # "crash"
  \/ SaysStale(o)

\* What CrashOnlyAfterLoss says of a step and an operator.
CrashIsLoss(o) ==
  Answered(o) /\ req'[o].answer = "crash" /\ throws' = throws =>
    \E e \in req'[o].shown, l \in ItemLayers :
      /\ l <= Top(req[o].op, req[o].layer)
      /\ \E item \in ever[l - 1][e] :
           item \in req[o].got[e][l] /\ item \notin req[o].got[e][l - 1]

LEMMA ItemsFromBelowDo ==
  ASSUME NEW l \in ItemLayers, NEW items, NEW below, items \subseteq below
  PROVE  Normalizes(l, items, below)
<1>1. CASE l = ItemProgress
  BY <1>1 DEF Normalizes, Allowed, normalizeChecklistItemProgressItems
<1>2. CASE l = ItemBlocker
  BY <1>2 DEF Normalizes, Allowed, normalizeChecklistItemBlockerItems
<1>3. CASE l = ItemResolution
  BY <1>3 DEF Normalizes, Allowed, normalizeChecklistItemResolutionItems
<1>4. CASE l = ItemVerification
  BY <1>4 DEF Normalizes, Allowed, normalizeChecklistItemVerificationItems
<1>5. CASE l = ItemEvidence
  BY <1>5 DEF Normalizes, Allowed, normalizeChecklistItemEvidenceItems
<1>6. CASE l = ItemAttestation
  BY <1>6 DEF Normalizes, Allowed, normalizeChecklistItemAttestationItems
<1>7. CASE l = ItemAcknowledgment
  BY <1>7 DEF Normalizes, Allowed, normalizeChecklistItemAcknowledgmentItems
<1>8. CASE l = ItemSignoff
  BY <1>8 DEF Normalizes, Allowed, normalizeChecklistItemSignoffItems
<1> QED BY <1>1, <1>2, <1>3, <1>4, <1>5, <1>6, <1>7, <1>8

\* A stale layer was read with an item that the layer below, when it was read
\* later, had lost.
LEMMA StaleIsLoss ==
  ASSUME IInv, NEW o \in Operators, Explained(o)
  PROVE  CrashIsLoss(o)
<1> SUFFICES ASSUME SaysStale(o)
             PROVE  \E e \in req'[o].shown, l \in ItemLayers :
                      /\ l <= Top(req[o].op, req[o].layer)
                      /\ \E item \in ever[l - 1][e] :
                           item \in req[o].got[e][l] /\ item \notin req[o].got[e][l - 1]
  BY DEF Explained, CrashIsLoss, Answered
<1>1. PICK e \in Entries : e = req[o].entry /\ e \in req'[o].shown
  BY DEF SaysStale
<1>2. PICK l \in Stale(o) : TRUE
  BY DEF SaysStale
<1>3. /\ l \in ItemLayers /\ l <= Top(req[o].op, req[o].layer)
      /\ ~Normalizes(l, req[o].got[e][l], req[o].got[e][l - 1])
  BY <1>1, <1>2 DEF Stale
<1>4. PICK item \in req[o].got[e][l] : item \notin req[o].got[e][l - 1]
  BY <1>3, ItemsFromBelowDo
<1>5. req[o].got[e][l] \subseteq ever[l - 1][e]
  BY <1>3 DEF IInv, Good, Read
<1> QED BY <1>1, <1>3, <1>4, <1>5

-----------------------------------------------------------------------------
(* The ways a step of a request ends *)

LEMMA IdleFields ==
  ASSUME NEW answer, NEW shown
  PROVE  /\ Idle(answer, shown).pc = "idle" /\ Idle(answer, shown).answer = answer
         /\ Idle(answer, shown).shown = shown
BY DEF Idle, Requested

LEMMA AnswerExplained ==
  ASSUME IInv, NEW o \in Operators, NEW answer, NEW shown, Answer(o, answer, shown),
         answer = "crash" =>
           Stale(o) # {} /\ req[o].entry \in Entries /\ req[o].entry \in shown
  PROVE  Explained(o)
<1>1. req'[o] = Idle(answer, shown)
  BY NextRequest DEF Answer
<1> QED BY <1>1, IdleFields DEF Explained, SaysStale

LEMMA SaveExplained ==
  ASSUME IInv, NEW o \in Operators, NEW l, NEW rec, Save(o, l, rec)
  PROVE  Explained(o)
<1>1. CASE Continue(o, Idle("done", {req[o].entry}))
  <2>1. req'[o].answer = "done"
    BY <1>1, IdleFields, NextRequest
  <2> QED BY <2>1 DEF Explained
<1>2. CASE throws' = throws + 1
  BY <1>2 DEF Explained, IInv, Counters
<1> QED BY <1>1, <1>2 DEF Save, Write, Reported

LEMMA ViewExplained ==
  ASSUME IInv, NEW o \in Operators, req[o].entry \in Entries, View(o)
  PROVE  Explained(o)
<1>1. CASE Answer(o, "not_found", {}) \/ Answer(o, "shown", {req[o].entry})
  BY <1>1, AnswerExplained
<1>2. CASE Stale(o) # {} /\ Answer(o, "crash", {req[o].entry})
  BY <1>2, AnswerExplained
<1> QED BY <1>1, <1>2 DEF View

LEMMA GoesOnExplained ==
  ASSUME IInv, NEW o \in Operators, NEW r, Continue(o, r), r.pc # "idle"
  PROVE  Explained(o)
BY NextRequest DEF Explained

-----------------------------------------------------------------------------
(* The queries *)

LEMMA EndsInFlight ==
  ASSUME IInv, NEW o \in Operators, NEW op, NEW l, Ends(o, op, l)
  PROVE  /\ req[o] \in RequestType /\ req[o].entry \in Entries
         /\ req[o].op = op /\ req[o].layer = l
BY InFlight DEF Ends

LEMMA ListedEndsExplained ==
  ASSUME IInv, NEW o \in Operators, NEW l, ListedEnds(o, l)
  PROVE  Explained(o)
<1>1. req[o] \in RequestType /\ req[o].entry \in Entries
  BY EndsInFlight DEF ListedEnds
<1>2. CASE Stale(o) # {} /\ Answer(o, "crash", req[o].shown \cup {req[o].entry})
  <2>1. req[o].entry \in req[o].shown \cup {req[o].entry}
    OBVIOUS
  <2> QED BY <1>1, <1>2, <2>1, AnswerExplained
<1>3. ASSUME NEW r,
             r = [req[o] EXCEPT !.pc = "listing", !.entry = None, !.todo = @ \ {req[o].entry},
                    !.shown = IF req[o].pc = "resolved" THEN @ \cup {req[o].entry} ELSE @],
             Continue(o, r)
      PROVE  Explained(o)
  <2>1. r.pc = "listing"
    BY <1>1, <1>3 DEF RequestType
  <2> QED BY <1>3, <2>1, GoesOnExplained
<1> QED BY <1>2, <1>3 DEF ListedEnds

LEMMA GetEndsExplained ==
  ASSUME IInv, NEW o \in Operators, NEW l, GetEnds(o, l)
  PROVE  Explained(o)
BY EndsInFlight, ViewExplained DEF GetEnds

LEMMA ClearEndsExplained ==
  ASSUME IInv, NEW o \in Operators, NEW l, ClearEnds(o, l)
  PROVE  Explained(o)
<1>1. ASSUME NEW rec, rec = None, Save(o, l, rec)
      PROVE  Explained(o)
  BY <1>1, SaveExplained
<1> QED BY <1>1, EndsInFlight, ViewExplained DEF ClearEnds

LEMMA QueriesExplained ==
  ASSUME IInv, NEW o \in Operators, Queries(o)
  PROVE  Explained(o)
<1>1. CASE CatalogVisibilityQuery(o)
  BY <1>1, GetEndsExplained, ListedEndsExplained DEF CatalogVisibilityQuery
<1>2. CASE \E l \in ReviewSignal .. ItemSignoff : LayerEnds(o, l)
  BY <1>2, GetEndsExplained, ClearEndsExplained, ListedEndsExplained DEF LayerEnds
<1> QED BY <1>1, <1>2
        DEF Queries, CatalogReviewSignalQuery, CatalogReviewAssignmentQuery,
            CatalogAssignmentChecklistQuery, CatalogChecklistItemProgressQuery,
            CatalogChecklistItemBlockerQuery, CatalogChecklistItemResolutionQuery,
            CatalogChecklistItemVerificationQuery, CatalogChecklistItemEvidenceQuery,
            CatalogChecklistItemAttestationQuery,
            CatalogChecklistItemAcknowledgmentQuery, CatalogChecklistItemSignoffQuery

LEMMA ListNextExplained ==
  ASSUME IInv, NEW o \in Operators, ListNext(o)
  PROVE  Explained(o)
<1>1. req[o] \in RequestType
  BY DEF IInv
<1>2. CASE Answer(o, "shown", req[o].shown)
  BY <1>2, AnswerExplained
<1>3. ASSUME NEW e, NEW r, Continue(o, r),
             r = [req[o] EXCEPT !.pc = "walking", !.entry = e, !.at = req[o].layer - 1]
      PROVE  Explained(o)
  <2>1. r.pc = "walking"
    BY <1>1, <1>3 DEF RequestType
  <2> QED BY <1>3, <2>1, GoesOnExplained
<1> QED BY <1>2, <1>3 DEF ListNext

-----------------------------------------------------------------------------
(* Setting a layer *)

\* A refusal of the layer itself has an answer of its own.
LEMMA ToldItself ==
  ASSUME NEW l, NEW kind \in Kinds
  PROVE  Told(l, Fault(l, kind)) # "crash"
BY DEF Told, Fault, Kinds

LEMMA BelowTold ==
  ASSUME NEW o \in Operators, NEW l, req[o].layer = l, BelowFault(o) # NoFault,
         Told(l, BelowFault(o)) = "crash"
  PROVE  Stale(o) # {}
<1>1. "absent" \in Kinds
  BY DEF Kinds
<1> QED BY <1>1, ToldItself DEF BelowFault

LEMMA ItemsTold ==
  ASSUME NEW o \in Operators, NEW l, req[o].layer = l, ItemsFault(o) # NoFault,
         Told(l, ItemsFault(o)) = "crash"
  PROVE  Stale(o) # {}
<1>1. "items" \in Kinds
  BY DEF Kinds
<1> QED BY <1>1, ToldItself, BelowTold DEF ItemsFault

LEMMA RefusedExplained ==
  ASSUME IInv, NEW o \in Operators, NEW told, Refused(o, told),
         req[o].entry \in Entries, told = "crash" => Stale(o) # {}
  PROVE  Explained(o)
<1>1. CASE told = "crash"
  <2>1. Answer(o, "crash", {req[o].entry})
    BY <1>1 DEF Refused
  <2> QED BY <1>1, <2>1, AnswerExplained
<1>2. CASE told # "crash"
  <2>1. Answer(o, told, {})
    BY <1>2 DEF Refused
  <2> QED BY <1>2, <2>1, AnswerExplained
<1> QED BY <1>1, <1>2

LEMMA SetVisibilityExplained ==
  ASSUME IInv, NEW o \in Operators, setCatalogVisibilityState(o)
  PROVE  Explained(o)
<1>1. /\ req[o].entry \in Entries /\ req[o] \in RequestType
      /\ req[o].op = "publish" => OwnerFault(o) = NoFault
  BY InFlight, PublishOwns DEF setCatalogVisibilityState
<1>2. ASSUME NEW kind \in Kinds, Refused(o, Told(Visibility, Fault(Visibility, kind)))
      PROVE  Explained(o)
  BY <1>1, <1>2, ToldItself, RefusedExplained
<1>3. ASSUME NEW r, Continue(o, r),
             r = [req[o] EXCEPT !.pc = "saving", !.found = row[Visibility][req[o].entry]]
      PROVE  Explained(o)
  <2>1. r.pc = "saving"
    BY <1>1, <1>3 DEF RequestType
  <2> QED BY <1>3, <2>1, GoesOnExplained
<1>4. OwnerFault(o) # NoFault => \E kind \in Kinds : OwnerFault(o) = Fault(Visibility, kind)
  BY DEF OwnerFault, Kinds
<1> QED BY <1>1, <1>2, <1>3, <1>4
        DEF setCatalogVisibilityState, normalizeCatalogVisibilityError

LEMMA SetReviewExplained ==
  ASSUME IInv, NEW o \in Operators, setCatalogReviewSignal(o)
  PROVE  Explained(o)
<1>1. req[o].entry \in Entries /\ req[o].layer = ReviewSignal
  BY EndsInFlight DEF setCatalogReviewSignal
<1>2. ASSUME BelowFault(o) # NoFault, Refused(o, Told(ReviewSignal, BelowFault(o)))
      PROVE  Explained(o)
  BY <1>1, <1>2, BelowTold, RefusedExplained
<1>3. ASSUME NEW rec, Save(o, ReviewSignal, rec)
      PROVE  Explained(o)
  BY <1>3, SaveExplained
<1> QED BY <1>2, <1>3 DEF setCatalogReviewSignal, normalizeCatalogReviewSignalError

LEMMA SetAssignmentExplained ==
  ASSUME IInv, NEW o \in Operators, setCatalogReviewAssignment(o)
  PROVE  Explained(o)
<1>1. req[o].entry \in Entries /\ req[o].layer = ReviewAssignment
  BY EndsInFlight DEF setCatalogReviewAssignment
<1>2. ASSUME BelowFault(o) # NoFault, Refused(o, Told(ReviewAssignment, BelowFault(o)))
      PROVE  Explained(o)
  BY <1>1, <1>2, BelowTold, RefusedExplained
<1>3. ASSUME Refused(o, Told(ReviewAssignment, Fault(ReviewAssignment, "items")))
      PROVE  Explained(o)
  <2>1. "items" \in Kinds
    BY DEF Kinds
  <2> QED BY <1>1, <1>3, <2>1, ToldItself, RefusedExplained
<1>4. ASSUME NEW rec, Save(o, ReviewAssignment, rec)
      PROVE  Explained(o)
  BY <1>4, SaveExplained
<1> QED BY <1>2, <1>3, <1>4
        DEF setCatalogReviewAssignment, normalizeCatalogReviewAssignmentError

LEMMA SetChecklistExplained ==
  ASSUME IInv, NEW o \in Operators, setCatalogAssignmentChecklist(o)
  PROVE  Explained(o)
<1>1. req[o].entry \in Entries /\ req[o].layer = AssignmentChecklist
  BY EndsInFlight DEF setCatalogAssignmentChecklist
<1>2. ASSUME BelowFault(o) # NoFault, Refused(o, Told(AssignmentChecklist, BelowFault(o)))
      PROVE  Explained(o)
  BY <1>1, <1>2, BelowTold, RefusedExplained
<1>3. ASSUME NEW rec, Save(o, AssignmentChecklist, rec)
      PROVE  Explained(o)
  BY <1>3, SaveExplained
<1> QED BY <1>2, <1>3
        DEF setCatalogAssignmentChecklist, normalizeCatalogAssignmentChecklistError

LEMMA SetsLayerExplained ==
  ASSUME IInv, NEW o \in Operators, NEW l \in ItemLayers, SetsLayer(o, l)
  PROVE  Explained(o)
<1>1. req[o].entry \in Entries /\ req[o].layer = l
  BY EndsInFlight DEF SetsLayer
<1>2. ASSUME ItemsFault(o) # NoFault, Refused(o, Told(l, ItemsFault(o)))
      PROVE  Explained(o)
  BY <1>1, <1>2, ItemsTold, RefusedExplained
<1>3. ASSUME NEW rec, Save(o, l, rec)
      PROVE  Explained(o)
  BY <1>3, SaveExplained
<1> QED BY <1>2, <1>3 DEF SetsLayer

LEMMA SettingsExplained ==
  ASSUME IInv, NEW o \in Operators, Settings(o)
  PROVE  Explained(o)
<1>1. CASE setCatalogVisibilityState(o) \/ setCatalogReviewSignal(o)
           \/ setCatalogReviewAssignment(o) \/ setCatalogAssignmentChecklist(o)
  BY <1>1, SetVisibilityExplained, SetReviewExplained, SetAssignmentExplained,
     SetChecklistExplained
<1>2. CASE \E l \in ItemLayers : SetsLayer(o, l)
  BY <1>2, SetsLayerExplained
<1> QED BY <1>1, <1>2, SetsItemLayer DEF Settings

-----------------------------------------------------------------------------
(* Publishing, archiving, applying, and the walk *)

LEMMA PublishingExplained ==
  ASSUME IInv, NEW o \in Operators, Publishing(o)
  PROVE  Explained(o)
<1>1. req[o] \in RequestType
  BY DEF IInv
<1>2. PICK r : r = [req[o] EXCEPT !.pc = "resolved"]
  OBVIOUS
<1>3. r.pc = "resolved"
  BY <1>1, <1>2 DEF RequestType
<1>4. CASE publishCatalogEntry(o)
  <2>1. PICK q : q = [req[o] EXCEPT !.pc = "walking", !.at = CatalogEntry]
    OBVIOUS
  <2>2. q.pc = "walking"
    BY <1>1, <2>1 DEF RequestType
  <2>3. Reported(o, q, {req[o].entry})
    BY <1>4, <2>1 DEF publishCatalogEntry, Write
  <2>4. CASE throws' = throws + 1
    BY <2>4 DEF Explained, IInv, Counters
  <2> QED BY <2>2, <2>3, <2>4, GoesOnExplained DEF Reported
<1>5. ASSUME NEW l, NEW rec, Save(o, l, rec)
      PROVE  Explained(o)
  BY <1>5, SaveExplained
<1>6. ASSUME NEW answer \in {"not_found", "conflict"}, Answer(o, answer, {})
      PROVE  Explained(o)
  BY <1>6, AnswerExplained
<1>7. CASE requireOwnedCatalogVisibility(o)
  BY <1>2, <1>3, <1>6, <1>7, GoesOnExplained DEF requireOwnedCatalogVisibility
<1>8. CASE saveCatalogVisibility(o) \/ saveArchivedEntry(o)
  BY <1>5, <1>8 DEF saveCatalogVisibility, saveArchivedEntry
<1>9. CASE archiveCatalogEntry(o)
  <2>1. PICK q : q = [req[o] EXCEPT !.pc = "saving",
                                    !.found = row[CatalogEntry][req[o].entry]]
    OBVIOUS
  <2>2. q.pc = "saving"
    BY <1>1, <2>1 DEF RequestType
  <2> QED BY <1>6, <1>9, <2>1, <2>2, GoesOnExplained DEF archiveCatalogEntry
<1>10. CASE applyCatalogEntry(o)
  BY <1>6, <1>10, EndsInFlight, ViewExplained DEF applyCatalogEntry
<1> QED BY <1>4, <1>7, <1>8, <1>9, <1>10 DEF Publishing

LEMMA WalkExplained ==
  ASSUME IInv, NEW o \in Operators, Walk(o)
  PROVE  Explained(o)
<1>1. req[o] \in RequestType
  BY DEF IInv
<1>2. ASSUME NEW r, r = [req[o] EXCEPT !.pc = "missing"], Continue(o, r)
      PROVE  Explained(o)
  <2>1. r.pc = "missing"
    BY <1>1, <1>2 DEF RequestType
  <2> QED BY <1>2, <2>1, GoesOnExplained
<1>3. ASSUME NEW got, NEW at, NEW pc \in {"resolved", "walking"}, NEW r,
             r = [req[o] EXCEPT !.got = got, !.at = at, !.pc = pc], Continue(o, r)
      PROVE  Explained(o)
  <2>1. r.pc = pc
    BY <1>1, <1>3 DEF RequestType
  <2> QED BY <1>3, <2>1, GoesOnExplained
<1> QED BY <1>2, <1>3 DEF Walk

LEMMA StepExplained ==
  ASSUME IInv, NEW o \in Operators, Step(o)
  PROVE  Explained(o)
<1>1. CASE StoreThrows(o)
  BY <1>1 DEF StoreThrows, Explained, IInv, Counters
<1>2. CASE Begins(o)
  BY <1>2 DEF Begins, Explained
<1>3. CASE Dies(o)
  <2>1. req'[o] = Idle("none", {})
    BY <1>3, NextRequest DEF Dies
  <2> QED BY <2>1, IdleFields DEF Explained
<1> QED BY <1>1, <1>2, <1>3, RequestBegins, ListingsBegin, ListNextExplained, WalkExplained,
           QueriesExplained, SettingsExplained, PublishingExplained DEF Step, Arrives

-----------------------------------------------------------------------------
(* The result about errors *)

LEMMA NextExplained ==
  ASSUME EInv, Next
  PROVE  \A o \in Operators : CrashIsLoss(o)
<1>1. IInv /\ KeepsArchived /\ Remember
  BY NextPreserves DEF EInv, Preserved, Next
<1>2. PICK o \in Operators : Step(o)
  BY DEF Next
<1>3. CrashIsLoss(o)
  BY <1>1, <1>2, StepExplained, StaleIsLoss
<1>4. Kept(o)
  BY <1>1, <1>2, StepFair DEF Fair
<1>5. \A p \in Operators : p # o => CrashIsLoss(p)
  BY <1>4 DEF Kept, CrashIsLoss, Answered
<1> QED BY <1>3, <1>5

\* Whatever the other requests set and clear, a request ends with an internal
\* error only when a store has thrown or it has read an item on a layer that
\* the layer below had held and, when it was read, did not hold any more.
THEOREM CrashesAreLosses == Spec => CrashOnlyAfterLoss
<1>1. EInv /\ [Next]_vars =>
        [\A o \in Operators : Answered(o) /\ req'[o].answer = "crash" /\ throws' = throws =>
           \E e \in req'[o].shown, l \in ItemLayers :
             /\ l <= Top(req[o].op, req[o].layer)
             /\ \E item \in ever[l - 1][e] :
                  item \in req[o].got[e][l] /\ item \notin req[o].got[e][l - 1]]_vars
  BY NextExplained DEF CrashIsLoss
<1> QED BY <1>1, InitEntitled, NextEntitled, PTL DEF Spec, CrashOnlyAfterLoss
=============================================================================
