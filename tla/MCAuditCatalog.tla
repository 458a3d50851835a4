--------------------------- MODULE MCAuditCatalog ---------------------------
(***************************************************************************)
(* AuditCatalog for TLC: the checklist items may be swapped for each       *)
(* other, and so may the catalog entries.                                  *)
(***************************************************************************)
EXTENDS AuditCatalog, TLC

Symmetry == Permutations(Items) \cup Permutations(Entries)
=============================================================================
