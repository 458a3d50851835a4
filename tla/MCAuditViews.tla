---------------------------- MODULE MCAuditViews ----------------------------
(* AuditViews with workers that may be exchanged for one another. *)
EXTENDS AuditViews, TLC

MCWorkers == Permutations(Workers)
=============================================================================
