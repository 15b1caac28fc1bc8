--------------------------- MODULE MCAdminResources ---------------------------
(***************************************************************************)
(* Instances of AdminResources for TLC: one row, of any kind, or movements *)
(* of one asset.                                                           *)
(***************************************************************************)
EXTENDS AdminResources, TLC

MCPopulations == [Items -> Kinds]

MCMovements == [Items -> {Movement}]

Symmetry == Permutations(Workers)
=============================================================================
