--------------------------- MODULE MCExpenseBudget ---------------------------
(***************************************************************************)
(* Instances of ExpenseBudget for TLC.                                     *)
(***************************************************************************)
EXTENDS ExpenseBudget, TLC

Symmetry == Permutations(Requests)
=============================================================================
