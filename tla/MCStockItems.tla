---------------------------- MODULE MCStockItems ----------------------------
(***************************************************************************)
(* Instances of StockItems for TLC.                                        *)
(***************************************************************************)
EXTENDS StockItems, TLC

\* An item of two units: removing one is routine, removing both is sensitive.
MCDeltas == {-2, -1, 1}

Symmetry == Permutations(Requests) \cup Permutations(Supervisors)
=============================================================================
