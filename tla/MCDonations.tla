----------------------------- MODULE MCDonations -----------------------------
(***************************************************************************)
(* Instances of Donations for TLC.                                         *)
(***************************************************************************)
EXTENDS Donations, TLC

Symmetry == Permutations(Requests) \cup Permutations(Amounts)
=============================================================================
