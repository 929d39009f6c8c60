------------------------------ MODULE MCLedger ------------------------------
(***************************************************************************)
(* Bounds for model checking the ledger.                                   *)
(***************************************************************************)
EXTENDS Ledger, TLC

MCDeltas == {-1, 1}

Symmetry == Permutations(Instances) \cup Permutations(Attempts)
=============================================================================
