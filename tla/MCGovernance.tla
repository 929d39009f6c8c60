---------------------------- MODULE MCGovernance ----------------------------
(* Instances of Governance for TLC. *)
EXTENDS Governance, TLC

Symmetry == Permutations(Admins) \cup Permutations(Changes) \cup Permutations(Handlers)
=============================================================================
