---------------------------- MODULE MCInference ----------------------------
(***************************************************************************)
(* Small instances of Inference for TLC.                                   *)
(***************************************************************************)
EXTENDS Inference, TLC

\* Attempt ids are interchangeable, and so are process ids.
Symmetry == Permutations(Instances) \cup Permutations(Attempts)

\* With no fairness and no property that names a request, requests are too.
SymmetryRequests == Symmetry \cup Permutations(Requests)
=============================================================================
