------------------------------ MODULE MCCharge ------------------------------
(***************************************************************************)
(* Instances of ChargeControl for TLC.                                     *)
(***************************************************************************)
EXTENDS BatchInv, TLC

Symmetry ==
  Permutations(Sessions) \cup Permutations(Batches) \cup Permutations(Attempts)
    \cup Permutations(Mitigations) \cup Permutations(Requests)
=============================================================================
