---------------------------- MODULE MCMitigation ----------------------------
(***************************************************************************)
(* Instances of MitigationFlow for TLC.                                    *)
(***************************************************************************)
EXTENDS MitigationInv, TLC

Symmetry == Permutations(Mitigations) \cup Permutations(Requests) \cup Permutations(Sessions)
=============================================================================
