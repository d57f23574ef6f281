------------------------------- MODULE MCBatch -------------------------------
(***************************************************************************)
(* Instances of BatchFlow for TLC.  Symmetry only where no liveness        *)
(* property is checked.                                                    *)
(***************************************************************************)
EXTENDS BatchFlow, TLC

Symmetry == Permutations(Sessions) \cup Permutations(Batches) \cup Permutations(Attempts)
=============================================================================
