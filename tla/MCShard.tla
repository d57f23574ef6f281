------------------------------- MODULE MCShard -------------------------------
(***************************************************************************)
(* An instance of ShardRecovery for TLC: one record of each kind.          *)
(***************************************************************************)
EXTENDS ShardRecovery, TLC

CONSTANTS s1, h1, m1, t1

MCKindOf == s1 :> "session" @@ h1 :> "handshake" @@ m1 :> "mitigation" @@ t1 :> "telemetry"

MCMaxSaves == s1 :> 2 @@ h1 :> 1 @@ m1 :> 2 @@ t1 :> 1

Symmetry == Permutations(Writers)
=============================================================================
