------------------------------ MODULE MCServer ------------------------------
(***************************************************************************)
(* What must never happen to clients: issues behind roles, and streams of  *)
(* events, which share no state with one another.  The first state chooses *)
(* which of them a behaviour is about; the other stays in its first state. *)
(*                                                                         *)
(* Of issues: an auditor who reports and assigns, a vendor's engineer and  *)
(* a tester who certifies, with one login each.                            *)
(***************************************************************************)
EXTENDS IssueInv, EventStream, TLC

VARIABLE part  \* the component this behaviour is about

allVars == <<part, vars, streamVars>>

ChosenInit == part \in {"issue", "stream"} /\ Init /\ StreamInit

ChosenNext ==
  /\ UNCHANGED part
  /\ \/ part = "issue" /\ Next /\ UNCHANGED streamVars
     \/ part = "stream" /\ StreamNext /\ UNCHANGED vars

ChosenSpec == ChosenInit /\ [][ChosenNext]_allVars

-----------------------------------------------------------------------------
CONSTANTS v1, a1, e1, tv1, ta1, te1

MCRoleOf == v1 :> "vendorengineer" @@ a1 :> "auditor" @@ e1 :> "testengineer"

MCOwnerOf == tv1 :> v1 @@ ta1 :> a1 @@ te1 :> e1

Symmetry == Permutations(Requests) \cup Permutations(Connections)
=============================================================================
