---------------------------- MODULE MitigationInv ----------------------------
(***************************************************************************)
(* The inductive invariants behind the theorems of MitigationProofs: what  *)
(* a request's copy of a row knows about the row, and what follows for the *)
(* index and the sessions.                                                 *)
(***************************************************************************)
EXTENDS MitigationFlow

Executing == {"executing", "getSession", "saveSession"}

\* The copy a request carries has the shape and the state its next call needs.
RequestOK(p) ==
  /\ at[p] # "idle" => row[p] \in Row
  /\ at[p] = "submit" => row[p].state = "pending"
  /\ at[p] = "save" => row[p].state \in {"issued", "retest_required", "withdrawn"}
  /\ at[p] \in Executing => row[p].state = "executing"
  /\ at[p] = "complete" => row[p].state = "completed"
  /\ at[p] = "saveSession" =>
       copy[p] \in SessionRow /\ copy[p].mitigation = row[p].id

\* Rows are stored under their own id.
KeysOK == \A m \in Mitigations : mit[m] # NoRow => mit[m].id = m

\* A copy agrees with its row on session and type, which no operation changes;
\* the id of a submission is not in use anywhere else.
CopyOK(p) ==
  /\ at[p] \in Writing \ {"submit"} =>
       /\ mit[row[p].id] # NoRow
       /\ mit[row[p].id].session = row[p].session
       /\ mit[row[p].id].type = row[p].type
  /\ at[p] = "submit" =>
       /\ mit[row[p].id] = NoRow
       /\ \A q \in Requests \ {p} : at[q] \in Writing => row[q].id # row[p].id

\* The base of every invariant below.
Base ==
  /\ TypeOK
  /\ KeysOK
  /\ \A p \in Requests : RequestOK(p)
  /\ \A p \in Requests : CopyOK(p)

\* Every mitigation is of a type that clients ask for.
SubmittedTypes ==
  /\ \A m \in Mitigations : mit[m] # NoRow => mit[m].type \in Submitted
  /\ \A p \in Requests : at[p] # "idle" => row[p].type \in Submitted

\* Whoever executes, or is about to, was approved before.
ApprovalInv ==
  /\ \A m \in Mitigations : mit[m].state \in {"issued", "executing"} => m \in approved
  /\ \A p \in Requests : at[p] \in Executing \cup {"complete"} => row[p].id \in approved
  /\ ApprovedBeforeActing

\* Whoever is about to save a completed row has saved its effect.
CompletionInv ==
  /\ \A p \in Requests : at[p] = "complete" => row[p].id \in applied
  /\ CompletedWasApplied

\* What a request is about to record is what it committed, and nobody writes
\* over a refusal: no transition leads out of "lost".
TellInv ==
  /\ \A p \in Requests :
       /\ at[p] = "record" =>
            /\ mit[row[p].id] # NoRow
            /\ row[p].state = "issued" => row[p].id \in approved
            /\ row[p].state = "completed" => row[p].id \in applied
            /\ row[p].state = "lost" => mit[row[p].id].state = "lost"
       /\ at[p] \in Writing \ {"submit"} => mit[row[p].id].state # "lost"
  /\ ToldIsTrue

(***************************************************************************)
(* Without overlap a copy cannot be stale.                                 *)
(***************************************************************************)

\* No two requests hold the same mitigation.
Exclusive ==
  \A p, q \in Requests :
    at[p] \in Writing /\ at[q] \in Writing /\ row[p].id = row[q].id => p = q

\* A copy about to be written in an open state was read from an open row.
NotStale ==
  \A p \in Requests :
    at[p] \in Writing \ {"submit"} /\ IsMitigationActive(row[p].state) =>
      IsMitigationActive(mit[row[p].id].state)

SerialInv == Exclusive /\ NotStale /\ IndexExact

\* The row is where the request read it, so the transition it validated is
\* still the one its write makes; an execution finds its row executing, and the
\* session it wrote is still its own when it completes.
Current(p) ==
  at[p] \in Writing \ {"submit"} =>
    LET r == mit[row[p].id] IN
    /\ at[p] = "save" => Validate(MitigationTransitions, r.state, row[p].state)
    /\ at[p] = "executing" => r.state \in {"issued", "executing"}
    /\ at[p] \in {"getSession", "saveSession", "complete"} => r.state = "executing"
    /\ at[p] = "complete" => session[row[p].session].mitigation = row[p].id

AllCurrent == \A p \in Requests : Current(p)
=============================================================================
