------------------------------ MODULE IssueInv ------------------------------
(***************************************************************************)
(* What the proofs about IssueFlow carry from step to step.                *)
(***************************************************************************)
EXTENDS IssueFlow

\* The memory knows of every revocation but the one a logout is about to note.
CacheAgrees ==
  \A t \in Tokens : mem[t] = "active" /\ table[t] # "absent" =>
    \/ table[t] = "active"
    \/ \E p \in Requests : req[p].at = "locked" /\ req[p].token = t

\* What a request holds at each point: its token, and the role it has proved.
RequestOK(r) ==
  /\ r.at \in {"login", "find", "ready", "locked"} => r.token \in Tokens
  /\ r.at = "ready" => RoleOf[OwnerOf[r.token]] \in Allowed(r.op)

\* A judgement on the row holds while the row has the version it was made of.
Fresh(row, r) ==
  /\ CanTransition(row.state, r.state)
  /\ r.state = "mitigated" => row.assignee \in {None, r.assignee}

UpdateOK(r) ==
  r.at = "update" =>
    /\ r.issue \in Issues /\ r.state \in {"assigned", "mitigated", "certified"}
    /\ 1 <= r.version /\ r.version <= issue[r.issue].version
    /\ r.version = issue[r.issue].version => Fresh(issue[r.issue], r)
    /\ r.state = "mitigated" => MitigatedByVendor(r) /\ r.evidence = r.assignee
    /\ r.state = "certified" =>
         /\ r.assignee = None /\ r.evidence \in Users
         /\ RoleOf[r.evidence] \in {"testengineer", "labreviewer"}

IssueBase ==
  /\ TypeOK
  /\ CacheAgrees
  /\ \A p \in Requests : RequestOK(req[p]) /\ UpdateOK(req[p])
=============================================================================
