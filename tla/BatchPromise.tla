---------------------------- MODULE BatchPromise ----------------------------
(***************************************************************************)
(* What batch processing promises: all or nothing.  A batch that is worked *)
(* on moves its own sessions only; it ends with all of them charging, for  *)
(* good, or with none, and can then be tried again.                        *)
(***************************************************************************)
CONSTANTS Sessions, Batches

VARIABLES
  outcome,   \* batch -> "none", "open", "working" or "done"
  members,   \* batch -> its sessions
  charging   \* the sessions that charge

vars == <<outcome, members, charging>>

Init ==
  /\ outcome = [b \in Batches |-> "none"]
  /\ members = [b \in Batches |-> {}]
  /\ charging = {}

Move(b, from, to) ==
  /\ outcome[b] = from
  /\ outcome' = [outcome EXCEPT ![b] = to]
  /\ UNCHANGED <<members, charging>>

Create(b) == Move(b, "none", "open")

Enroll(b, s) ==
  /\ outcome[b] = "open"
  /\ \A k \in Batches : s \notin members[k]
  /\ members' = [members EXCEPT ![b] = @ \cup {s}]
  /\ UNCHANGED <<outcome, charging>>

Start(b) == Move(b, "open", "working")

Touch(b, s) ==
  /\ outcome[b] = "working" /\ s \in members[b]
  /\ charging' \in {charging \cup {s}, charging \ {s}}
  /\ UNCHANGED <<outcome, members>>

Finish(b) == Move(b, "working", "done") /\ members[b] \subseteq charging

Undo(b) == Move(b, "working", "open") /\ members[b] \cap charging = {}

Next ==
  \E b \in Batches :
    \/ Create(b) \/ Start(b) \/ Finish(b) \/ Undo(b)
    \/ \E s \in Sessions : Enroll(b, s) \/ Touch(b, s)

Spec == Init /\ [][Next]_vars
=============================================================================
