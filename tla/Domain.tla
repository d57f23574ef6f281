------------------------------- MODULE Domain -------------------------------
(***************************************************************************)
(* The value types of internal/domain: the states of charge sessions,      *)
(* handshakes, mitigations and batches, and the state machines that the    *)
(* services consult before they change one.  A state machine of the code   *)
(* (a map keyed by StateTransition) is the set of its <<from, to>> pairs.  *)
(***************************************************************************)

(***************************************************************************)
(* Charge sessions.  SessionStateRejected is the string "retest_required". *)
(***************************************************************************)
SessionStates ==
  {"requested", "capability_checked", "negotiating", "charging", "authorized",
   "completed", "thermal_throttled", "protocol_fallback", "retest_required"}

(***************************************************************************)
(* Safety mitigations.  MitigationStateRejected is "retest_required".      *)
(***************************************************************************)
MitigationStates ==
  {"pending", "under_review", "issued", "executing", "completed",
   "retest_required", "withdrawn", "lost"}

MitigationTypes == {"thermal_throttle", "protocol_fallback", "stop_charge"}

MitigationTransitions ==
  ({"pending"} \X {"under_review", "issued", "retest_required", "withdrawn", "lost"})
    \cup ({"under_review"} \X {"issued", "retest_required", "lost"})
    \cup ({"issued"} \X {"executing", "withdrawn"})
    \cup ({"executing"} \X {"completed", "withdrawn"})
    \cup {<<"withdrawn", "pending">>}

IsMitigationActive(state) ==
  state \in {"pending", "under_review", "issued", "executing"}

(***************************************************************************)
(* Batches and their items.                                                *)
(***************************************************************************)
BatchStates == {"pending", "processing", "succeeded", "rolled_back", "completed"}

BatchItemStates == {"pending", "succeeded", "failed", "rolled_back"}

BatchTransitions ==
  {<<"pending", "processing">>, <<"processing", "succeeded">>,
   <<"processing", "rolled_back">>, <<"rolled_back", "processing">>,
   <<"succeeded", "completed">>}

(***************************************************************************)
(* StateMachine.Validate: staying put is always accepted.                  *)
(***************************************************************************)
Validate(machine, current, target) ==
  current = target \/ <<current, target>> \in machine
=============================================================================
