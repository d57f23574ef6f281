--------------------------- MODULE MitigationSlot ---------------------------
(***************************************************************************)
(* What the mitigation workflow promises about a charge session: it has    *)
(* one slot.  A mitigation is open from the moment it takes the slot until *)
(* it is done or dropped; while one is open every other one is refused.    *)
(* Only an approved mitigation acts on the session, only while it holds    *)
(* the slot, and one that is done has acted last.                          *)
(***************************************************************************)
CONSTANTS Sessions, Mitigations, None

VARIABLES
  stage,   \* mitigation -> how far it has got
  owner,   \* mitigation -> the session it is about
  actor    \* session -> the mitigation that acted on it last

vars == <<stage, owner, actor>>

Stages == {"new", "waiting", "approved", "acting", "done", "dropped", "refused"}

Open(m) == stage[m] \in {"waiting", "approved", "acting"}

Init ==
  /\ stage = [m \in Mitigations |-> "new"]
  /\ owner = [m \in Mitigations |-> None]
  /\ actor = [s \in Sessions |-> None]

Taken(s) == \E k \in Mitigations : owner[k] = s /\ Open(k)

Enter(m, s, to) ==
  /\ stage[m] = "new"
  /\ stage' = [stage EXCEPT ![m] = to]
  /\ owner' = [owner EXCEPT ![m] = s]
  /\ UNCHANGED actor

Claim(m, s) == ~Taken(s) /\ Enter(m, s, "waiting")

Refuse(m, s) == Taken(s) /\ Enter(m, s, "refused")

Move(m, from, to) ==
  /\ stage[m] \in from
  /\ stage' = [stage EXCEPT ![m] = to]
  /\ UNCHANGED <<owner, actor>>

Approve(m) == Move(m, {"waiting"}, "approved")

Drop(m) == Move(m, {"waiting", "approved", "acting"}, "dropped")

StartActing(m) == Move(m, {"approved"}, "acting")

Act(m) ==
  /\ stage[m] = "acting"
  /\ actor' = [actor EXCEPT ![owner[m]] = m]
  /\ UNCHANGED <<stage, owner>>

Finish(m) == Move(m, {"acting"}, "done") /\ actor[owner[m]] = m

Next ==
  \E m \in Mitigations :
    \/ \E s \in Sessions : Claim(m, s) \/ Refuse(m, s)
    \/ Approve(m)
    \/ Drop(m)
    \/ StartActing(m)
    \/ Act(m)
    \/ Finish(m)

Spec == Init /\ [][Next]_vars
=============================================================================
