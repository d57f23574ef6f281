---------------------------- MODULE ChargeControl ----------------------------
(***************************************************************************)
(* Batches and mitigations over one table of sessions: ProcessBatch and    *)
(* Execute each read a session and later write its whole row back, and     *)
(* neither compares the version it read (chargeSessionRepo.Save).          *)
(*                                                                         *)
(* BatchFlow and MitigationFlow side by side; only "session" is theirs     *)
(* together.  Requests on one mitigation do not overlap here.              *)
(***************************************************************************)
EXTENDS BatchFlow

CONSTANTS
  Submitted,  \* the mitigation types clients ask for
  Requests    \* goroutines serving requests on mitigations

VARIABLES mit, active, told, at, row, copy, approved, applied  \* of MitigationFlow

batchVars == <<batch, item, adding, run, reset, faults>>

mitVars == <<mit, active, told, at, row, copy, approved, applied>>

Mit == INSTANCE MitigationFlow WITH Overlap <- FALSE

ChargeInit == Init /\ Mit!Init

ChargeNext ==
  \/ Next /\ UNCHANGED mitVars
  \/ Mit!Next /\ UNCHANGED batchVars

ChargeSpec == ChargeInit /\ [][ChargeNext]_<<batchVars, mitVars, session>>

-----------------------------------------------------------------------------
(***************************************************************************)
(* What holds of the mitigation types the code knows.                      *)
(***************************************************************************)

\* A session that names a mitigation is in the state that mitigation asks for:
\* a write back of a stale row may lose a mitigation's effect, but never keeps
\* its name on a session that has gone on charging.
EffectMatchesName ==
  \A s \in Sessions, m \in Mitigations :
    session[s].mitigation = m =>
      session[s].state = Mit!Effect(mit[m].type, session[s].state)

\* When no attempt is cut short and no error ignored, each session of a batch
\* that completed still charges, or is where a mitigation has put it since:
\* no other way leads out of charging.
CompletedCharges ==
  faults \subseteq {"refuse"} => \A b \in Batches :
    batch[b] = "completed" => \A s \in Items(b) :
      \/ session[s].state = "charging"
      \/ session[s].mitigation # None

(***************************************************************************)
(* What the repository says and the code does not do.                      *)
(***************************************************************************)

\* sessionStateMachine: a throttled session only goes on to a retest, so what
\* has been throttled does not charge again.
ThrottledNeverCharges ==
  [][\A s \in Sessions :
       session[s].state = "thermal_throttled" => session'[s].state # "charging"]_session
=============================================================================
