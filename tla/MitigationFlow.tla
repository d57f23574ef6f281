--------------------------- MODULE MitigationFlow ---------------------------
(***************************************************************************)
(* The safety-mitigation workflow of internal/service/mitigation.go over   *)
(* the rows of internal/storage: Submit, Review, Withdraw and Execute,     *)
(* each served by a goroutine of its own (a "request").                    *)
(*                                                                         *)
(* The store has one connection, so a statement or a transaction is        *)
(* atomic; between two calls of the store other requests run.  A request   *)
(* reads a row, validates the transition on that copy, and later writes    *)
(* the whole copy back: no Save compares the version it read.  One action  *)
(* is one call of the store, with the code up to the next call.            *)
(***************************************************************************)
EXTENDS Domain

CONSTANTS
  Sessions,     \* ids of charge sessions
  Mitigations,  \* ids uuid.NewString may return: bounds how many are submitted
  Submitted,    \* the mitigation types clients ask for
  Requests,     \* goroutines serving requests: bounds how many run at once
  Overlap,      \* may two requests work on the same mitigation at once?
                \* Nothing in the code keeps them apart: FALSE is an assumption
                \* about the callers, under which Begin holds requests back
  None          \* no id

ASSUME NoneIsNoId == None \notin Sessions \cup Mitigations
ASSUME SubmittedAreTypes == Submitted \subseteq MitigationTypes \cup {"other"}
ASSUME OverlapIsBoolean == Overlap \in BOOLEAN

VARIABLES
  mit,      \* table mitigation_requests: id -> row
  active,   \* table active_mitigations: session id -> mitigation id or None
  session,  \* table session_items: session id -> row
  told,     \* id -> the state its newest telemetry, audit entry and event recount
  at,       \* request -> the call it makes next
  row,      \* request -> its copy of a mitigation (the variable disp)
  copy,     \* request -> its copy of a session (the variable session)
  approved, \* history: mitigations ever committed as issued
  applied   \* history: mitigations whose effect was saved on their session

vars == <<mit, active, session, told, at, row, copy, approved, applied>>

-----------------------------------------------------------------------------
(***************************************************************************)
(* Rows.  A type outside MitigationTypes is accepted and acts on nothing.  *)
(***************************************************************************)
Types == MitigationTypes \cup {"other"}

NoRow == [id |-> None, session |-> None, type |-> "other", state |-> "absent"]

Row == [id : Mitigations, session : Sessions, type : Types, state : MitigationStates]

NoSession == [state |-> "absent", mitigation |-> None]

SessionRow == [state : SessionStates, mitigation : Mitigations \cup {None}]

Writing == {"submit", "save", "executing", "getSession", "saveSession", "complete"}

TypeOK ==
  /\ mit \in [Mitigations -> Row \cup {NoRow}]
  /\ active \in [Sessions -> Mitigations \cup {None}]
  /\ session \in [Sessions -> SessionRow]
  /\ told \in [Mitigations -> MitigationStates \cup {"absent"}]
  /\ at \in [Requests -> {"idle", "record"} \cup Writing]
  /\ row \in [Requests -> Row \cup {NoRow}]
  /\ copy \in [Requests -> SessionRow \cup {NoSession}]
  /\ approved \subseteq Mitigations
  /\ applied \subseteq Mitigations

Init ==
  /\ mit = [m \in Mitigations |-> NoRow]
  /\ active = [s \in Sessions |-> None]
  /\ session \in [Sessions -> {[state |-> "negotiating", mitigation |-> None]}]
  /\ told = [m \in Mitigations |-> "absent"]
  /\ at = [p \in Requests |-> "idle"]
  /\ row = [p \in Requests |-> NoRow]
  /\ copy = [p \in Requests |-> NoSession]
  /\ approved = {}
  /\ applied = {}

-----------------------------------------------------------------------------
(***************************************************************************)
(* mitigationRepo.SaveTx: the row and the index change in one transaction. *)
(* INSERT OR IGNORE keeps another mitigation's claim; the delete names     *)
(* this mitigation, so it never removes another's.                         *)
(***************************************************************************)
\* Defect: the claim of a mitigation that closes is not deleted.
SaveTx_KeepsClaim(r) ==
  /\ mit' = [mit EXCEPT ![r.id] = r]
  /\ active' = [active EXCEPT ![r.session] =
       IF IsMitigationActive(r.state) /\ @ = None THEN r.id ELSE @]
  /\ approved' = IF r.state = "issued" THEN approved \cup {r.id} ELSE approved

SaveTx(r) ==
  /\ mit' = [mit EXCEPT ![r.id] = r]
  /\ active' = [active EXCEPT ![r.session] =
       IF IsMitigationActive(r.state)
       THEN IF @ = None THEN r.id ELSE @
       ELSE IF @ = r.id THEN None ELSE @]
  /\ approved' = IF r.state = "issued" THEN approved \cup {r.id} ELSE approved

\* A request holds its copy of mitigation m until its last write of the row.
\* Unless Overlap, callers are assumed to wait for that.
HeldByAnother(m) ==
  \E q \in Requests : at[q] \in Writing /\ row[q].id = m

\* Defect: the change is announced before it is written.
Begin_Announces(p, next, r) ==
  /\ at[p] = "idle"
  /\ Overlap \/ ~HeldByAnother(r.id)
  /\ at' = [at EXCEPT ![p] = next]
  /\ row' = [row EXCEPT ![p] = r]
  /\ told' = [told EXCEPT ![r.id] = r.state]
  /\ UNCHANGED <<mit, active, session, copy, approved, applied>>

\* The request takes the copy r of a mitigation and goes on at step "next".
Begin(p, next, r) ==
  /\ at[p] = "idle"
  /\ Overlap \/ ~HeldByAnother(r.id)
  /\ at' = [at EXCEPT ![p] = next]
  /\ row' = [row EXCEPT ![p] = r]
  /\ UNCHANGED <<mit, active, session, told, copy, approved, applied>>

\* Defect: the transition is not validated.
MayBecome_Unchecked(m, target) == mit[m] # NoRow

\* Get finds the row, and the transition to the target is valid for it.
MayBecome(m, target) ==
  /\ mit[m] # NoRow
  /\ Validate(MitigationTransitions, mit[m].state, target)

(***************************************************************************)
(* Submit: the session is read and the mitigation gets a fresh id; then    *)
(* one transaction counts the session's claims and inserts the row.        *)
(***************************************************************************)
StartSubmit(p, s, m, t) ==
  /\ mit[m] = NoRow /\ ~HeldByAnother(m)
  /\ Begin(p, "submit", [id |-> m, session |-> s, type |-> t, state |-> "pending"])

\* Defect: the claims of all sessions are counted.
SubmitTx_AnySession(p) ==
  LET r == [row[p] EXCEPT !.state =
              IF \E s \in Sessions : active[s] # None THEN "lost" ELSE "pending"]
  IN  /\ at[p] = "submit"
      /\ SaveTx(r)
      /\ row' = [row EXCEPT ![p] = r]
      /\ at' = [at EXCEPT ![p] = "record"]
      /\ UNCHANGED <<session, told, copy, applied>>

SubmitTx(p) ==
  LET r == [row[p] EXCEPT !.state =
              IF active[row[p].session] # None THEN "lost" ELSE "pending"]
  IN  /\ at[p] = "submit"
      /\ SaveTx(r)
      /\ row' = [row EXCEPT ![p] = r]
      /\ at' = [at EXCEPT ![p] = "record"]
      /\ UNCHANGED <<session, told, copy, applied>>

(***************************************************************************)
(* Review and Withdraw: Get, validate, Save.                               *)
(***************************************************************************)
StartReview(p, m, decision) ==
  /\ MayBecome(m, decision)
  /\ Begin(p, "save", [mit[m] EXCEPT !.state = decision])

\* Defect: Withdraw does not validate the transition.
StartWithdraw_Unchecked(p, m) ==
  /\ mit[m] # NoRow
  /\ Begin(p, "save", [mit[m] EXCEPT !.state = "withdrawn"])

StartWithdraw(p, m) ==
  /\ MayBecome(m, "withdrawn")
  /\ Begin(p, "save", [mit[m] EXCEPT !.state = "withdrawn"])

Save(p) ==
  /\ at[p] = "save"
  /\ SaveTx(row[p])
  /\ at' = [at EXCEPT ![p] = "record"]
  /\ UNCHANGED <<session, told, row, copy, applied>>

(***************************************************************************)
(* Execute: the row becomes executing, the session is read and written     *)
(* back in the state the type asks for (its own state machine is not       *)
(* consulted), and the row becomes completed.                              *)
(***************************************************************************)

StartExecute(p, m) ==
  /\ MayBecome(m, "executing")
  /\ Begin(p, "executing", [mit[m] EXCEPT !.state = "executing"])

SaveExecuting(p) ==
  /\ at[p] = "executing"
  /\ SaveTx(row[p])
  /\ at' = [at EXCEPT ![p] = "getSession"]
  /\ UNCHANGED <<session, told, row, copy, applied>>

Effect(type, current) ==
  CASE type = "thermal_throttle"  -> "thermal_throttled"
    [] type = "protocol_fallback" -> "protocol_fallback"
    [] type = "stop_charge"       -> "retest_required"
    [] OTHER                      -> current

\* Defect: a session that names a mitigation is taken as dealt with.
GetSession_SkipsNamed(p) ==
  LET s == session[row[p].session]
      named == s.mitigation # None
  IN  /\ at[p] = "getSession"
      /\ copy' = IF named THEN copy
                 ELSE [copy EXCEPT ![p] = [state      |-> Effect(row[p].type, s.state),
                                           mitigation |-> row[p].id]]
      /\ row' = IF named THEN [row EXCEPT ![p].state = "completed"] ELSE row
      /\ at' = [at EXCEPT ![p] = IF named THEN "complete" ELSE "saveSession"]
      /\ UNCHANGED <<mit, active, session, told, approved, applied>>

\* Defect: the session does not record which mitigation acted on it.
GetSession_Anonymous(p) ==
  LET s == session[row[p].session]
  IN  /\ at[p] = "getSession"
      /\ copy' = [copy EXCEPT ![p] = [s EXCEPT !.state = Effect(row[p].type, @)]]
      /\ at' = [at EXCEPT ![p] = "saveSession"]
      /\ UNCHANGED <<mit, active, session, told, row, approved, applied>>

GetSession(p) ==
  /\ at[p] = "getSession"
  /\ copy' = [copy EXCEPT ![p] =
       [state      |-> Effect(row[p].type, session[row[p].session].state),
        mitigation |-> row[p].id]]
  /\ at' = [at EXCEPT ![p] = "saveSession"]
  /\ UNCHANGED <<mit, active, session, told, row, approved, applied>>

SaveSession(p) ==
  /\ at[p] = "saveSession"
  /\ session' = [session EXCEPT ![row[p].session] = copy[p]]
  /\ applied' = applied \cup {row[p].id}
  /\ copy' = [copy EXCEPT ![p] = NoSession]
  /\ row' = [row EXCEPT ![p].state = "completed"]
  /\ at' = [at EXCEPT ![p] = "complete"]
  /\ UNCHANGED <<mit, active, told, approved>>

SaveCompleted(p) ==
  /\ at[p] = "complete"
  /\ SaveTx(row[p])
  /\ at' = [at EXCEPT ![p] = "record"]
  /\ UNCHANGED <<session, told, row, copy, applied>>

(***************************************************************************)
(* The records of a change: telemetry, one or two audit entries, and the   *)
(* event.  Nothing in the workflow reads them and each call's error is     *)
(* ignored, so the calls are one action; Abort is the one where all fail.  *)
(***************************************************************************)
Record(p) ==
  /\ at[p] = "record"
  /\ told' = [told EXCEPT ![row[p].id] = row[p].state]
  /\ at' = [at EXCEPT ![p] = "idle"]
  /\ row' = [row EXCEPT ![p] = NoRow]
  /\ UNCHANGED <<mit, active, session, copy, approved, applied>>

(***************************************************************************)
(* A call fails (the client is gone and its context cancelled, the store   *)
(* refuses the write, the process dies): the request stops where it is.    *)
(* What it has committed stays; nothing is undone.                         *)
(***************************************************************************)
Abort(p) ==
  /\ at[p] # "idle"
  /\ at' = [at EXCEPT ![p] = "idle"]
  /\ row' = [row EXCEPT ![p] = NoRow]
  /\ copy' = [copy EXCEPT ![p] = NoSession]
  /\ UNCHANGED <<mit, active, session, told, approved, applied>>

Next ==
  \E p \in Requests :
    \/ \E s \in Sessions, m \in Mitigations, t \in Submitted : StartSubmit(p, s, m, t)
    \/ SubmitTx(p)
    \/ \E m \in Mitigations, d \in {"issued", "retest_required"} : StartReview(p, m, d)
    \/ \E m \in Mitigations : StartWithdraw(p, m)
    \/ Save(p)
    \/ \E m \in Mitigations : StartExecute(p, m)
    \/ SaveExecuting(p)
    \/ GetSession(p)
    \/ SaveSession(p)
    \/ SaveCompleted(p)
    \/ Record(p)
    \/ Abort(p)

Spec == Init /\ [][Next]_vars

-----------------------------------------------------------------------------
(***************************************************************************)
(* What holds whatever overlaps and whatever fails.                        *)
(***************************************************************************)

\* The claim a session has in active_mitigations is one of its own open
\* mitigations, so Submit never refuses because of a closed or foreign one:
\* the row and the index are written in one transaction (SaveTx).
IndexSound ==
  \A s \in Sessions, m \in Mitigations :
    active[s] = m => mit[m].session = s /\ IsMitigationActive(mit[m].state)

\* The mitigation a session names (session_items.mitigation_id) is one of its
\* own that a reviewer had approved: Execute never acts on an unapproved one.
ApprovedBeforeActing ==
  \A s \in Sessions, m \in Mitigations :
    session[s].mitigation = m => mit[m].session = s /\ m \in approved

\* A mitigation is completed only after its effect was saved on the session,
\* even when an earlier Execute of it stopped halfway and it was retried.
CompletedWasApplied ==
  \A m \in Mitigations : mit[m].state = "completed" => m \in applied

\* What telemetry, audit entries and events recount is what was committed:
\* an approval that was saved, an effect that reached the session, a refusal
\* that stands; nothing is announced of a submission whose insert failed.
ToldIsTrue ==
  \A m \in Mitigations :
    /\ told[m] # "absent" => mit[m] # NoRow
    /\ told[m] = "issued" => m \in approved
    /\ told[m] = "completed" => m \in applied
    /\ told[m] = "lost" => mit[m].state = "lost"

\* A submission is refused only while another mitigation of the same session
\* is open, not because of a claim left behind.
LostToAnOpenOne ==
  [][\A m \in Mitigations :
       mit[m] = NoRow /\ mit'[m].state = "lost" =>
         \E k \in Mitigations \ {m} :
           mit[k].session = mit'[m].session /\ IsMitigationActive(mit[k].state)]_vars

-----------------------------------------------------------------------------
(***************************************************************************)
(* What also holds when requests on one mitigation never overlap.          *)
(***************************************************************************)

\* The index says exactly which mitigations are open: every open one has the
\* claim of its session.
IndexExact ==
  \A s \in Sessions, m \in Mitigations :
    active[s] = m <=> mit[m].session = s /\ IsMitigationActive(mit[m].state)

\* A session has at most one open mitigation.
AtMostOneActive ==
  \A m, k \in Mitigations :
    /\ IsMitigationActive(mit[m].state) /\ IsMitigationActive(mit[k].state)
    /\ mit[m].session = mit[k].session
    => m = k

\* A closed mitigation is never reopened or moved to another verdict.
ClosedStaysClosed ==
  [][\A m \in Mitigations :
       mit[m] # NoRow /\ ~IsMitigationActive(mit[m].state) => mit'[m] = mit[m]]_vars

(***************************************************************************)
(* The slot of each session (MitigationSlot), read off the rows.           *)
(***************************************************************************)
StageOf(state) ==
  CASE state = "absent"                             -> "new"
    [] state \in {"pending", "under_review"}        -> "waiting"
    [] state = "issued"                             -> "approved"
    [] state = "executing"                          -> "acting"
    [] state = "completed"                          -> "done"
    [] state \in {"retest_required", "withdrawn"}   -> "dropped"
    [] state = "lost"                               -> "refused"

Slot == INSTANCE MitigationSlot WITH
  stage <- [m \in Mitigations |-> StageOf(mit[m].state)],
  owner <- [m \in Mitigations |-> mit[m].session],
  actor <- [s \in Sessions |-> session[s].mitigation]

\* The workflow implements the one-slot promise.
SlotSpec == Slot!Spec
=============================================================================
