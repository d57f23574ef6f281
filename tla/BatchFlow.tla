------------------------------ MODULE BatchFlow ------------------------------
(***************************************************************************)
(* Batches of charge sessions: BatchService of internal/service/batch.go   *)
(* and the scheduler's BatchProcessorTask, over the tables batch_records,  *)
(* batch_items and session_items.  One action is one call of the store     *)
(* with the code up to the next one; between two calls others run.         *)
(*                                                                         *)
(* An "attempt" is one run of ProcessBatch.  It charges the sessions of    *)
(* the batch one by one; when one of them could not be charged it          *)
(* compensates those it has charged itself.  Sessions and batches are      *)
(* read and written back whole, with no comparison of versions.            *)
(***************************************************************************)
EXTENDS Nothing, Domain

CONSTANTS
  Sessions,     \* ids of charge sessions
  Batches,      \* ids uuid.NewString may return: bounds how many are created
  Attempts,     \* goroutines running ProcessBatch: bounds how many run at once
  Mitigations,  \* ids a session's mitigation_id may hold
  Overlap,      \* may batches share sessions and calls on one batch overlap?
                \* Nothing in the code keeps them apart: FALSE is an assumption
                \* about the callers, under which InUse and Create hold calls back
  FaultSets     \* which calls of the store may fail together, see below

ASSUME NoneIsNoBatch == None \notin Sessions \cup Batches \cup Mitigations
ASSUME OverlapIsBoolean == Overlap \in BOOLEAN

(***************************************************************************)
(* "stop": a caller's context is cancelled, so that every call fails from  *)
(* then on, or the process dies; "refuse": a single call fails whose error *)
(* the code acts on; "drop": a single call fails whose error it ignores.   *)
(***************************************************************************)
ASSUME FaultsAreKnown == FaultSets \subseteq SUBSET {"stop", "refuse", "drop"}

VARIABLES
  batch,    \* table batch_records: id -> state, or "absent"
  item,     \* table batch_items: batch id -> session id -> state, or "absent"
  session,  \* table session_items: session id -> row
  adding,   \* batch -> the sessions CreateBatch has still to insert
  run,      \* attempt -> the locals of ProcessBatch
  reset,    \* the batches BatchProcessorTask has listed and will save
  faults    \* the member of FaultSets that this behaviour is about

vars == <<batch, item, session, adding, run, reset, faults>>

SessionRow == [state : SessionStates, mitigation : Mitigations \cup {None}]

NoSession == [state |-> "absent", mitigation |-> None]

Run ==
  [at : {"idle", "begin", "list", "next", "charge", "mark", "fail", "succeed", "complete",
         "undo", "release", "unmark"},
   batch : Batches \cup {None}, todo : SUBSET Sessions, done : SUBSET Sessions,
   item : Sessions \cup {None}, copy : SessionRow \cup {NoSession}, allSucceeded : BOOLEAN]

IdleRun ==
  [at |-> "idle", batch |-> None, todo |-> {}, done |-> {},
   item |-> None, copy |-> NoSession, allSucceeded |-> TRUE]

TypeOK ==
  /\ batch \in [Batches -> BatchStates \cup {"absent"}]
  /\ item \in [Batches -> [Sessions -> BatchItemStates \cup {"absent"}]]
  /\ session \in [Sessions -> SessionRow]
  /\ adding \in [Batches -> SUBSET Sessions]
  /\ run \in [Attempts -> Run]
  /\ reset \subseteq Batches
  /\ faults \in FaultSets

Init ==
  /\ batch = [b \in Batches |-> "absent"]
  /\ item = [b \in Batches |-> [s \in Sessions |-> "absent"]]
  /\ session \in [Sessions -> [state : {"requested", "negotiating"}, mitigation : {None}]]
  /\ adding = [b \in Batches |-> {}]
  /\ run = [p \in Attempts |-> IdleRun]
  /\ reset = {}
  /\ faults \in FaultSets

Items(b) == {s \in Sessions : item[b][s] # "absent"}

-----------------------------------------------------------------------------
(***************************************************************************)
(* CreateBatch: the record first, then an item for each session.  When a   *)
(* session is not found or an insert fails, what is there stays.  An item  *)
(* is known here by its session: a request that names one session twice,   *)
(* for which the code inserts two items, is not represented.               *)
(***************************************************************************)
Create(b, S) ==
  /\ batch[b] = "absent"
  /\ Overlap \/ \A k \in Batches : S \cap (Items(k) \cup adding[k]) = {}
  /\ batch' = [batch EXCEPT ![b] = "pending"]
  /\ adding' = [adding EXCEPT ![b] = S]
  /\ UNCHANGED <<item, session, run, reset, faults>>

AddItem(b, s) ==
  /\ s \in adding[b]
  /\ item' = [item EXCEPT ![b][s] = "pending"]
  /\ adding' = [adding EXCEPT ![b] = @ \ {s}]
  /\ UNCHANGED <<batch, session, run, reset, faults>>

GiveUp(b) ==
  /\ faults # {} /\ adding[b] # {}
  /\ adding' = [adding EXCEPT ![b] = {}]
  /\ UNCHANGED <<batch, item, session, run, reset, faults>>

-----------------------------------------------------------------------------
(***************************************************************************)
(* ProcessBatch.                                                           *)
(***************************************************************************)
\* Assumed of the callers unless Overlap: one call at a time works on a batch.
InUse(b) == adding[b] # {} \/ b \in reset \/ \E q \in Attempts : run[q].batch = b

Start(p, b) ==
  /\ run[p].at = "idle"
  /\ Validate(BatchTransitions, batch[b], "processing")
  /\ Overlap \/ ~InUse(b)
  /\ run' = [run EXCEPT ![p].at = "begin", ![p].batch = b]
  /\ UNCHANGED <<batch, item, session, adding, reset, faults>>

\* What a write whose error is ignored may leave behind.
Written(old, new) == {new} \cup IF "drop" \in faults THEN {old} ELSE {}

\* The batch's whole record is written, in the given state; only the first
\* such call of an attempt looks at the error.
SaveBatch(p, from, to, next) ==
  LET new == [batch EXCEPT ![run[p].batch] = to] IN
  /\ run[p].at = from
  /\ batch' \in IF from = "begin" THEN {new} ELSE Written(batch, new)
  /\ run' = [run EXCEPT ![p] = IF next = "idle" THEN IdleRun ELSE [@ EXCEPT !.at = next]]
  /\ UNCHANGED <<item, session, adding, reset, faults>>

Begin(p) == SaveBatch(p, "begin", "processing", "list")

\* Defect: items that have succeeded are processed again.
ListItems_All(p) ==
  /\ run[p].at = "list"
  /\ run' = [run EXCEPT ![p].at = "next", ![p].todo = Items(run[p].batch)]
  /\ UNCHANGED <<batch, item, session, adding, reset, faults>>

\* The items as they are now; those that have succeeded are skipped.
ListItems(p) ==
  LET b == run[p].batch
  IN  /\ run[p].at = "list"
      /\ run' = [run EXCEPT ![p].at = "next",
                            ![p].todo = {s \in Items(b) : item[b][s] # "succeeded"}]
      /\ UNCHANGED <<batch, item, session, adding, reset, faults>>

\* processItem reads the session; only one that negotiates or charges will do.
Inspect(p, s) ==
  LET fit == session[s].state \in {"negotiating", "charging"}
  IN  /\ run[p].at = "next" /\ s \in run[p].todo
      /\ run' = [run EXCEPT ![p] =
                   [run[p] EXCEPT !.at = IF fit THEN "charge" ELSE "fail",
                            !.item = s, !.todo = @ \ {s},
                            !.copy = IF fit THEN [session[s] EXCEPT !.state = "charging"]
                                     ELSE NoSession]]
      /\ UNCHANGED <<batch, item, session, adding, reset, faults>>

\* The session's whole row is written back.
SaveSession(p, from, next) ==
  LET new == [session EXCEPT ![run[p].item] = run[p].copy] IN
  /\ run[p].at = from
  /\ session' \in IF from = "charge" THEN {new} ELSE Written(session, new)
  /\ run' = [run EXCEPT ![p].at = next, ![p].copy = NoSession]
  /\ UNCHANGED <<batch, item, adding, reset, faults>>

\* Defect: only the column "state" is written.
Charge_StateOnly(p) ==
  /\ run[p].at = "charge"
  /\ session' = [session EXCEPT ![run[p].item].state = run[p].copy.state]
  /\ run' = [run EXCEPT ![p].at = "mark", ![p].copy = NoSession]
  /\ UNCHANGED <<batch, item, adding, reset, faults>>

Charge(p) == SaveSession(p, "charge", "mark")

\* That write fails (or the read before it), and with it the item.
RefuseItem(p) ==
  /\ run[p].at = "charge"
  /\ run' = [run EXCEPT ![p].at = "fail", ![p].copy = NoSession]

\* The batch cannot be saved as processing or its items not be listed: the
\* attempt returns, and a batch already saved stays "processing".
RefuseAttempt(p) ==
  /\ run[p].at \in {"begin", "list"}
  /\ run' = [run EXCEPT ![p] = IdleRun]

Refuse(p) ==
  /\ "refuse" \in faults
  /\ RefuseItem(p) \/ RefuseAttempt(p)
  /\ UNCHANGED <<batch, item, session, adding, reset, faults>>

SaveItem(p, from, to, next, changes) ==
  /\ run[p].at = from
  /\ item' \in Written(item, [item EXCEPT ![run[p].batch][run[p].item] = to])
  /\ run' = [run EXCEPT ![p] = [changes EXCEPT !.at = next, !.item = None]]
  /\ UNCHANGED <<batch, session, adding, reset, faults>>

\* Defect: an item that succeeded is not remembered for compensation.
Mark_Forgets(p) == SaveItem(p, "mark", "succeeded", "next", run[p])

Mark(p) ==
  SaveItem(p, "mark", "succeeded", "next", [run[p] EXCEPT !.done = @ \cup {run[p].item}])

\* Defect: the batch is not told that an item failed.
Fail_Forgives(p) == SaveItem(p, "fail", "failed", "next", run[p])

Fail(p) == SaveItem(p, "fail", "failed", "next", [run[p] EXCEPT !.allSucceeded = FALSE])

\* Defect: when an item failed the attempt returns at once.
ItemsDone_Returns(p) ==
  /\ run[p].at = "next" /\ run[p].todo = {}
  /\ run' = [run EXCEPT ![p] = IF @.allSucceeded THEN [@ EXCEPT !.at = "succeed"] ELSE IdleRun]
  /\ UNCHANGED <<batch, item, session, adding, reset, faults>>

ItemsDone(p) ==
  /\ run[p].at = "next" /\ run[p].todo = {}
  /\ run' = [run EXCEPT ![p].at = IF run[p].allSucceeded THEN "succeed" ELSE "undo",
                        ![p].todo = run[p].done]
  /\ UNCHANGED <<batch, item, session, adding, reset, faults>>

Succeed(p) == SaveBatch(p, "succeed", "succeeded", "complete")

Complete(p) == SaveBatch(p, "complete", "completed", "idle")

(***************************************************************************)
(* Compensation: a session that charges goes back to negotiating.          *)
(***************************************************************************)
InspectUndo(p, s) ==
  LET charges == session[s].state = "charging"
  IN  /\ run[p].at = "undo" /\ s \in run[p].todo
      /\ run' = [run EXCEPT ![p] =
                   [run[p] EXCEPT !.at = IF charges THEN "release" ELSE "unmark",
                            !.item = s, !.todo = @ \ {s},
                            !.copy = IF charges THEN [session[s] EXCEPT !.state = "negotiating"]
                                     ELSE NoSession]]
      /\ UNCHANGED <<batch, item, session, adding, reset, faults>>

\* Defect: the item is marked, its session left as it is.
Uncharge_Skipped(p) ==
  /\ run[p].at = "release"
  /\ run' = [run EXCEPT ![p].at = "unmark", ![p].copy = NoSession]
  /\ UNCHANGED <<batch, item, session, adding, reset, faults>>

Uncharge(p) == SaveSession(p, "release", "unmark")

Unmark(p) == SaveItem(p, "unmark", "rolled_back", "undo", run[p])

RollBack(p) == run[p].todo = {} /\ SaveBatch(p, "undo", "rolled_back", "idle")

(***************************************************************************)
(* The attempt ends where it is: its context is cancelled and every call   *)
(* fails from now on, the process dies, or the GetItem of a compensation   *)
(* fails, whose nil item is then written to, a panic the server recovers.  *)
(* The batch stays "processing".                                           *)
(***************************************************************************)
Stop(p) ==
  /\ "stop" \in faults /\ run[p].at # "idle"
  /\ run' = [run EXCEPT ![p] = IdleRun]
  /\ UNCHANGED <<batch, item, session, adding, reset, faults>>

-----------------------------------------------------------------------------
(***************************************************************************)
(* BatchProcessorTask lists the batches and saves those rolled back as     *)
(* pending, a transition that is not in their state machine.  The list may *)
(* be stale when a batch is saved, as long as Overlap lets an attempt run  *)
(* in between.                                                             *)
(***************************************************************************)
ListPending ==
  /\ reset = {}
  /\ reset' = {b \in Batches : batch[b] = "rolled_back" /\ (Overlap \/ ~InUse(b))}
  /\ reset' # {}
  /\ UNCHANGED <<batch, item, session, adding, run, faults>>

Reset(b) ==
  /\ b \in reset
  /\ batch' \in Written(batch, [batch EXCEPT ![b] = "pending"])
  /\ reset' = reset \ {b}
  /\ UNCHANGED <<item, session, adding, run, faults>>

\* External: the checks that make a requested session ready to charge.
Ready(s) ==
  /\ session[s].state = "requested"
  /\ session' = [session EXCEPT ![s].state = "negotiating"]
  /\ UNCHANGED <<batch, item, adding, run, reset, faults>>

-----------------------------------------------------------------------------
Step(p) ==
  \/ Begin(p) \/ ListItems(p)
  \/ \E s \in Sessions : Inspect(p, s) \/ InspectUndo(p, s)
  \/ Charge(p) \/ Mark(p) \/ Fail(p) \/ ItemsDone(p)
  \/ Succeed(p) \/ Complete(p)
  \/ Uncharge(p) \/ Unmark(p) \/ RollBack(p)

Next ==
  \/ \E b \in Batches :
       \/ \E S \in SUBSET Sessions : Create(b, S)
       \/ \E s \in Sessions : AddItem(b, s)
       \/ GiveUp(b)
       \/ Reset(b)
  \/ ListPending
  \/ \E p \in Attempts : (\E b \in Batches : Start(p, b)) \/ Step(p) \/ Refuse(p) \/ Stop(p)
  \/ \E s \in Sessions : Ready(s)

Spec == Init /\ [][Next]_vars

(***************************************************************************)
(* An attempt that has been started goes on; nobody is bound to start one. *)
(***************************************************************************)
Fairness == \A p \in Attempts : WF_vars(Step(p))

FairSpec == Spec /\ Fairness

-----------------------------------------------------------------------------
(***************************************************************************)
(* What holds when calls on one batch do not overlap and no session is in  *)
(* two batches, whichever calls fail.                                      *)
(***************************************************************************)

\* A retry never applies an item again that is stored as succeeded.
NotReapplied ==
  [][\A p \in Attempts :
       run[p].at = "charge" /\ run'[p].at = "mark" =>
         item[run[p].batch][run[p].item] # "succeeded"]_vars

(***************************************************************************)
(* What holds when attempts may stop but no single write fails.            *)
(***************************************************************************)

\* A session whose item a rolled-back batch reports as failed or rolled back
\* is not left charging, also when an earlier attempt died after charging it.
UndoneDoesNotCharge ==
  faults \subseteq {"stop"} => \A b \in Batches, s \in Sessions :
    batch[b] \in {"rolled_back", "pending"} /\ item[b][s] \in {"failed", "rolled_back"} =>
      session[s].state # "charging"

(***************************************************************************)
(* What holds when no attempt stops.                                       *)
(***************************************************************************)
OutcomeOf(state) ==
  CASE state = "absent"                       -> "none"
    [] state \in {"pending", "rolled_back"}   -> "open"
    [] state = "processing"                   -> "working"
    [] state \in {"succeeded", "completed"}   -> "done"

Promise == INSTANCE BatchPromise WITH
  outcome  <- [b \in Batches |-> OutcomeOf(batch[b])],
  members  <- [b \in Batches |-> Items(b)],
  charging <- {s \in Sessions : session[s].state = "charging"}

\* Batch processing is all or nothing.
AllOrNothing == Promise!Spec

\* An attempt that has listed the items of its batch ends the batch one way or
\* the other, also when writing its sessions is refused.
AttemptsEnd ==
  \A p \in Attempts, b \in Batches :
    (run[p].at = "next" /\ run[p].batch = b) ~> (batch[b] \in {"rolled_back", "completed"})

(***************************************************************************)
(* What the repository says and the code does not do.                      *)
(***************************************************************************)

\* "compensated back to negotiating": when a batch is rolled back none of its
\* sessions is left charging.
RolledBackReleases ==
  \A b \in Batches : batch[b] = "rolled_back" =>
    \A s \in Items(b) : session[s].state # "charging"

\* batchStateMachine has no transition out of "completed", and its test demands
\* an error for one: a completed batch stays completed.
CompletedStays ==
  [][\A b \in Batches : batch[b] = "completed" => batch'[b] = "completed"]_vars
=============================================================================
