----------------------------- MODULE BatchProofs -----------------------------
(***************************************************************************)
(* Theorems of BatchFlow, alone and beside MitigationFlow in ChargeControl,*)
(* for any sessions, batches, attempts, mitigations and requests: types,   *)
(* what stays completed or succeeded, what a rollback leaves, what names   *)
(* and completed batches say of the sessions, and that ProcessBatch        *)
(* implements BatchPromise.  The invariants are in BatchInv.               *)
(***************************************************************************)
EXTENDS BatchInv, TLAPS

-----------------------------------------------------------------------------
(***************************************************************************)
(* Types.                                                                  *)
(***************************************************************************)
LEMMA Absent ==
  /\ None \notin Batches /\ None \notin Sessions
  /\ "absent" \notin BatchStates /\ "absent" \notin BatchItemStates
BY NoneIsNoBatch DEF BatchStates, BatchItemStates

LEMMA IdleRunIsRun == IdleRun \in Run /\ IdleRun.at = "idle" /\ IdleRun.batch = None
BY DEF IdleRun, Run

LEMMA InitTyped ==
  ASSUME Init
  PROVE  TypeOK
<1>1. batch \in [Batches -> BatchStates \cup {"absent"}]
  BY DEF Init
<1>2. item \in [Batches -> [Sessions -> BatchItemStates \cup {"absent"}]]
  BY DEF Init
<1>3. session \in [Sessions -> SessionRow]
  BY DEF Init, SessionRow, SessionStates
<1>4. adding \in [Batches -> SUBSET Sessions] /\ reset \subseteq Batches /\ faults \in FaultSets
  BY DEF Init
<1>5. run \in [Attempts -> Run]
  BY IdleRunIsRun DEF Init
<1> QED
  BY <1>1, <1>2, <1>3, <1>4, <1>5 DEF TypeOK

\* The state of an attempt moves on; its other locals take values of their types.
LEMMA RunMoves ==
  ASSUME TypeOK, NEW p \in Attempts,
         NEW r, r \in Run,
         run' = [run EXCEPT ![p] = r]
  PROVE  run' \in [Attempts -> Run] /\ run'[p] = r /\ \A q \in Attempts \ {p} : run'[q] = run[q]
BY DEF TypeOK

LEMMA FieldsOfRun ==
  ASSUME NEW r \in Run
  PROVE  /\ r.at \in {"idle", "begin", "list", "next", "charge", "mark", "fail", "succeed",
                      "complete", "undo", "release", "unmark"}
         /\ r.batch \in Batches \cup {None} /\ r.todo \in SUBSET Sessions
         /\ r.done \in SUBSET Sessions /\ r.item \in Sessions \cup {None}
         /\ r.copy \in SessionRow \cup {NoSession} /\ r.allSucceeded \in BOOLEAN
BY DEF Run

\* What Start makes of the locals.
LEMMA StartShape ==
  ASSUME TypeOK, NEW p \in Attempts, NEW b \in Batches, Start(p, b)
  PROVE  /\ run' \in [Attempts -> Run]
         /\ run'[p].at = "begin" /\ run'[p].batch = b
         /\ \A q \in Attempts \ {p} : run'[q] = run[q]
<1> DEFINE r == [run[p] EXCEPT !.at = "begin", !.batch = b]
<1>1. run[p] \in Run
  BY DEF TypeOK
<1>2. r \in Run /\ r.at = "begin" /\ r.batch = b
  BY <1>1 DEF Run
<1>3. run' = [run EXCEPT ![p] = r]
  BY DEF Start
<1> HIDE DEF r
<1> QED
  BY <1>2, <1>3, RunMoves

-----------------------------------------------------------------------------
(***************************************************************************)
(* The steps.                                                              *)
(***************************************************************************)
LEMMA InitHolds ==
  ASSUME Init
  PROVE  IInv
<1>1. TypeOK
  BY InitTyped
<1>2. \A p \in Attempts : run[p].at = "idle" /\ run[p].batch = None
  BY IdleRunIsRun DEF Init
<1>3. \A p \in Attempts : Local(run[p]) /\ Owns(p) /\ Skips(run[p])
  BY <1>2 DEF Local, Owns, Skips
<1>4. ResetIsDue
  BY DEF Init, ResetIsDue
<1> QED
  BY <1>1, <1>3, <1>4 DEF IInv

\* A step of an attempt writes its own batch and its items only.
LEMMA AttemptStep ==
  ASSUME IInv, NEW p \in Attempts, NEW r \in Run, run[p].at # "idle",
         run' = [run EXCEPT ![p] = r],
         r = IdleRun \/ (r.at # "idle" /\ r.batch = run[p].batch),
         Local(r), ~Overlap => Skips(r)',
         UNCHANGED <<adding, reset, faults>>,
         batch' \in [Batches -> BatchStates \cup {"absent"}],
         item' \in [Batches -> [Sessions -> BatchItemStates \cup {"absent"}]],
         session' \in [Sessions -> SessionRow],
         \A k \in Batches \ {run[p].batch} : batch'[k] = batch[k] /\ item'[k] = item[k],
         ~Overlap /\ r # IdleRun => batch'[run[p].batch] \notin {"absent", "completed"}
  PROVE  IInv'
<1> USE DEF IInv
<1>1. run \in [Attempts -> Run] /\ run[p] \in Run /\ run[p].batch \in Batches
  BY DEF TypeOK, Local
<1>2. run' \in [Attempts -> Run] /\ run'[p] = r /\ \A q \in Attempts \ {p} : run'[q] = run[q]
  BY <1>1
<1>3. TypeOK'
  BY <1>2 DEF TypeOK
<1>4. ASSUME NEW q \in Attempts PROVE Local(run[q])'
  BY <1>2 DEF Local
<1>5. ASSUME ~Overlap PROVE ResetIsDue'
  BY <1>1, <1>5 DEF ResetIsDue, Owns, TypeOK
<1>6. ASSUME ~Overlap, NEW q \in Attempts PROVE Owns(q)'
  <2>1. SUFFICES ASSUME run'[q].at # "idle" PROVE Owns(q)'
    BY DEF Owns
  <2>2. run'[q].batch = run[q].batch /\ run[q].at # "idle" /\ Owns(q) /\ run[q].batch \in Batches
    BY <1>1, <1>2, <1>6, <2>1, IdleRunIsRun DEF Local
  <2>3. batch'[run[q].batch] \notin {"absent", "completed"}
    BY <1>1, <1>2, <1>6, <2>1, <2>2, IdleRunIsRun DEF Owns
  <2>4. \A w \in Attempts : run'[w].batch = run[w].batch \/ run'[w].batch = None
    BY <1>2, IdleRunIsRun
  <2> QED
    BY <2>2, <2>3, <2>4, Absent DEF Owns
<1>7. ASSUME ~Overlap, NEW q \in Attempts PROVE Skips(run[q])'
  <2>1. CASE q = p
    BY <1>2, <1>7, <2>1 DEF Skips
  <2>2. CASE q # p
    <3>1. run'[q] = run[q] /\ Skips(run[q]) /\ Owns(p)
      BY <1>2, <1>7, <2>2
    <3>2. run[q].at = "idle" \/ item'[run[q].batch] = item[run[q].batch]
      BY <1>1, <2>2, <3>1 DEF Owns, Local
    <3> QED
      BY <3>1, <3>2 DEF Skips
  <2> QED
    BY <2>1, <2>2
<1> QED
  BY <1>3, <1>4, <1>5, <1>6, <1>7

\* What a write may leave is the old value or the new one.
LEMMA WrittenIs ==
  ASSUME NEW old, NEW new, NEW x \in Written(old, new)
  PROVE  x = old \/ x = new
BY DEF Written

\* Begin, Succeed, Complete and RollBack.
LEMMA SaveBatchHolds ==
  ASSUME IInv, NEW p \in Attempts, NEW from, NEW to \in BatchStates,
         NEW next \in {"idle", "list", "complete"},
         from # "idle", SaveBatch(p, from, to, next),
         to = "completed" => next = "idle"
  PROVE  IInv'
<1> USE DEF IInv
<1>1. run[p] \in Run /\ run[p].batch \in Batches /\ run[p].at # "idle"
  BY DEF TypeOK, Local, SaveBatch
<1>2. PICK r : r = IF next = "idle" THEN IdleRun ELSE [run[p] EXCEPT !.at = next]
  OBVIOUS
<1>3. next # "idle" => r \in Run /\ r.at = next /\ r.batch = run[p].batch
  BY <1>1, <1>2 DEF Run
<1>4. next = "idle" => r = IdleRun
  BY <1>2
<1>5. r \in Run
  BY <1>3, <1>4, IdleRunIsRun
<1>6. run' = [run EXCEPT ![p] = r]
  BY <1>2 DEF SaveBatch
<1>7. Local(r) /\ Skips(r)'
  BY <1>1, <1>3, <1>4, IdleRunIsRun DEF Local, Skips
<1>8. batch' = batch \/ batch' = [batch EXCEPT ![run[p].batch] = to]
  BY WrittenIs DEF SaveBatch
<1>9. batch' \in [Batches -> BatchStates \cup {"absent"}]
      /\ \A k \in Batches \ {run[p].batch} : batch'[k] = batch[k]
  BY <1>8 DEF TypeOK
<1>10. ~Overlap /\ r # IdleRun => batch'[run[p].batch] \notin {"absent", "completed"}
  BY <1>1, <1>4, <1>8, Absent DEF TypeOK, Owns
<1>11. UNCHANGED <<item, session, adding, reset, faults>>
  BY DEF SaveBatch
<1>12. r = IdleRun \/ (r.at # "idle" /\ r.batch = run[p].batch)
  BY <1>3, <1>4
<1> QED
  BY <1>1, <1>5, <1>6, <1>7, <1>9, <1>10, <1>11, <1>12, AttemptStep DEF TypeOK

\* Charge and Uncharge.
LEMMA SaveSessionHolds ==
  ASSUME IInv, NEW p \in Attempts, NEW from \in {"charge", "release"}, NEW next \in {"mark", "unmark"},
         SaveSession(p, from, next), from = "charge" <=> next = "mark"
  PROVE  IInv'
<1> USE DEF IInv
<1>1. /\ run[p] \in Run /\ run[p].batch \in Batches /\ run[p].at = from
      /\ run[p].item \in Sessions /\ run[p].copy \in SessionRow
  BY DEF TypeOK, Local, SaveSession
<1>2. PICK r : r = [run[p] EXCEPT !.at = next, !.copy = NoSession]
  OBVIOUS
<1>3. /\ r \in Run /\ r.at = next /\ r.batch = run[p].batch /\ r.item = run[p].item
      /\ r.todo = run[p].todo
  BY <1>1, <1>2 DEF Run
<1>4. run' = [run EXCEPT ![p] = r] /\ UNCHANGED <<batch, item, adding, reset, faults>>
  BY <1>2 DEF SaveSession
<1>5. session' = session \/ session' = [session EXCEPT ![run[p].item] = run[p].copy]
  BY WrittenIs DEF SaveSession
<1>6. session' \in [Sessions -> SessionRow]
  BY <1>1, <1>5 DEF TypeOK
<1>7. Local(r)
  BY <1>1, <1>3 DEF Local
<1>8. ~Overlap => Skips(r)' /\ batch'[run[p].batch] \notin {"absent", "completed"}
  BY <1>1, <1>3, <1>4 DEF Skips, Owns
<1> QED
  BY <1>1, <1>3, <1>4, <1>6, <1>7, <1>8, AttemptStep DEF TypeOK

\* Mark, Fail and Unmark.
LEMMA SaveItemHolds ==
  ASSUME IInv, NEW p \in Attempts, NEW from \in {"mark", "fail", "unmark"}, NEW to \in BatchItemStates,
         NEW next \in {"next", "undo"}, NEW changes \in Run,
         changes.batch = run[p].batch, changes.todo = run[p].todo,
         next = "next" <=> from # "unmark",
         SaveItem(p, from, to, next, changes)
  PROVE  IInv'
<1> USE DEF IInv
<1>1. run[p] \in Run /\ run[p].batch \in Batches /\ run[p].at = from /\ run[p].item \in Sessions
  BY DEF TypeOK, Local, SaveItem
<1>2. PICK r : r = [changes EXCEPT !.at = next, !.item = None]
  OBVIOUS
<1>3. r \in Run /\ r.at = next /\ r.batch = run[p].batch /\ r.todo = run[p].todo
  BY <1>1, <1>2 DEF Run
<1>4. run' = [run EXCEPT ![p] = r] /\ UNCHANGED <<batch, session, adding, reset, faults>>
  BY <1>2 DEF SaveItem
<1>5. item' = item \/ item' = [item EXCEPT ![run[p].batch][run[p].item] = to]
  BY WrittenIs DEF SaveItem
<1>6. /\ item' \in [Batches -> [Sessions -> BatchItemStates \cup {"absent"}]]
      /\ \A k \in Batches \ {run[p].batch} : item'[k] = item[k]
      /\ \A s \in Sessions \ {run[p].item} : item'[run[p].batch][s] = item[run[p].batch][s]
  <2>1. item \in [Batches -> [Sessions -> BatchItemStates \cup {"absent"}]]
    BY DEF TypeOK
  <2>2. CASE item' = item
    BY <2>1, <2>2
  <2>3. CASE item' = [item EXCEPT ![run[p].batch][run[p].item] = to]
    <3>1. item' = [item EXCEPT ![run[p].batch] = [item[run[p].batch] EXCEPT ![run[p].item] = to]]
      BY <1>1, <2>1, <2>3
    <3>2. [item[run[p].batch] EXCEPT ![run[p].item] = to] \in [Sessions -> BatchItemStates \cup {"absent"}]
      BY <1>1, <2>1
    <3> QED
      BY <1>1, <2>1, <3>1, <3>2
  <2> QED
    BY <1>5, <2>2, <2>3
<1>7. Local(r)
  BY <1>1, <1>3 DEF Local
<1>8. ASSUME ~Overlap PROVE Skips(r)' /\ batch'[run[p].batch] \notin {"absent", "completed"}
  <2>1. Skips(run[p]) /\ Owns(p) /\ r.todo \in SUBSET Sessions
    BY <1>3, <1>8, FieldsOfRun
  <2>2. Skips(r)'
    BY <1>1, <1>3, <1>6, <2>1 DEF Skips
  <2> QED
    BY <1>1, <1>4, <2>1, <2>2 DEF Owns
<1> QED
  BY <1>1, <1>3, <1>4, <1>6, <1>7, <1>8, AttemptStep DEF TypeOK

\* A step that reads: the locals of one attempt change and nothing else.
LEMMA ReadHolds ==
  ASSUME IInv, NEW p \in Attempts, NEW r \in Run, run[p].at # "idle",
         run' = [run EXCEPT ![p] = r],
         r = IdleRun \/ (r.at # "idle" /\ r.batch = run[p].batch),
         Local(r), ~Overlap => Skips(r),
         UNCHANGED <<batch, item, session, adding, reset, faults>>
  PROVE  IInv'
<1> USE DEF IInv
<1>1. run[p].batch \in Batches
  BY DEF Local
<1>2. ~Overlap => Skips(r)'
  BY DEF Skips
<1>3. ~Overlap => batch'[run[p].batch] \notin {"absent", "completed"}
  BY DEF Owns
<1> QED
  BY <1>1, <1>2, <1>3, AttemptStep DEF TypeOK

LEMMA ListItemsHolds ==
  ASSUME IInv, NEW p \in Attempts, ListItems(p)
  PROVE  IInv'
<1> USE DEF IInv
<1>1. run[p] \in Run /\ run[p].batch \in Batches
  BY DEF TypeOK, Local, ListItems
<1>2. PICK S : S = {s \in Items(run[p].batch) : item[run[p].batch][s] # "succeeded"}
  OBVIOUS
<1>3. S \in SUBSET Sessions
  BY <1>2 DEF Items
<1>4. PICK r : r = [run[p] EXCEPT !.at = "next", !.todo = S]
  OBVIOUS
<1>5. r \in Run /\ r.at = "next" /\ r.batch = run[p].batch /\ r.todo = S
  BY <1>1, <1>3, <1>4 DEF Run
<1>6. run' = [run EXCEPT ![p] = r] /\ UNCHANGED <<batch, item, session, adding, reset, faults>>
  BY <1>2, <1>4 DEF ListItems
<1>7. Local(r) /\ Skips(r)
  BY <1>1, <1>2, <1>5 DEF Local, Skips
<1>8. run[p].at # "idle"
  BY DEF ListItems
<1> QED
  BY <1>5, <1>6, <1>7, <1>8, ReadHolds

\* Inspect and InspectUndo.
LEMMA InspectHolds ==
  ASSUME IInv, NEW p \in Attempts, NEW s \in Sessions, Inspect(p, s) \/ InspectUndo(p, s)
  PROVE  IInv'
<1> USE DEF IInv
<1>1. /\ run[p] \in Run /\ run[p].batch \in Batches /\ session[s] \in SessionRow
      /\ run[p].at \in {"next", "undo"} /\ s \in run[p].todo
  BY DEF TypeOK, Local, Inspect, InspectUndo
<1>2. \A state \in SessionStates : [session[s] EXCEPT !.state = state] \in SessionRow
  BY <1>1 DEF SessionRow
<1>3. "charging" \in SessionStates /\ "negotiating" \in SessionStates
  BY DEF SessionStates
<1>4. PICK where \in {"charge", "fail", "release", "unmark"}, held \in SessionRow \cup {NoSession} :
        /\ run' = [run EXCEPT ![p] =
                     [run[p] EXCEPT !.at = where, !.item = s, !.todo = @ \ {s}, !.copy = held]]
        /\ where \in {"charge", "release"} => held \in SessionRow
        /\ where \in {"charge", "fail"} => run[p].at = "next"
  <2>0. run \in [Attempts -> Run]
    BY DEF TypeOK
  <2>1. CASE Inspect(p, s) /\ session[s].state \in {"negotiating", "charging"}
    BY <1>2, <1>3, <2>1 DEF Inspect
  <2>2. CASE Inspect(p, s) /\ session[s].state \notin {"negotiating", "charging"}
    BY <2>2 DEF Inspect
  <2>3. CASE InspectUndo(p, s) /\ session[s].state = "charging"
    BY <1>2, <1>3, <2>3 DEF InspectUndo
  <2>4. CASE InspectUndo(p, s) /\ session[s].state # "charging"
    BY <2>4 DEF InspectUndo
  <2> QED
    BY <2>1, <2>2, <2>3, <2>4
<1>5. PICK r : r = [run[p] EXCEPT !.at = where, !.item = s, !.todo = @ \ {s}, !.copy = held]
  OBVIOUS
<1>6. /\ r \in Run /\ r.at = where /\ r.batch = run[p].batch /\ r.item = s /\ r.copy = held
      /\ r.todo = run[p].todo \ {s}
  BY <1>1, <1>5 DEF Run
<1>7. run' = [run EXCEPT ![p] = r]
  BY <1>4, <1>5 DEF TypeOK
<1>a. UNCHANGED <<batch, item, session, adding, reset, faults>>
  BY DEF Inspect, InspectUndo
<1>8. Local(r)
  BY <1>1, <1>4, <1>6 DEF Local
<1>9. ~Overlap => Skips(r)
  BY <1>1, <1>4, <1>6 DEF Skips
<1> QED
  BY <1>1, <1>4, <1>6, <1>7, <1>a, <1>8, <1>9, ReadHolds

LEMMA ItemsDoneHolds ==
  ASSUME IInv, NEW p \in Attempts, ItemsDone(p)
  PROVE  IInv'
<1> USE DEF IInv
<1>1. run[p] \in Run /\ run[p].batch \in Batches /\ run[p].at # "idle"
  BY DEF TypeOK, Local, ItemsDone
<1>2. PICK where \in {"succeed", "undo"} :
        run' = [run EXCEPT ![p] = [@ EXCEPT !.at = where, !.todo = run[p].done]]
  BY <1>1 DEF TypeOK, ItemsDone
<1>3. PICK r : r = [run[p] EXCEPT !.at = where, !.todo = run[p].done]
  OBVIOUS
<1>4. r \in Run /\ r.at = where /\ r.batch = run[p].batch
  BY <1>1, <1>3 DEF Run
<1>5. run' = [run EXCEPT ![p] = r]
  BY <1>2, <1>3 DEF TypeOK
<1>6. Local(r) /\ Skips(r)
  BY <1>1, <1>4 DEF Local, Skips
<1>7. UNCHANGED <<batch, item, session, adding, reset, faults>>
  BY DEF ItemsDone
<1> QED
  BY <1>1, <1>4, <1>5, <1>6, <1>7, ReadHolds

\* Refuse and Stop.
LEMMA FaultHolds ==
  ASSUME IInv, NEW p \in Attempts, Refuse(p) \/ Stop(p)
  PROVE  IInv'
<1> USE DEF IInv
<1>1. run[p] \in Run /\ run[p].batch \in Batches /\ run[p].at # "idle"
  BY DEF TypeOK, Local, Refuse, RefuseItem, RefuseAttempt, Stop
<1>2. CASE Stop(p) \/ (Refuse(p) /\ RefuseAttempt(p))
  <2>1. Local(IdleRun) /\ Skips(IdleRun)
    BY IdleRunIsRun DEF Local, Skips
  <2> QED
    BY <1>1, <1>2, <2>1, IdleRunIsRun, ReadHolds DEF Stop, Refuse, RefuseAttempt
<1>3. CASE Refuse(p) /\ RefuseItem(p)
  <2>1. PICK r : r = [run[p] EXCEPT !.at = "fail", !.copy = NoSession]
    OBVIOUS
  <2>2. r \in Run /\ r.at = "fail" /\ r.batch = run[p].batch /\ r.item = run[p].item /\ r.todo = run[p].todo
    BY <1>1, <2>1 DEF Run
  <2>3. run' = [run EXCEPT ![p] = r] /\ UNCHANGED <<batch, item, session, adding, reset, faults>>
    BY <1>3, <2>1 DEF Refuse, RefuseItem, TypeOK
  <2>4. Local(r) /\ run[p].at = "charge"
    BY <1>1, <1>3, <2>2 DEF Local, RefuseItem
  <2>5. ~Overlap => Skips(r)
    BY <2>2, <2>4 DEF Skips
  <2> QED
    BY <1>1, <2>2, <2>3, <2>4, <2>5, ReadHolds
<1> QED
  BY <1>2, <1>3 DEF Refuse

LEMMA StartHolds ==
  ASSUME IInv, NEW p \in Attempts, NEW b \in Batches, Start(p, b)
  PROVE  IInv'
<1> USE DEF IInv
<1>1. /\ run' \in [Attempts -> Run]
      /\ run'[p].at = "begin" /\ run'[p].batch = b
      /\ \A q \in Attempts \ {p} : run'[q] = run[q]
      /\ UNCHANGED <<batch, item, session, adding, reset, faults>>
  BY StartShape DEF Start
<1>2. batch[b] \notin {"absent", "completed"}
  BY DEF Start, Validate, BatchTransitions
<1>3. ~Overlap => b \notin reset /\ adding[b] = {} /\ \A q \in Attempts : run[q].batch # b
  BY DEF Start, InUse
<1>4. TypeOK'
  BY <1>1 DEF TypeOK
<1>5. ASSUME NEW q \in Attempts PROVE Local(run[q])'
  BY <1>1 DEF Local
<1>6. ~Overlap => ResetIsDue'
  BY <1>1 DEF ResetIsDue
<1>7. ASSUME ~Overlap, NEW q \in Attempts PROVE Owns(q)' /\ Skips(run[q])'
  <2>1. CASE q = p
    BY <1>1, <1>2, <1>3, <1>7, <2>1 DEF Owns, Skips
  <2>2. CASE q # p
    <3>1. run'[q] = run[q] /\ Owns(q) /\ Skips(run[q]) /\ run[q].batch # b
      BY <1>1, <1>3, <1>7, <2>2
    <3> QED
      BY <1>1, <3>1 DEF Owns, Skips
  <2> QED
    BY <2>1, <2>2
<1> QED
  BY <1>4, <1>5, <1>6, <1>7

\* CreateBatch, BatchProcessorTask and what makes sessions ready: no batch that
\* an attempt works on.
LEMMA OtherHolds ==
  ASSUME IInv, UNCHANGED run, UNCHANGED faults, TypeOK',
         \A b \in Batches, p \in Attempts : ~Overlap /\ run[p].at # "idle" /\ run[p].batch = b =>
           batch'[b] = batch[b] /\ item'[b] = item[b] /\ adding'[b] = adding[b] /\ b \notin reset' \ reset,
         ~Overlap => ResetIsDue'
  PROVE  IInv'
<1> USE DEF IInv
<1>1. \A p \in Attempts : Local(run[p])'
  BY DEF Local
<1>2. ASSUME ~Overlap, NEW p \in Attempts PROVE Owns(p)' /\ Skips(run[p])'
  <2>1. run[p].at # "idle" => run[p].batch \in Batches
    BY DEF Local
  <2>2. Owns(p) /\ Skips(run[p]) /\ run'[p] = run[p]
    BY <1>2
  <2>3. Owns(p)'
    BY <1>2, <2>1, <2>2 DEF Owns
  <2>4. Skips(run[p])'
    BY <1>2, <2>1, <2>2 DEF Skips
  <2> QED
    BY <2>3, <2>4
<1> QED
  BY <1>1, <1>2

LEMMA StepHolds ==
  ASSUME IInv, [Next]_vars
  PROVE  IInv'
<1> USE DEF IInv
<1>1. ASSUME NEW b \in Batches, NEW S \in SUBSET Sessions, Create(b, S)
      PROVE  IInv'
  <2>1. TypeOK'
    BY <1>1 DEF TypeOK, Create, BatchStates
  <2>2. ~Overlap => \A p \in Attempts : run[p].at # "idle" => run[p].batch # b
    BY <1>1 DEF Create, Owns
  <2>3. ~Overlap => ResetIsDue'
    BY <1>1 DEF Create, ResetIsDue, TypeOK
  <2> QED
    BY <1>1, <2>1, <2>2, <2>3, OtherHolds DEF Create, TypeOK
<1>2. ASSUME NEW b \in Batches, NEW s \in Sessions, AddItem(b, s)
      PROVE  IInv'
  <2>0. /\ [item[b] EXCEPT ![s] = "pending"] \in [Sessions -> BatchItemStates \cup {"absent"}]
        /\ item' = [item EXCEPT ![b] = [item[b] EXCEPT ![s] = "pending"]]
    BY <1>2 DEF TypeOK, AddItem, BatchItemStates
  <2>1. TypeOK'
    BY <1>2, <2>0 DEF TypeOK, AddItem
  <2>2. ~Overlap => \A p \in Attempts : run[p].at # "idle" => run[p].batch # b
    BY <1>2 DEF AddItem, Owns
  <2>3. ~Overlap => ResetIsDue'
    BY <1>2 DEF AddItem, ResetIsDue
  <2> QED
    BY <1>2, <2>0, <2>1, <2>2, <2>3, OtherHolds DEF AddItem, TypeOK
<1>3. ASSUME NEW b \in Batches, GiveUp(b)
      PROVE  IInv'
  <2>1. TypeOK'
    BY <1>3 DEF TypeOK, GiveUp
  <2>2. ~Overlap => \A p \in Attempts : run[p].at # "idle" => run[p].batch # b
    BY <1>3 DEF GiveUp, Owns
  <2>3. ~Overlap => ResetIsDue'
    BY <1>3 DEF GiveUp, ResetIsDue
  <2> QED
    BY <1>3, <2>1, <2>2, <2>3, OtherHolds DEF GiveUp, TypeOK
<1>4. ASSUME NEW b \in Batches, Reset(b)
      PROVE  IInv'
  <2>0. batch' = batch \/ batch' = [batch EXCEPT ![b] = "pending"]
    BY <1>4, WrittenIs DEF Reset
  <2>1. TypeOK'
    BY <1>4, <2>0 DEF TypeOK, Reset, BatchStates
  <2>2. ~Overlap => \A p \in Attempts : run[p].at # "idle" => run[p].batch # b
    BY <1>4 DEF Reset, Owns
  <2>3. ~Overlap => ResetIsDue'
    BY <1>4, <2>0 DEF Reset, ResetIsDue, TypeOK
  <2> QED
    BY <1>4, <2>0, <2>1, <2>2, <2>3, OtherHolds DEF Reset, TypeOK
<1>5. ASSUME ListPending
      PROVE  IInv'
  <2>1. TypeOK'
    BY <1>5 DEF TypeOK, ListPending
  <2>2. ~Overlap => \A p \in Attempts : run[p].batch \notin reset'
    BY <1>5 DEF ListPending, InUse
  <2>3. ResetIsDue'
    BY <1>5 DEF ListPending, ResetIsDue
  <2> QED
    BY <1>5, <2>1, <2>2, <2>3, OtherHolds DEF ListPending
<1>6. ASSUME NEW s \in Sessions, Ready(s)
      PROVE  IInv'
  <2>1. TypeOK'
    BY <1>6 DEF TypeOK, Ready, SessionRow, SessionStates
  <2>2. ~Overlap => ResetIsDue'
    BY <1>6 DEF Ready, ResetIsDue
  <2> QED
    BY <1>6, <2>1, <2>2, OtherHolds DEF Ready
<1>7. ASSUME NEW p \in Attempts, Begin(p) \/ Succeed(p) \/ Complete(p) \/ RollBack(p)
      PROVE  IInv'
  BY <1>7, SaveBatchHolds DEF Begin, Succeed, Complete, RollBack, BatchStates
<1>8. ASSUME NEW p \in Attempts, Charge(p) \/ Uncharge(p)
      PROVE  IInv'
  BY <1>8, SaveSessionHolds DEF Charge, Uncharge
<1>9. ASSUME NEW p \in Attempts, Mark(p) \/ Fail(p) \/ Unmark(p)
      PROVE  IInv'
  <2>1. run[p] \in Run
    BY DEF TypeOK
  <2>2. CASE Mark(p)
    <3>1. run[p].item \in Sessions
      BY <2>2 DEF Mark, SaveItem, Local
    <3>2. PICK c : c = [run[p] EXCEPT !.done = @ \cup {run[p].item}]
      OBVIOUS
    <3>3. c \in Run /\ c.batch = run[p].batch /\ c.todo = run[p].todo
      BY <2>1, <3>1, <3>2 DEF Run
    <3>4. SaveItem(p, "mark", "succeeded", "next", c)
      BY <2>2, <3>2 DEF Mark
    <3> QED
      BY <3>3, <3>4, SaveItemHolds DEF BatchItemStates
  <2>3. CASE Fail(p)
    <3>1. PICK c : c = [run[p] EXCEPT !.allSucceeded = FALSE]
      OBVIOUS
    <3>2. c \in Run /\ c.batch = run[p].batch /\ c.todo = run[p].todo
      BY <2>1, <3>1 DEF Run
    <3>3. SaveItem(p, "fail", "failed", "next", c)
      BY <2>3, <3>1 DEF Fail
    <3> QED
      BY <3>2, <3>3, SaveItemHolds DEF BatchItemStates
  <2>4. CASE Unmark(p)
    BY <2>1, <2>4, SaveItemHolds DEF Unmark, BatchItemStates
  <2> QED
    BY <1>9, <2>2, <2>3, <2>4
<1>10. ASSUME UNCHANGED vars
       PROVE  IInv'
  BY <1>10 DEF vars, TypeOK, Local, Skips, Owns, ResetIsDue
<1> QED
  BY <1>1, <1>2, <1>3, <1>4, <1>5, <1>6, <1>7, <1>8, <1>9, <1>10, ListItemsHolds, InspectHolds,
     ItemsDoneHolds, FaultHolds, StartHolds DEF Next, Step

-----------------------------------------------------------------------------
(***************************************************************************)
(* The theorems.                                                           *)
(***************************************************************************)
LEMMA Inductive == Spec => []IInv
<1>1. Init => IInv
  BY InitHolds
<1>2. IInv /\ [Next]_vars => IInv'
  BY StepHolds
<1> QED
  BY <1>1, <1>2, PTL DEF Spec

\* Every reachable state of CreateBatch, ProcessBatch and BatchProcessorTask is
\* well typed, whatever overlaps and whichever calls fail.
THEOREM BatchTypeCorrect == Spec => []TypeOK
<1>1. IInv => TypeOK
  BY DEF IInv
<1> QED
  BY <1>1, Inductive, PTL

\* When calls on one batch do not overlap, processItem never charges a session
\* again whose item is stored as succeeded.
THEOREM SuccessIsNotRepeated ==
  ASSUME ~Overlap
  PROVE  Spec => NotReapplied
<1>1. IInv =>
        \A p \in Attempts : run[p].at = "charge" => item[run[p].batch][run[p].item] # "succeeded"
  BY DEF IInv, Skips
<1>2. IInv /\ [Next]_vars =>
        [\A p \in Attempts :
           run[p].at = "charge" /\ run'[p].at = "mark" =>
             item[run[p].batch][run[p].item] # "succeeded"]_vars
  BY <1>1
<1> QED
  BY <1>2, Inductive, PTL DEF Spec, NotReapplied

-----------------------------------------------------------------------------
(***************************************************************************)
(* The steps of an attempt, field by field.                                *)
(***************************************************************************)

\* Attempt p, which works on batch b, goes on with the locals r.
GoesOn(p, b, r) ==
  /\ run[p].at # "idle" /\ run[p].batch = b /\ r \in Run
  /\ run'[p] = r /\ \A q \in Attempts \ {p} : run'[q] = run[q]
  /\ UNCHANGED <<adding, reset, faults>>

Lost == "drop" \in faults

BatchBecomes(b, to) ==
  /\ UNCHANGED <<item, session>>
  /\ \A k \in Batches : batch'[k] = IF k = b THEN to ELSE batch[k]

ItemBecomes(b, i, to) ==
  /\ UNCHANGED <<batch, session>>
  /\ \A k \in Batches, s \in Sessions :
       item'[k][s] = IF k = b /\ s = i THEN to ELSE item[k][s]

SessionBecomes(i, to) ==
  /\ UNCHANGED <<batch, item>>
  /\ \A s \in Sessions : session'[s] = IF s = i THEN to ELSE session[s]

Tables == <<batch, item, session>>

\* The attempt stops, is refused, completes its batch, or has compensated it.
Ends(p, b, r) ==
  /\ r = IdleRun
  /\ \/ UNCHANGED Tables /\ "stop" \in faults
     \/ UNCHANGED Tables /\ "refuse" \in faults /\ run[p].at \in {"begin", "list"}
     \/ UNCHANGED Tables /\ Lost /\ run[p].at \in {"complete", "undo"}
     \/ run[p].at = "complete" /\ BatchBecomes(b, "completed")
     \/ run[p].at = "undo" /\ run[p].todo = {} /\ BatchBecomes(b, "rolled_back")

Same(o, r) == r.batch = o.batch /\ r.done = o.done

\* Begin and Succeed.
Saves(p, b, r) ==
  /\ Same(run[p], r) /\ r.todo = run[p].todo /\ r.allSucceeded = run[p].allSucceeded
  /\ \/ run[p].at = "begin" /\ r.at = "list" /\ BatchBecomes(b, "processing")
     \/ /\ run[p].at = "succeed" /\ r.at = "complete"
        /\ BatchBecomes(b, "succeeded") \/ (Lost /\ UNCHANGED Tables)

Lists(p, b, r) ==
  /\ run[p].at = "list" /\ r.at = "next" /\ UNCHANGED Tables
  /\ Same(run[p], r) /\ r.allSucceeded = run[p].allSucceeded
  /\ r.todo = {s \in Items(b) : item[b][s] # "succeeded"}

\* Inspect and InspectUndo.
Looks(p, r, s) ==
  /\ UNCHANGED Tables /\ Same(run[p], r) /\ r.allSucceeded = run[p].allSucceeded
  /\ s \in run[p].todo /\ r.item = s /\ r.todo = run[p].todo \ {s}
  /\ r.at \in {"charge", "release"} =>
       r.copy \in SessionRow /\ r.copy.mitigation = session[s].mitigation
  /\ \/ /\ run[p].at = "next" /\ r.at = "charge"
        /\ session[s].state \in {"negotiating", "charging"} /\ r.copy.state = "charging"
     \/ run[p].at = "next" /\ r.at = "fail" /\ session[s].state # "charging"
     \/ /\ run[p].at = "undo" /\ r.at = "release"
        /\ session[s].state = "charging" /\ r.copy.state = "negotiating"
     \/ run[p].at = "undo" /\ r.at = "unmark" /\ session[s].state # "charging"

\* Charge and Uncharge.
Puts(p, r) ==
  /\ Same(run[p], r) /\ r.allSucceeded = run[p].allSucceeded
  /\ r.item = run[p].item /\ r.todo = run[p].todo
  /\ \/ run[p].at = "charge" /\ r.at = "mark" /\ SessionBecomes(run[p].item, run[p].copy)
     \/ /\ run[p].at = "release" /\ r.at = "unmark"
        /\ SessionBecomes(run[p].item, run[p].copy) \/ (Lost /\ UNCHANGED Tables)

\* Mark, Fail and Unmark.
Marks(p, b, r) ==
  /\ r.batch = run[p].batch /\ r.todo = run[p].todo
  /\ \/ /\ run[p].at = "mark" /\ r.at = "next"
        /\ ItemBecomes(b, run[p].item, "succeeded") \/ (Lost /\ UNCHANGED Tables)
        /\ r.done = run[p].done \cup {run[p].item} /\ r.allSucceeded = run[p].allSucceeded
     \/ /\ run[p].at = "fail" /\ r.at = "next"
        /\ ItemBecomes(b, run[p].item, "failed") \/ (Lost /\ UNCHANGED Tables)
        /\ r.done = run[p].done /\ r.allSucceeded = FALSE
     \/ /\ run[p].at = "unmark" /\ r.at = "undo"
        /\ ItemBecomes(b, run[p].item, "rolled_back") \/ (Lost /\ UNCHANGED Tables)
        /\ r.done = run[p].done /\ r.allSucceeded = run[p].allSucceeded

\* ItemsDone.
Turns(p, r) ==
  /\ UNCHANGED Tables /\ Same(run[p], r) /\ r.allSucceeded = run[p].allSucceeded
  /\ run[p].at = "next" /\ run[p].todo = {} /\ r.todo = run[p].done
  /\ r.at = IF run[p].allSucceeded THEN "succeed" ELSE "undo"

Refuses(p, r) ==
  /\ UNCHANGED Tables /\ Same(run[p], r) /\ "refuse" \in faults
  /\ run[p].at = "charge" /\ r.at = "fail"
  /\ r.item = run[p].item /\ r.todo = run[p].todo

Acts(p, b, r) ==
  \/ Ends(p, b, r) \/ Saves(p, b, r) \/ Lists(p, b, r)
  \/ \E s \in Sessions : Looks(p, r, s)
  \/ Puts(p, r) \/ Marks(p, b, r) \/ Turns(p, r) \/ Refuses(p, r)

LEMMA WrittenLoses ==
  ASSUME NEW old, NEW new, NEW x \in Written(old, new)
  PROVE  x = new \/ (x = old /\ Lost)
BY DEF Written, Lost

LEMMA SaveBatchActs ==
  ASSUME IInv, NEW p \in Attempts,
         Begin(p) \/ Succeed(p) \/ Complete(p) \/ RollBack(p)
  PROVE  \E b \in Batches, r \in Run : GoesOn(p, b, r) /\ Acts(p, b, r)
<1> USE DEF IInv
<1>1. run[p] \in Run /\ run[p].batch \in Batches /\ run[p].at # "idle"
  BY DEF TypeOK, Local, Begin, Succeed, Complete, RollBack, SaveBatch
<1>2. ASSUME NEW from, NEW to, NEW next, SaveBatch(p, from, to, next), from # "idle",
             NEW r \in Run, r = IF next = "idle" THEN IdleRun ELSE [run[p] EXCEPT !.at = next]
      PROVE  /\ GoesOn(p, run[p].batch, r)
             /\ \/ BatchBecomes(run[p].batch, to)
                \/ from # "begin" /\ Lost /\ UNCHANGED Tables
             /\ next # "idle" =>
                  /\ Same(run[p], r) /\ r.todo = run[p].todo /\ r.at = next
                  /\ r.allSucceeded = run[p].allSucceeded
  <2>1. run' = [run EXCEPT ![p] = r] /\ UNCHANGED <<item, session, adding, reset, faults>>
    BY <1>2 DEF SaveBatch
  <2>2. GoesOn(p, run[p].batch, r)
    BY <1>1, <1>2, <2>1 DEF GoesOn, TypeOK
  <2>3. \/ batch' = [batch EXCEPT ![run[p].batch] = to]
        \/ from # "begin" /\ Lost /\ batch' = batch
    BY <1>2, WrittenLoses DEF SaveBatch
  <2>4. \/ BatchBecomes(run[p].batch, to)
        \/ from # "begin" /\ Lost /\ UNCHANGED Tables
    BY <2>1, <2>3 DEF BatchBecomes, Tables, TypeOK
  <2>5. next # "idle" =>
          /\ Same(run[p], r) /\ r.todo = run[p].todo /\ r.at = next
          /\ r.allSucceeded = run[p].allSucceeded
    BY <1>1, <1>2 DEF Same, Run
  <2> QED
    BY <2>2, <2>4, <2>5
<1>3. CASE Begin(p)
  <2>1. PICK r : r = [run[p] EXCEPT !.at = "list"]
    OBVIOUS
  <2>2. r \in Run
    BY <1>1, <2>1 DEF Run
  <2>3. SaveBatch(p, "begin", "processing", "list") /\ run[p].at = "begin"
    BY <1>3 DEF Begin, SaveBatch
  <2>4. GoesOn(p, run[p].batch, r) /\ Saves(p, run[p].batch, r)
    BY <1>2, <2>1, <2>2, <2>3 DEF Saves
  <2> QED
    BY <1>1, <2>2, <2>4 DEF Acts
<1>4. CASE Succeed(p)
  <2>1. PICK r : r = [run[p] EXCEPT !.at = "complete"]
    OBVIOUS
  <2>2. r \in Run
    BY <1>1, <2>1 DEF Run
  <2>3. SaveBatch(p, "succeed", "succeeded", "complete") /\ run[p].at = "succeed"
    BY <1>4 DEF Succeed, SaveBatch
  <2>4. GoesOn(p, run[p].batch, r) /\ Saves(p, run[p].batch, r)
    BY <1>2, <2>1, <2>2, <2>3 DEF Saves
  <2> QED
    BY <1>1, <2>2, <2>4 DEF Acts
<1>5. CASE Complete(p)
  <2>1. SaveBatch(p, "complete", "completed", "idle") /\ run[p].at = "complete"
    BY <1>5 DEF Complete, SaveBatch
  <2>2. GoesOn(p, run[p].batch, IdleRun) /\ Ends(p, run[p].batch, IdleRun)
    BY <1>2, <2>1, IdleRunIsRun DEF Ends
  <2> QED
    BY <1>1, <2>2, IdleRunIsRun DEF Acts
<1>6. CASE RollBack(p)
  <2>1. SaveBatch(p, "undo", "rolled_back", "idle") /\ run[p].at = "undo" /\ run[p].todo = {}
    BY <1>6 DEF RollBack, SaveBatch
  <2>2. GoesOn(p, run[p].batch, IdleRun) /\ Ends(p, run[p].batch, IdleRun)
    BY <1>2, <2>1, IdleRunIsRun DEF Ends
  <2> QED
    BY <1>1, <2>2, IdleRunIsRun DEF Acts
<1> QED
  BY <1>3, <1>4, <1>5, <1>6

LEMMA SaveSessionActs ==
  ASSUME IInv, NEW p \in Attempts, Charge(p) \/ Uncharge(p)
  PROVE  \E b \in Batches, r \in Run : GoesOn(p, b, r) /\ Acts(p, b, r)
<1> USE DEF IInv
<1>1. PICK from \in {"charge", "release"}, next \in {"mark", "unmark"} :
        SaveSession(p, from, next) /\ (from = "charge" <=> next = "mark")
  BY DEF Charge, Uncharge
<1>2. run[p] \in Run /\ run[p].batch \in Batches /\ run[p].at = from /\ run[p].item \in Sessions
  BY <1>1 DEF TypeOK, Local, SaveSession
<1>3. PICK r : r = [run[p] EXCEPT !.at = next, !.copy = NoSession]
  OBVIOUS
<1>4. /\ r \in Run /\ r.at = next /\ Same(run[p], r) /\ r.item = run[p].item
      /\ r.todo = run[p].todo /\ r.allSucceeded = run[p].allSucceeded
  BY <1>1, <1>2, <1>3 DEF Run, Same
<1>5. run' = [run EXCEPT ![p] = r] /\ UNCHANGED <<batch, item, adding, reset, faults>>
  BY <1>1, <1>3 DEF SaveSession
<1>6. GoesOn(p, run[p].batch, r)
  BY <1>2, <1>4, <1>5 DEF GoesOn, TypeOK
<1>7. \/ session' = [session EXCEPT ![run[p].item] = run[p].copy]
      \/ from = "release" /\ Lost /\ session' = session
  BY <1>1, WrittenLoses DEF SaveSession
<1>8. \/ SessionBecomes(run[p].item, run[p].copy)
      \/ from = "release" /\ Lost /\ UNCHANGED Tables
  BY <1>5, <1>7 DEF SessionBecomes, Tables, TypeOK
<1>9. Puts(p, r)
  BY <1>1, <1>2, <1>4, <1>8 DEF Puts
<1> QED
  BY <1>2, <1>4, <1>6, <1>9 DEF Acts

LEMMA SaveItemActs ==
  ASSUME IInv, NEW p \in Attempts, Mark(p) \/ Fail(p) \/ Unmark(p)
  PROVE  \E b \in Batches, r \in Run : GoesOn(p, b, r) /\ Acts(p, b, r)
<1> USE DEF IInv
<1>1. /\ run[p] \in Run /\ run[p].batch \in Batches /\ run[p].item \in Sessions
      /\ run[p].at \in {"mark", "fail", "unmark"}
  BY DEF TypeOK, Local, Mark, Fail, Unmark, SaveItem
<1> DEFINE o == run[p]
           Kind(from, to, next, c) ==
             /\ c.batch = o.batch /\ c.todo = o.todo
             /\ \/ /\ from = "mark" /\ to = "succeeded" /\ next = "next"
                   /\ c.done = o.done \cup {o.item} /\ c.allSucceeded = o.allSucceeded
                \/ /\ from = "fail" /\ to = "failed" /\ next = "next"
                   /\ c.done = o.done /\ c.allSucceeded = FALSE
                \/ /\ from = "unmark" /\ to = "rolled_back" /\ next = "undo"
                   /\ c.done = o.done /\ c.allSucceeded = o.allSucceeded
<1>2. PICK from \in {"mark", "fail", "unmark"}, to \in {"succeeded", "failed", "rolled_back"},
           next \in {"next", "undo"}, c \in Run :
        SaveItem(p, from, to, next, c) /\ Kind(from, to, next, c)
  <2>1. CASE Mark(p)
    <3>1. PICK c : c = [o EXCEPT !.done = @ \cup {o.item}]
      OBVIOUS
    <3>2. c \in Run /\ Kind("mark", "succeeded", "next", c)
      BY <1>1, <3>1 DEF Run
    <3>3. SaveItem(p, "mark", "succeeded", "next", c)
      BY <2>1, <3>1 DEF Mark
    <3> QED
      BY <3>2, <3>3
  <2>2. CASE Fail(p)
    <3>1. PICK c : c = [o EXCEPT !.allSucceeded = FALSE]
      OBVIOUS
    <3>2. c \in Run /\ Kind("fail", "failed", "next", c)
      BY <1>1, <3>1 DEF Run
    <3>3. SaveItem(p, "fail", "failed", "next", c)
      BY <2>2, <3>1 DEF Fail
    <3> QED
      BY <3>2, <3>3
  <2>3. CASE Unmark(p)
    <3>1. o \in Run /\ Kind("unmark", "rolled_back", "undo", o)
      BY <1>1
    <3>2. SaveItem(p, "unmark", "rolled_back", "undo", o)
      BY <2>3 DEF Unmark
    <3> QED
      BY <3>1, <3>2
  <2> QED
    BY <2>1, <2>2, <2>3
<1>3. next \in {"next", "undo"}
  BY <1>2
<1>4. PICK r : r = [c EXCEPT !.at = next, !.item = None]
  OBVIOUS
<1>5. /\ r \in Run /\ r.at = next /\ r.batch = c.batch /\ r.todo = c.todo
      /\ r.done = c.done /\ r.allSucceeded = c.allSucceeded
  BY <1>2, <1>3, <1>4 DEF Run
<1>6. /\ run' = [run EXCEPT ![p] = r] /\ o.at = from
      /\ UNCHANGED <<batch, session, adding, reset, faults>>
  BY <1>2, <1>4 DEF SaveItem
<1>7. GoesOn(p, o.batch, r)
  BY <1>1, <1>5, <1>6 DEF GoesOn, TypeOK
<1>8. item' = [item EXCEPT ![o.batch][o.item] = to] \/ (Lost /\ item' = item)
  BY <1>2, WrittenLoses DEF SaveItem
<1>9. ItemBecomes(o.batch, o.item, to) \/ (Lost /\ UNCHANGED Tables)
  BY <1>1, <1>6, <1>8 DEF ItemBecomes, Tables, TypeOK
<1>10. Marks(p, o.batch, r)
  BY <1>2, <1>5, <1>6, <1>9 DEF Marks
<1> QED
  BY <1>1, <1>5, <1>7, <1>10 DEF Acts

\* ListItems, Inspect, InspectUndo, ItemsDone, Refuse and Stop only read.
LEMMA ReadsAct ==
  ASSUME IInv, NEW p \in Attempts,
         \/ ListItems(p) \/ ItemsDone(p) \/ Refuse(p) \/ Stop(p)
         \/ \E s \in Sessions : Inspect(p, s) \/ InspectUndo(p, s)
  PROVE  \E b \in Batches, r \in Run : GoesOn(p, b, r) /\ Acts(p, b, r)
<1> USE DEF IInv
<1> DEFINE o == run[p]
           Kind(r) ==
             \/ Ends(p, o.batch, r) \/ Lists(p, o.batch, r)
             \/ \E s \in Sessions : Looks(p, r, s)
             \/ Turns(p, r) \/ Refuses(p, r)
<1>1. /\ o \in Run /\ o.batch \in Batches /\ o.at # "idle"
      /\ UNCHANGED Tables /\ UNCHANGED <<adding, reset, faults>>
  BY DEF TypeOK, Local, ListItems, ItemsDone, Refuse, RefuseItem, RefuseAttempt, Stop,
         Inspect, InspectUndo, Tables
<1>2. PICK r \in Run : run' = [run EXCEPT ![p] = r] /\ Kind(r)
  <2>1. CASE ListItems(p)
    <3>1. PICK r : r = [o EXCEPT !.at = "next",
                                 !.todo = {s \in Items(o.batch) : item[o.batch][s] # "succeeded"}]
      OBVIOUS
    <3>2. /\ r \in Run /\ Same(o, r) /\ r.at = "next" /\ r.allSucceeded = o.allSucceeded
          /\ r.todo = {s \in Items(o.batch) : item[o.batch][s] # "succeeded"}
      BY <1>1, <3>1 DEF Run, Items, Same
    <3>3. run' = [run EXCEPT ![p] = r] /\ o.at = "list"
      BY <2>1, <3>1 DEF ListItems
    <3>4. Lists(p, o.batch, r)
      BY <1>1, <3>2, <3>3 DEF Lists
    <3> QED
      BY <3>2, <3>3, <3>4
  <2>2. CASE ItemsDone(p)
    <3>1. PICK r : r = [o EXCEPT !.at = IF o.allSucceeded THEN "succeed" ELSE "undo",
                                 !.todo = o.done]
      OBVIOUS
    <3>2. /\ r \in Run /\ Same(o, r) /\ r.allSucceeded = o.allSucceeded /\ r.todo = o.done
          /\ r.at = IF o.allSucceeded THEN "succeed" ELSE "undo"
      BY <1>1, <3>1 DEF Run, Same
    <3>3. run' = [run EXCEPT ![p] = r] /\ o.at = "next" /\ o.todo = {}
      BY <2>2, <3>1 DEF ItemsDone
    <3>4. Turns(p, r)
      BY <1>1, <3>2, <3>3 DEF Turns
    <3> QED
      BY <3>2, <3>3, <3>4
  <2>3. CASE Refuse(p) /\ RefuseItem(p)
    <3>1. PICK r : r = [o EXCEPT !.at = "fail", !.copy = NoSession]
      OBVIOUS
    <3>2. r \in Run /\ Same(o, r) /\ r.at = "fail" /\ r.item = o.item /\ r.todo = o.todo
      BY <1>1, <3>1 DEF Run, Same
    <3>3. run' = [run EXCEPT ![p] = r] /\ o.at = "charge" /\ "refuse" \in faults
      BY <2>3, <3>1 DEF Refuse, RefuseItem
    <3>4. Refuses(p, r)
      BY <1>1, <3>2, <3>3 DEF Refuses
    <3> QED
      BY <3>2, <3>3, <3>4
  <2>4. CASE Stop(p) \/ (Refuse(p) /\ RefuseAttempt(p))
    BY <1>1, <2>4, IdleRunIsRun DEF Stop, Refuse, RefuseAttempt, Ends
  <2>5. ASSUME NEW s \in Sessions, Inspect(p, s)
        PROVE  \E r \in Run : run' = [run EXCEPT ![p] = r] /\ Kind(r)
    <3> DEFINE fit == session[s].state \in {"negotiating", "charging"}
               new == [session[s] EXCEPT !.state = "charging"]
    <3>1. session[s] \in SessionRow
      BY DEF TypeOK
    <3>2. new \in SessionRow /\ new.state = "charging" /\ new.mitigation = session[s].mitigation
      BY <3>1 DEF SessionRow, SessionStates
    <3>3. PICK r : r = [o EXCEPT !.at = IF fit THEN "charge" ELSE "fail",
                                 !.item = s, !.todo = @ \ {s},
                                 !.copy = IF fit THEN new ELSE NoSession]
      OBVIOUS
    <3>4. /\ r \in Run /\ Same(o, r) /\ r.allSucceeded = o.allSucceeded
          /\ r.item = s /\ r.todo = o.todo \ {s}
          /\ r.at = IF fit THEN "charge" ELSE "fail"
          /\ fit => r.copy = new
      BY <1>1, <3>2, <3>3 DEF Run, Same
    <3>5. run' = [run EXCEPT ![p] = r] /\ o.at = "next" /\ s \in o.todo
      BY <2>5, <3>3 DEF Inspect
    <3>6. Looks(p, r, s)
      BY <1>1, <3>2, <3>4, <3>5 DEF Looks
    <3> QED
      BY <3>4, <3>5, <3>6
  <2>6. ASSUME NEW s \in Sessions, InspectUndo(p, s)
        PROVE  \E r \in Run : run' = [run EXCEPT ![p] = r] /\ Kind(r)
    <3> DEFINE charges == session[s].state = "charging"
               new == [session[s] EXCEPT !.state = "negotiating"]
    <3>1. session[s] \in SessionRow
      BY DEF TypeOK
    <3>2. /\ new \in SessionRow /\ new.state = "negotiating"
          /\ new.mitigation = session[s].mitigation
      BY <3>1 DEF SessionRow, SessionStates
    <3>3. PICK r : r = [o EXCEPT !.at = IF charges THEN "release" ELSE "unmark",
                                 !.item = s, !.todo = @ \ {s},
                                 !.copy = IF charges THEN new ELSE NoSession]
      OBVIOUS
    <3>4. /\ r \in Run /\ Same(o, r) /\ r.allSucceeded = o.allSucceeded
          /\ r.item = s /\ r.todo = o.todo \ {s}
          /\ r.at = IF charges THEN "release" ELSE "unmark"
          /\ charges => r.copy = new
      BY <1>1, <3>2, <3>3 DEF Run, Same
    <3>5. run' = [run EXCEPT ![p] = r] /\ o.at = "undo" /\ s \in o.todo
      BY <2>6, <3>3 DEF InspectUndo
    <3>6. Looks(p, r, s)
      BY <1>1, <3>2, <3>4, <3>5 DEF Looks
    <3> QED
      BY <3>4, <3>5, <3>6
  <2> QED
    BY <2>1, <2>2, <2>3, <2>4, <2>5, <2>6 DEF Refuse
<1>3. GoesOn(p, o.batch, r)
  BY <1>1, <1>2 DEF GoesOn, TypeOK
<1> QED
  BY <1>1, <1>2, <1>3 DEF Acts

\* What ProcessBatch does between two calls, whatever the call.
LEMMA AttemptActs ==
  ASSUME IInv, NEW p \in Attempts, Step(p) \/ Refuse(p) \/ Stop(p)
  PROVE  \E b \in Batches, r \in Run : GoesOn(p, b, r) /\ Acts(p, b, r)
BY SaveBatchActs, SaveSessionActs, SaveItemActs, ReadsAct DEF Step

-----------------------------------------------------------------------------
(***************************************************************************)
(* Batches do not touch each other's sessions: MemberInv.                  *)
(***************************************************************************)

\* What an attempt leaves alone.
LEMMA AttemptFrame ==
  ASSUME IInv, ~Overlap, NEW p \in Attempts, NEW b \in Batches, NEW r \in Run,
         GoesOn(p, b, r), Acts(p, b, r)
  PROVE  /\ adding[b] = {} /\ b \notin reset
         /\ batch[b] \notin {"absent", "completed"} /\ batch'[b] # "absent"
         /\ \A q \in Attempts \ {p} : run'[q] = run[q] /\ run[q].batch # b
         /\ \A k \in Batches \ {b} : batch'[k] = batch[k]
         /\ \A k \in Batches \ {b}, s \in Sessions : item'[k][s] = item[k][s]
<1>1. Owns(p) /\ run[p].at # "idle" /\ run[p].batch = b
  BY DEF IInv, GoesOn
<1>2. /\ adding[b] = {} /\ b \notin reset /\ batch[b] \notin {"absent", "completed"}
      /\ \A q \in Attempts \ {p} : run'[q] = run[q] /\ run[q].batch # b
  BY <1>1 DEF Owns, GoesOn
<1>3. \/ UNCHANGED batch
      \/ \E to \in {"processing", "succeeded", "completed", "rolled_back"} : BatchBecomes(b, to)
  BY DEF Acts, Ends, Saves, Lists, Looks, Puts, Marks, Turns, Refuses, Tables,
         ItemBecomes, SessionBecomes
<1>4. batch'[b] # "absent" /\ \A k \in Batches \ {b} : batch'[k] = batch[k]
  BY <1>2, <1>3 DEF BatchBecomes
<1>5. \/ UNCHANGED item
      \/ \E i \in {run[p].item}, to \in {"succeeded", "failed", "rolled_back"} :
           ItemBecomes(b, i, to)
  BY DEF Acts, Ends, Saves, Lists, Looks, Puts, Marks, Turns, Refuses, Tables,
         BatchBecomes, SessionBecomes
<1>6. \A k \in Batches \ {b}, s \in Sessions : item'[k][s] = item[k][s]
  BY <1>5 DEF ItemBecomes
<1> QED
  BY <1>2, <1>4, <1>6

\* An attempt turns items over and adds none.
LEMMA AttemptItems ==
  ASSUME IInv, ~Overlap, MemberInv, NEW p \in Attempts, NEW b \in Batches, NEW r \in Run,
         GoesOn(p, b, r), Acts(p, b, r)
  PROVE  \A k \in Batches : Items(k)' = Items(k)
<1>1. HandsOn(p) /\ run[p].at # "idle" /\ run[p].batch = b
  BY DEF MemberInv, GoesOn
<1>2. \/ UNCHANGED item
      \/ /\ run[p].item \in Items(b)
         /\ \E to \in {"succeeded", "failed", "rolled_back"} : ItemBecomes(b, run[p].item, to)
  BY <1>1 DEF Acts, Ends, Saves, Lists, Looks, Puts, Marks, Turns, Refuses, Tables,
              BatchBecomes, SessionBecomes, HandsOn
<1> QED
  BY <1>2 DEF ItemBecomes, Items

LEMMA AttemptMember ==
  ASSUME IInv, ~Overlap, MemberInv, ~Lost,
         NEW p \in Attempts, NEW b \in Batches, NEW r \in Run,
         GoesOn(p, b, r), Acts(p, b, r)
  PROVE  MemberInv'
<1>1. /\ adding[b] = {} /\ batch'[b] # "absent" /\ UNCHANGED adding
      /\ \A q \in Attempts \ {p} : run'[q] = run[q] /\ run[q].batch # b
      /\ \A k \in Batches \ {b} : batch'[k] = batch[k]
      /\ \A k \in Batches : Items(k)' = Items(k)
  BY AttemptFrame, AttemptItems DEF GoesOn
<1>2. Apart' /\ ItemsAfterRecord'
  BY <1>1 DEF MemberInv, Apart, ItemsAfterRecord
<1>3. ASSUME NEW q \in Attempts \ {p} PROVE HandsOn(q)'
  <2>1. HandsOn(q) /\ run'[q] = run[q] /\ run[q].batch # b /\ Local(run[q])
    BY <1>1 DEF MemberInv, IInv
  <2> QED
    BY <1>1, <2>1 DEF HandsOn, Local
<1>4. HandsOn(p)'
  <2> DEFINE o == run[p]
  <2>1. HandsOn(p) /\ o.at # "idle" /\ o.batch = b /\ run'[p] = r /\ Items(b)' = Items(b)
    BY <1>1 DEF MemberInv, GoesOn
  <2>2. CASE Ends(p, b, r)
    BY <2>1, <2>2, IdleRunIsRun DEF Ends, HandsOn
  <2>3. CASE Saves(p, b, r)
    <3>1. /\ r.batch = b /\ r.todo = o.todo /\ r.done = o.done
          /\ \/ r.at = "list" /\ batch'[b] = "processing"
             \/ r.at = "complete"
      BY <2>1, <2>3 DEF Saves, Same, BatchBecomes
    <3> QED
      BY <2>1, <3>1 DEF HandsOn
  <2>4. CASE Lists(p, b, r)
    <3>1. r.batch = b /\ r.todo \subseteq Items(b) /\ r.done = o.done /\ r.at = "next"
          /\ batch'[b] = batch[b] /\ o.at = "list"
      BY <2>1, <2>4 DEF Lists, Same, Tables
    <3> QED
      BY <2>1, <3>1 DEF HandsOn
  <2>5. ASSUME NEW s \in Sessions, Looks(p, r, s) PROVE HandsOn(p)'
    <3>1. /\ r.batch = b /\ r.todo \subseteq o.todo /\ r.done = o.done /\ r.item \in o.todo
          /\ batch'[b] = batch[b] /\ o.at \in {"next", "undo"}
          /\ r.at \in {"charge", "fail", "release", "unmark"}
          /\ r.at = "charge" => r.copy.state = "charging"
          /\ r.at = "release" => r.copy.state = "negotiating"
      BY <2>1, <2>5 DEF Looks, Same, Tables
    <3> QED
      BY <2>1, <3>1 DEF HandsOn
  <2>6. CASE Puts(p, r) \/ Refuses(p, r)
    <3>1. /\ r.batch = b /\ r.todo = o.todo /\ r.done = o.done /\ r.item = o.item
          /\ batch'[b] = batch[b] /\ o.at \in {"charge", "release"}
          /\ r.at \in {"mark", "fail", "unmark"}
      BY <2>1, <2>6 DEF Puts, Refuses, Same, Tables, SessionBecomes
    <3> QED
      BY <2>1, <3>1 DEF HandsOn
  <2>7. CASE Marks(p, b, r)
    <3>1. /\ r.batch = b /\ r.todo = o.todo /\ r.done \subseteq o.done \cup {o.item}
          /\ batch'[b] = batch[b] /\ o.at \in {"mark", "fail", "unmark"}
          /\ r.at \in {"next", "undo"}
      BY <2>1, <2>7 DEF Marks, Tables, ItemBecomes
    <3> QED
      BY <2>1, <3>1 DEF HandsOn
  <2>8. CASE Turns(p, r)
    <3>1. /\ r.batch = b /\ r.todo = o.done /\ r.done = o.done
          /\ batch'[b] = batch[b] /\ o.at = "next" /\ r.at \in {"succeed", "undo"}
      BY <2>1, <2>8 DEF Turns, Same, Tables
    <3> QED
      BY <2>1, <3>1 DEF HandsOn
  <2> QED
    BY <2>2, <2>3, <2>4, <2>5, <2>6, <2>7, <2>8 DEF Acts
<1> QED
  BY <1>2, <1>3, <1>4 DEF MemberInv

-----------------------------------------------------------------------------
(***************************************************************************)
(* What was undone does not charge: UndoInv.                               *)
(***************************************************************************)

\* An attempt writes sessions of its own batch only, none but "charge" makes
\* one charge, and it has inspected that one before.
LEMMA AttemptSessions ==
  ASSUME IInv, ~Overlap, MemberInv, NEW p \in Attempts, NEW b \in Batches, NEW r \in Run,
         GoesOn(p, b, r), Acts(p, b, r)
  PROVE  \/ UNCHANGED session
         \/ /\ Puts(p, r) /\ run[p].item \in Items(b)
            /\ SessionBecomes(run[p].item, run[p].copy)
<1>1. HandsOn(p) /\ run[p].at # "idle" /\ run[p].batch = b
  BY DEF MemberInv, GoesOn
<1>2. Puts(p, r) => run[p].item \in Items(b)
  BY <1>1 DEF Puts, HandsOn
<1> QED
  BY <1>2 DEF Acts, Ends, Saves, Lists, Looks, Puts, Marks, Turns, Refuses, Tables,
              BatchBecomes, ItemBecomes

LEMMA Elsewhere ==
  ASSUME IInv, ~Overlap, MemberInv, NEW p \in Attempts, NEW b \in Batches, NEW r \in Run,
         GoesOn(p, b, r), Acts(p, b, r),
         NEW k \in Batches \ {b}, NEW s \in Items(k)
  PROVE  session'[s] = session[s]
<1>1. s \in Sessions /\ s \notin Items(b)
  BY DEF MemberInv, Apart, Items
<1> QED
  BY <1>1, AttemptSessions DEF SessionBecomes

LEMMA AttemptUndo ==
  ASSUME IInv, ~Overlap, MemberInv, UndoInv, faults \subseteq {"stop"},
         NEW p \in Attempts, NEW b \in Batches, NEW r \in Run,
         GoesOn(p, b, r), Acts(p, b, r)
  PROVE  UndoInv'
<1> DEFINE o == run[p]
<1>1. /\ batch[b] \notin {"absent", "completed"}
      /\ \A q \in Attempts \ {p} : run'[q] = run[q] /\ run[q].batch # b
      /\ \A k \in Batches \ {b} : batch'[k] = batch[k]
      /\ \A k \in Batches \ {b}, s \in Sessions : item'[k][s] = item[k][s]
      /\ \A k \in Batches : Items(k)' = Items(k)
      /\ \A k \in Batches \ {b} : \A s \in Items(k) : session'[s] = session[s]
  BY AttemptFrame, AttemptItems, Elsewhere
<1>2. HandsOn(p) /\ Settles(p) /\ o.at # "idle" /\ o.batch = b /\ run'[p] = r /\ ~Lost
  BY DEF MemberInv, UndoInv, GoesOn, Lost
<1>3. ChargesInBatch'
  <2> SUFFICES ASSUME NEW s \in Sessions, session'[s].state = "charging"
               PROVE  \E k \in Batches : s \in Items(k)
    BY <1>1 DEF ChargesInBatch
  <2>1. session'[s] = session[s] \/ s \in Items(b)
    BY AttemptSessions DEF SessionBecomes
  <2> QED
    BY <2>1 DEF UndoInv, ChargesInBatch
<1>4. ASSUME NEW k \in Batches \ {b}, NEW s \in Sessions, Undone(k, s) PROVE Undone(k, s)'
  <2>1. CASE s \in Items(k)
    BY <1>1, <1>4, <2>1 DEF Undone
  <2>2. CASE s \notin Items(k)
    BY <1>1, <2>2 DEF Undone, Items
  <2> QED
    BY <2>1, <2>2
<1>5. ASSUME NEW q \in Attempts \ {p} PROVE Settles(q)'
  <2>1. Settles(q) /\ run'[q] = run[q] /\ run[q].batch # b /\ Local(run[q]) /\ HandsOn(q)
    BY <1>1 DEF UndoInv, IInv, MemberInv
  <2>2. CASE run[q].at = "idle"
    BY <2>1, <2>2 DEF Settles
  <2>3. CASE run[q].at # "idle"
    <3>1. PICK k \in Batches \ {b} : k = run[q].batch
      BY <2>1, <2>3 DEF Local
    <3>2. \A s \in Sessions : Undone(k, s) => Undone(k, s)'
      BY <1>4
    <3>3. run[q].at \in {"fail", "unmark"} => session'[run[q].item] = session[run[q].item]
      BY <1>1, <2>1, <3>1 DEF HandsOn
    <3>4. Unsettled(run[q])' = Unsettled(run[q])
      BY <2>1 DEF Unsettled
    <3> QED
      BY <2>1, <3>1, <3>2, <3>3, <3>4 DEF Settles, Undone
  <2> QED
    BY <2>2, <2>3
<1>6. Settles(p)' /\ (batch'[b] \in {"rolled_back", "pending"} => \A s \in Sessions : Undone(b, s)')
  <2> DEFINE Settled == /\ r.at \in {"next", "charge", "mark", "fail", "undo", "release", "unmark"} =>
                             \A s \in Sessions \ Unsettled(r) : Undone(b, s)'
                        /\ r.at \in {"fail", "unmark"} => session'[r.item].state # "charging"
  <2>0. Settled /\ r.batch = b => Settles(p)'
    BY <1>2 DEF Settles, Undone
  <2>1. CASE Ends(p, b, r)
    <3>1. Settles(p)'
      BY <1>2, <2>1, IdleRunIsRun DEF Ends, Settles
    <3>2. CASE UNCHANGED Tables
      BY <3>1, <3>2 DEF UndoInv, OpenIsUndone, Undone, Tables
    <3>3. CASE BatchBecomes(b, "completed")
      BY <3>1, <3>3 DEF BatchBecomes
    <3>4. CASE o.at = "undo" /\ BatchBecomes(b, "rolled_back")
      <4>1. \A s \in Sessions : Undone(b, s)
        BY <1>2, <3>4 DEF Settles, Unsettled
      <4> QED
        BY <3>1, <3>4, <4>1 DEF Undone, BatchBecomes
    <3> QED
      BY <2>1, <3>2, <3>3, <3>4 DEF Ends
  <2>2. CASE Saves(p, b, r)
    <3>1. r.batch = b /\ r.at \in {"list", "complete"} /\ batch'[b] \in {"processing", "succeeded"}
      BY <1>2, <2>2 DEF Saves, Same, BatchBecomes
    <3> QED
      BY <2>0, <3>1
  <2>3. ASSUME batch'[b] = batch[b], o.at \notin {"begin", "complete"}
        PROVE  batch'[b] \notin {"rolled_back", "pending"}
    BY <1>2, <2>3 DEF HandsOn
  <2>4. CASE Lists(p, b, r)
    <3>1. /\ r.batch = b /\ r.at = "next" /\ batch' = batch /\ item' = item /\ session' = session
          /\ o.at = "list" /\ r.todo = {s \in Items(b) : item[b][s] # "succeeded"}
      BY <1>2, <2>4 DEF Lists, Same, Tables
    <3>2. \A s \in Sessions \ Unsettled(r) : Undone(b, s)'
      BY <3>1 DEF Unsettled, Undone, Items
    <3> QED
      BY <2>0, <2>3, <3>1, <3>2
  <2>5. ASSUME NEW i \in Sessions, Looks(p, r, i)
        PROVE  Settles(p)' /\ batch'[b] \notin {"rolled_back", "pending"}
    <3>1. /\ r.batch = b /\ batch' = batch /\ item' = item /\ session' = session
          /\ o.at \in {"next", "undo"} /\ r.at \in {"charge", "fail", "release", "unmark"}
          /\ r.item = i /\ r.todo = o.todo \ {i} /\ i \in o.todo
          /\ r.at \in {"charge", "fail"} <=> o.at = "next"
          /\ r.at \in {"fail", "unmark"} => session[i].state # "charging"
      BY <1>2, <2>5 DEF Looks, Same, Tables
    <3>2. ASSUME NEW s \in Sessions \ Unsettled(r) PROVE Undone(b, s)'
      <4>1. s \notin Unsettled(o) \/ (s = i /\ session[i].state # "charging")
        BY <3>1, <3>2 DEF Unsettled
      <4> QED
        BY <1>2, <3>1, <4>1 DEF Settles, Undone
    <3> QED
      BY <2>0, <2>3, <3>1, <3>2
  <2>6. CASE Puts(p, r)
    <3>1. /\ r.batch = b /\ batch' = batch /\ item' = item
          /\ r.item = o.item /\ r.todo = o.todo
          /\ \A s \in Sessions \ {o.item} : session'[s] = session[s]
          /\ \/ o.at = "charge" /\ r.at = "mark"
             \/ o.at = "release" /\ r.at = "unmark" /\ session'[o.item].state # "charging"
      BY <1>2, <2>6 DEF Puts, Same, SessionBecomes, HandsOn, Items
    <3>2. ASSUME NEW s \in Sessions \ Unsettled(r) PROVE Undone(b, s)'
      <4>1. \/ s \notin Unsettled(o) /\ s # o.item
            \/ session'[s].state # "charging"
        BY <3>1, <3>2 DEF Unsettled
      <4> QED
        BY <1>2, <3>1, <4>1 DEF Settles, Undone
    <3> QED
      BY <2>0, <2>3, <3>1, <3>2
  <2>7. CASE Marks(p, b, r)
    <3>1. /\ r.batch = b /\ batch' = batch /\ session' = session /\ r.todo = o.todo
          /\ \/ o.at = "mark" /\ r.at = "next" /\ ItemBecomes(b, o.item, "succeeded")
             \/ o.at = "fail" /\ r.at = "next" /\ ItemBecomes(b, o.item, "failed")
             \/ o.at = "unmark" /\ r.at = "undo" /\ ItemBecomes(b, o.item, "rolled_back")
      BY <1>2, <2>7 DEF Marks, ItemBecomes
    <3>2. ASSUME NEW s \in Sessions \ Unsettled(r) PROVE Undone(b, s)'
      <4>1. CASE s = o.item
        BY <1>2, <3>1, <4>1 DEF ItemBecomes, Settles, Undone
      <4>2. CASE s # o.item
        <5>1. s \notin Unsettled(o)
          BY <3>1, <3>2, <4>2 DEF Unsettled
        <5> QED
          BY <1>2, <3>1, <4>2, <5>1 DEF ItemBecomes, Settles, Undone
      <4> QED
        BY <4>1, <4>2
    <3> QED
      BY <2>0, <2>3, <3>1, <3>2
  <2>8. CASE Turns(p, r)
    <3>1. /\ r.batch = b /\ batch' = batch /\ item' = item /\ session' = session
          /\ o.at = "next" /\ o.todo = {} /\ r.at \in {"succeed", "undo"}
      BY <1>2, <2>8 DEF Turns, Same, Tables
    <3>2. \A s \in Sessions : Undone(b, s)'
      BY <1>2, <3>1 DEF Settles, Unsettled, Undone
    <3> QED
      BY <2>0, <2>3, <3>1, <3>2
  <2>9. ~Refuses(p, r)
    BY DEF Refuses
  <2> QED
    BY <2>1, <2>2, <2>4, <2>5, <2>6, <2>7, <2>8, <2>9 DEF Acts
<1>7. OpenIsUndone'
  BY <1>1, <1>4, <1>6 DEF UndoInv, OpenIsUndone
<1> QED
  BY <1>3, <1>5, <1>6, <1>7 DEF UndoInv

-----------------------------------------------------------------------------
(***************************************************************************)
(* What is completed charges: ChargedInv.                                  *)
(***************************************************************************)

LEMMA AttemptRemembers ==
  ASSUME IInv, ~Overlap, MemberInv, SuccessRemembered, faults \subseteq {"refuse"},
         NEW p \in Attempts, NEW b \in Batches, NEW r \in Run,
         GoesOn(p, b, r), Acts(p, b, r)
  PROVE  SuccessRemembered'
<1> DEFINE o == run[p]
<1>1. /\ batch[b] # "completed"
      /\ \A q \in Attempts \ {p} : run'[q] = run[q] /\ run[q].batch # b
      /\ \A k \in Batches \ {b} : batch'[k] = batch[k]
      /\ \A k \in Batches \ {b}, s \in Sessions : item'[k][s] = item[k][s]
  BY AttemptFrame
<1>2. o.at # "idle" /\ o.batch = b /\ run'[p] = r /\ ~Lost /\ "stop" \notin faults
  BY DEF GoesOn, Lost
<1>3. \A s \in Sessions : item[b][s] = "succeeded" => Remembers(o, s)
  BY <1>1 DEF SuccessRemembered
<1>4. SUFFICES ASSUME NEW k \in Batches, NEW s \in Sessions, item'[k][s] = "succeeded"
               PROVE  \/ batch'[k] = "completed"
                      \/ \E q \in Attempts : run'[q].batch = k /\ Remembers(run'[q], s)
  BY DEF SuccessRemembered, Remembers
<1>5. CASE k # b
  <2>1. item[k][s] = "succeeded" /\ batch'[k] = batch[k]
    BY <1>1, <1>4, <1>5
  <2>2. CASE batch[k] = "completed"
    BY <2>1, <2>2
  <2>3. CASE batch[k] # "completed"
    <3>1. PICK q \in Attempts : run[q].batch = k /\ Remembers(run[q], s)
      BY <2>1, <2>3 DEF SuccessRemembered
    <3>2. run'[q] = run[q]
      BY <1>1, <1>2, <1>5, <3>1
    <3> QED
      BY <3>1, <3>2
  <2> QED
    BY <2>2, <2>3
<1>6. CASE k = b
  <2>1. SUFFICES batch'[b] = "completed" \/ (r.batch = b /\ Remembers(r, s))
    BY <1>2, <1>6
  <2>2. CASE Ends(p, b, r)
    <3>1. CASE o.at = "complete" /\ BatchBecomes(b, "completed")
      BY <3>1 DEF BatchBecomes
    <3>2. CASE o.at = "undo" /\ o.todo = {} /\ BatchBecomes(b, "rolled_back")
      BY <1>3, <1>4, <1>6, <3>2 DEF BatchBecomes, Remembers
    <3>3. CASE UNCHANGED Tables /\ o.at \in {"begin", "list"}
      BY <1>3, <1>4, <1>6, <3>3 DEF Tables, Remembers
    <3> QED
      BY <1>2, <2>2, <3>1, <3>2, <3>3 DEF Ends
  <2>3. CASE Saves(p, b, r)
    <3>1. item' = item /\ r.batch = b
      BY <1>2, <2>3 DEF Saves, Same, BatchBecomes, Tables
    <3> QED
      BY <1>3, <1>4, <1>6, <2>3, <3>1 DEF Saves, Remembers
  <2>4. CASE Lists(p, b, r)
    BY <1>3, <1>4, <1>6, <2>4 DEF Lists, Tables, Remembers
  <2>5. ASSUME NEW i \in Sessions, Looks(p, r, i) PROVE r.batch = b /\ Remembers(r, s)
    <3>1. item' = item /\ r.batch = b /\ r.done = o.done
      BY <1>2, <2>5 DEF Looks, Same, Tables
    <3>2. Remembers(o, s)
      BY <1>3, <1>4, <1>6, <3>1
    <3> QED
      BY <2>5, <3>1, <3>2 DEF Looks, Remembers
  <2>6. CASE Puts(p, r)
    <3>1. item' = item /\ r.batch = b /\ r.done = o.done
      BY <1>2, <2>6 DEF Puts, Same, SessionBecomes
    <3>2. Remembers(o, s)
      BY <1>3, <1>4, <1>6, <3>1
    <3> QED
      BY <2>6, <3>1, <3>2 DEF Puts, Remembers
  <2>7. CASE Marks(p, b, r)
    <3>1. CASE s = o.item
      BY <1>2, <1>4, <1>6, <2>7, <3>1 DEF Marks, ItemBecomes, Remembers
    <3>2. CASE s # o.item
      <4>1. Remembers(o, s)
        BY <1>2, <1>3, <1>4, <1>6, <2>7, <3>2 DEF Marks, ItemBecomes
      <4> QED
        BY <1>2, <2>7, <3>2, <4>1 DEF Marks, Remembers
    <3> QED
      BY <3>1, <3>2
  <2>8. CASE Turns(p, r)
    <3>1. item' = item /\ r.batch = b
      BY <1>2, <2>8 DEF Turns, Same, Tables
    <3>2. Remembers(o, s)
      BY <1>3, <1>4, <1>6, <3>1
    <3> QED
      BY <2>8, <3>1, <3>2 DEF Turns, Remembers
  <2>9. CASE Refuses(p, r)
    <3>1. item' = item /\ r.batch = b /\ r.done = o.done
      BY <1>2, <2>9 DEF Refuses, Same, Tables
    <3>2. Remembers(o, s)
      BY <1>3, <1>4, <1>6, <3>1
    <3> QED
      BY <2>9, <3>1, <3>2 DEF Refuses, Remembers
  <2> QED
    BY <2>2, <2>3, <2>4, <2>5, <2>6, <2>7, <2>8, <2>9 DEF Acts
<1> QED
  BY <1>5, <1>6

LEMMA AttemptCharged ==
  ASSUME IInv, ~Overlap, MemberInv, ChargedInv, faults \subseteq {"refuse"},
         NEW p \in Attempts, NEW b \in Batches, NEW r \in Run,
         GoesOn(p, b, r), Acts(p, b, r)
  PROVE  ChargedInv'
<1> DEFINE o == run[p]
<1>1. /\ batch[b] # "completed"
      /\ \A q \in Attempts \ {p} : run'[q] = run[q] /\ run[q].batch # b
      /\ \A k \in Batches \ {b} : batch'[k] = batch[k]
      /\ \A k \in Batches : Items(k)' = Items(k)
      /\ \A k \in Batches \ {b} : \A s \in Items(k) : session'[s] = session[s]
  BY AttemptFrame, AttemptItems, Elsewhere
<1>2. /\ HandsOn(p) /\ HasCharged(p) /\ o.at # "idle" /\ o.batch = b /\ run'[p] = r
      /\ ~Lost /\ "stop" \notin faults
  BY DEF MemberInv, ChargedInv, GoesOn, Lost
<1>3. SuccessRemembered'
  BY AttemptRemembers DEF ChargedInv
<1>4. ASSUME NEW q \in Attempts \ {p} PROVE HasCharged(q)'
  <2>1. HasCharged(q) /\ run'[q] = run[q] /\ run[q].batch # b /\ Local(run[q])
    BY <1>1 DEF ChargedInv, IInv
  <2>2. CASE run[q].at = "idle"
    BY <2>1, <2>2 DEF HasCharged
  <2>3. CASE run[q].at # "idle"
    <3>1. PICK k \in Batches \ {b} : k = run[q].batch
      BY <2>1, <2>3 DEF Local
    <3>2. Items(k)' = Items(k) /\ \A s \in Items(k) : session'[s] = session[s]
      BY <1>1
    <3>3. \A s \in Items(k) : Charged(s) => Charged(s)'
      BY <3>2 DEF Charged
    <3>4. Items(run[q].batch)' = Items(k)
      BY <2>1, <3>1, <3>2 DEF Items
    <3> QED
      BY <2>1, <3>1, <3>3, <3>4 DEF HasCharged
  <2> QED
    BY <2>2, <2>3
<1>5. HasCharged(p)'
  <2> DEFINE early == r.at \in {"next", "charge", "mark"}
  <2>0. ASSUME r.batch = b,
               (early /\ r.allSucceeded) \/ r.at \in {"succeed", "complete"} =>
                  \A s \in Items(b) :
                    Charged(s)' \/ (early /\ s \in r.todo) \/ (r.at = "charge" /\ s = r.item)
        PROVE  HasCharged(p)'
    <3>1. run'[p] = r /\ Items(b)' = Items(b)
      BY <1>1, <1>2
    <3> QED
      BY <2>0, <3>1 DEF HasCharged, Charged, Items
  <2>1. CASE Ends(p, b, r)
    BY <1>2, <2>1, IdleRunIsRun DEF Ends, HasCharged
  <2>2. CASE Saves(p, b, r)
    <3>1. /\ r.batch = b /\ session' = session
          /\ r.at = "list" \/ (o.at = "succeed" /\ r.at = "complete")
      BY <1>2, <2>2 DEF Saves, Same, BatchBecomes, Tables
    <3> QED
      BY <1>2, <2>0, <3>1 DEF HasCharged, Charged
  <2>3. CASE Lists(p, b, r)
    <3>1. /\ r.batch = b /\ o.at = "list" /\ r.at = "next"
          /\ r.todo = {s \in Items(b) : item[b][s] # "succeeded"}
      BY <1>2, <2>3 DEF Lists, Same
    <3>2. \A s \in Items(b) : item[b][s] # "succeeded"
      <4> SUFFICES ASSUME NEW s \in Items(b), item[b][s] = "succeeded" PROVE FALSE
        OBVIOUS
      <4>1. s \in Sessions
        BY DEF Items
      <4>2. PICK q \in Attempts : run[q].batch = b /\ Remembers(run[q], s)
        BY <1>1, <4>1 DEF ChargedInv, SuccessRemembered
      <4>3. q = p
        BY <1>1, <4>2
      <4> QED
        BY <3>1, <4>2, <4>3 DEF Remembers
    <3> QED
      BY <2>0, <3>1, <3>2
  <2>4. ASSUME NEW i \in Sessions, Looks(p, r, i) PROVE HasCharged(p)'
    <3>1. /\ r.batch = b /\ session' = session /\ r.allSucceeded = o.allSucceeded
          /\ r.todo = o.todo \ {i} /\ r.item = i
          /\ (o.at = "next" /\ r.at = "charge") \/ r.at \in {"fail", "release", "unmark"}
      BY <1>2, <2>4 DEF Looks, Same, Tables
    <3> QED
      BY <1>2, <2>0, <3>1 DEF HasCharged, Charged
  <2>5. CASE Puts(p, r)
    <3>1. /\ r.batch = b /\ r.allSucceeded = o.allSucceeded /\ r.todo = o.todo
          /\ \/ o.at = "charge" /\ r.at = "mark" /\ SessionBecomes(o.item, o.copy)
             \/ r.at = "unmark"
      BY <1>2, <2>5 DEF Puts, Same
    <3>2. CASE o.at = "charge" /\ r.at = "mark" /\ SessionBecomes(o.item, o.copy)
      <4>1. o.copy.state = "charging"
        BY <1>2, <3>2 DEF HandsOn
      <4>2. ASSUME NEW s \in Items(b), Charged(s) \/ s = o.item PROVE Charged(s)'
        BY <3>2, <4>1, <4>2 DEF SessionBecomes, Charged, Items
      <4> QED
        BY <1>2, <2>0, <3>1, <3>2, <4>2 DEF HasCharged
    <3>3. CASE r.at = "unmark"
      BY <2>0, <3>1, <3>3
    <3> QED
      BY <3>1, <3>2, <3>3
  <2>6. CASE Marks(p, b, r)
    <3>1. /\ r.batch = b /\ session' = session /\ r.todo = o.todo
          /\ \/ o.at = "mark" /\ r.at = "next" /\ r.allSucceeded = o.allSucceeded
             \/ o.at = "fail" /\ r.at = "next" /\ r.allSucceeded = FALSE
             \/ r.at = "undo"
      BY <1>2, <2>6 DEF Marks, ItemBecomes, Tables
    <3> QED
      BY <1>2, <2>0, <3>1 DEF HasCharged, Charged
  <2>7. CASE Turns(p, r)
    <3>1. /\ r.batch = b /\ session' = session /\ o.at = "next" /\ o.todo = {}
          /\ r.at = IF o.allSucceeded THEN "succeed" ELSE "undo"
      BY <1>2, <2>7 DEF Turns, Same, Tables
    <3> QED
      BY <1>2, <2>0, <3>1 DEF HasCharged, Charged
  <2>8. CASE Refuses(p, r)
    <3>1. r.batch = b /\ r.at = "fail"
      BY <1>2, <2>8 DEF Refuses, Same
    <3> QED
      BY <2>0, <3>1
  <2> QED
    BY <2>1, <2>2, <2>3, <2>4, <2>5, <2>6, <2>7, <2>8 DEF Acts
<1>6. CompletedCharges'
  <2> SUFFICES ASSUME NEW k \in Batches, batch'[k] = "completed", NEW s \in Items(k)
               PROVE  Charged(s)'
    BY <1>1 DEF CompletedCharges, Charged
  <2>1. CASE k # b
    <3>1. session'[s] = session[s] /\ batch[k] = "completed"
      BY <1>1, <2>1
    <3> QED
      BY <3>1 DEF ChargedInv, CompletedCharges, Charged
  <2>2. CASE k = b
    <3>1. o.at = "complete" /\ BatchBecomes(b, "completed")
      BY <1>1, <1>2, <2>2 DEF Acts, Ends, Saves, Lists, Looks, Puts, Marks, Turns, Refuses,
                              Tables, BatchBecomes, ItemBecomes, SessionBecomes
    <3> QED
      BY <1>2, <2>2, <3>1 DEF BatchBecomes, HasCharged, Charged
  <2> QED
    BY <2>1, <2>2
<1> QED
  BY <1>3, <1>4, <1>5, <1>6 DEF ChargedInv

-----------------------------------------------------------------------------
(***************************************************************************)
(* The other calls: CreateBatch, the start of an attempt, the scheduler,   *)
(* and the checks of a session.                                            *)
(***************************************************************************)
OtherCall ==
  \/ \E b \in Batches :
       \/ \E S \in SUBSET Sessions : Create(b, S)
       \/ \E s \in Sessions : AddItem(b, s)
       \/ GiveUp(b) \/ Reset(b)
  \/ ListPending
  \/ \E p \in Attempts, b \in Batches : Start(p, b)
  \/ \E s \in Sessions : Ready(s)

LEMMA Calls ==
  ASSUME [Next]_vars
  PROVE  \/ UNCHANGED vars \/ OtherCall
         \/ \E p \in Attempts : Step(p) \/ Refuse(p) \/ Stop(p)
BY DEF Next, OtherCall

LEMMA MemberOther ==
  ASSUME IInv, ~Overlap, ~Lost, MemberInv, OtherCall
  PROVE  MemberInv'
<1> USE DEF IInv
<1>1. ASSUME NEW b \in Batches, NEW S \in SUBSET Sessions, Create(b, S) PROVE MemberInv'
  <2>1. /\ batch[b] = "absent" /\ Items(b) = {} /\ adding[b] = {}
        /\ \A k \in Batches : S \cap (Items(k) \cup adding[k]) = {}
    BY <1>1 DEF Create, MemberInv, ItemsAfterRecord
  <2>2. /\ adding'[b] = S /\ \A k \in Batches \ {b} : adding'[k] = adding[k]
        /\ batch'[b] = "pending" /\ \A k \in Batches \ {b} : batch'[k] = batch[k]
        /\ run' = run /\ item' = item /\ \A k \in Batches : Items(k)' = Items(k)
    BY <1>1 DEF Create, TypeOK, Items
  <2>3. Apart' /\ ItemsAfterRecord'
    BY <2>1, <2>2 DEF MemberInv, Apart, ItemsAfterRecord
  <2>4. ASSUME NEW q \in Attempts PROVE HandsOn(q)'
    <3>1. HandsOn(q) /\ Local(run[q]) /\ (run[q].at # "idle" => run[q].batch # b)
      BY <2>1 DEF MemberInv, Owns
    <3> QED
      BY <2>2, <3>1 DEF HandsOn, Local
  <2> QED
    BY <2>3, <2>4 DEF MemberInv
<1>2. ASSUME NEW b \in Batches, NEW s \in Sessions, AddItem(b, s) PROVE MemberInv'
  <2>1. /\ s \in adding[b] /\ adding'[b] = adding[b] \ {s}
        /\ \A k \in Batches \ {b} : adding'[k] = adding[k]
        /\ batch' = batch /\ run' = run /\ Items(b)' = Items(b) \cup {s}
        /\ \A k \in Batches \ {b} : Items(k)' = Items(k)
    BY <1>2 DEF AddItem, TypeOK, Items
  <2>2. Apart' /\ ItemsAfterRecord'
    BY <2>1 DEF MemberInv, Apart, ItemsAfterRecord
  <2>3. ASSUME NEW q \in Attempts PROVE HandsOn(q)'
    <3>1. HandsOn(q) /\ Local(run[q])
      BY DEF MemberInv
    <3>2. run[q].at # "idle" => Items(run[q].batch) \subseteq Items(run[q].batch)'
      BY <2>1, <3>1 DEF Local
    <3> QED
      BY <2>1, <3>1, <3>2 DEF HandsOn
  <2> QED
    BY <2>2, <2>3 DEF MemberInv
<1>3. ASSUME NEW b \in Batches, GiveUp(b) PROVE MemberInv'
  <2>1. /\ adding' \in [Batches -> SUBSET Sessions]
        /\ \A k \in Batches : adding'[k] \subseteq adding[k]
        /\ UNCHANGED <<batch, item, run>>
    BY <1>3 DEF GiveUp, TypeOK
  <2>2. Apart' /\ ItemsAfterRecord'
    BY <2>1 DEF MemberInv, Apart, ItemsAfterRecord, Items
  <2>3. \A q \in Attempts : HandsOn(q)'
    BY <2>1 DEF MemberInv, HandsOn, Items
  <2> QED
    BY <2>2, <2>3 DEF MemberInv
<1>4. ASSUME NEW b \in Batches, Reset(b) PROVE MemberInv'
  <2>1. /\ \A k \in Batches \ {b} : batch'[k] = batch[k]
        /\ batch[b] = "rolled_back" /\ batch'[b] \in {"pending", "rolled_back"} /\ b \in reset
        /\ UNCHANGED <<item, adding, run>>
    BY <1>4, WrittenLoses DEF Reset, TypeOK, ResetIsDue
  <2>2. Apart' /\ ItemsAfterRecord'
    BY <2>1 DEF MemberInv, Apart, ItemsAfterRecord, Items
  <2>3. ASSUME NEW q \in Attempts PROVE HandsOn(q)'
    <3>1. HandsOn(q) /\ Local(run[q]) /\ (run[q].at # "idle" => run[q].batch # b)
      BY <2>1 DEF MemberInv, Owns
    <3> QED
      BY <2>1, <3>1 DEF HandsOn, Local, Items
  <2> QED
    BY <2>2, <2>3 DEF MemberInv
<1>5. ASSUME NEW p \in Attempts, NEW b \in Batches, Start(p, b) PROVE MemberInv'
  <2>1. HandsOn(p) /\ run[p] = IdleRun
    BY <1>5 DEF MemberInv, HandsOn, Start
  <2>2. /\ run'[p].at = "begin" /\ run'[p].batch = b /\ run'[p].todo = {} /\ run'[p].done = {}
        /\ \A q \in Attempts \ {p} : run'[q] = run[q]
        /\ UNCHANGED <<batch, item, adding>>
    BY <1>5, <2>1 DEF Start, TypeOK, IdleRun
  <2>3. \A q \in Attempts : HandsOn(q)'
    BY <2>2 DEF MemberInv, HandsOn, Items
  <2>4. Apart' /\ ItemsAfterRecord'
    BY <2>2 DEF MemberInv, Apart, ItemsAfterRecord, Items
  <2> QED
    BY <2>3, <2>4 DEF MemberInv
<1>6. CASE ListPending \/ \E s \in Sessions : Ready(s)
  <2>1. UNCHANGED <<batch, item, adding, run>>
    BY <1>6 DEF ListPending, Ready
  <2> QED
    BY <2>1 DEF MemberInv, Apart, ItemsAfterRecord, HandsOn, Items
<1> QED
  BY <1>1, <1>2, <1>3, <1>4, <1>5, <1>6 DEF OtherCall

\* None of these calls writes a session but Ready, and none turns over an item.
LEMMA OtherFrame ==
  ASSUME IInv, ~Overlap, MemberInv, OtherCall
  PROVE  /\ faults' = faults
         /\ \/ UNCHANGED session
            \/ /\ UNCHANGED <<batch, item, run>>
               /\ \E i \in Sessions :
                    /\ session[i].state = "requested"
                    /\ session' = [session EXCEPT ![i].state = "negotiating"]
         /\ \A k \in Batches, s \in Sessions :
              \/ item'[k][s] = item[k][s]
              \/ /\ s \in adding[k] /\ item[k][s] = "absent" /\ item'[k][s] = "pending"
                 /\ batch[k] = "pending" /\ UNCHANGED <<session, batch, run>>
         /\ \A k \in Batches :
              \/ batch'[k] = batch[k]
              \/ /\ batch'[k] = "pending" /\ batch[k] \in {"absent", "rolled_back"}
                 /\ UNCHANGED <<session, item, run>>
         /\ \A q \in Attempts :
              \/ run'[q] = run[q]
              \/ /\ run[q].at = "idle" /\ run'[q].at = "begin"
                 /\ UNCHANGED <<session, item, batch>>
<1> USE DEF IInv
<1>1. ASSUME NEW b \in Batches, NEW S \in SUBSET Sessions, Create(b, S)
      PROVE  /\ UNCHANGED <<session, item, run, faults>>
             /\ \A k \in Batches : \/ batch'[k] = batch[k]
                                   \/ batch'[k] = "pending" /\ batch[k] = "absent"
  BY <1>1 DEF Create, TypeOK
<1>2. ASSUME NEW b \in Batches, NEW i \in Sessions, AddItem(b, i)
      PROVE  /\ UNCHANGED <<session, batch, run, faults>>
             /\ \A k \in Batches, s \in Sessions :
                  \/ item'[k][s] = item[k][s]
                  \/ /\ s \in adding[k] /\ item[k][s] = "absent" /\ item'[k][s] = "pending"
                     /\ batch[k] = "pending"
  <2>1. i \in adding[b] /\ item[b][i] = "absent" /\ batch[b] = "pending"
    BY <1>2 DEF AddItem, MemberInv, ItemsAfterRecord, Items
  <2> QED
    BY <1>2, <2>1 DEF AddItem, TypeOK
<1>3. ASSUME NEW b \in Batches, Reset(b)
      PROVE  /\ UNCHANGED <<session, item, run, faults>>
             /\ \A k \in Batches : \/ batch'[k] = batch[k]
                                   \/ batch'[k] = "pending" /\ batch[k] = "rolled_back"
  <2>1. batch[b] = "rolled_back" /\ (batch' = [batch EXCEPT ![b] = "pending"] \/ batch' = batch)
    BY <1>3, WrittenLoses DEF Reset, ResetIsDue
  <2> QED
    BY <1>3, <2>1 DEF Reset, TypeOK
<1>4. ASSUME NEW p \in Attempts, NEW b \in Batches, Start(p, b)
      PROVE  /\ UNCHANGED <<session, item, batch, faults>>
             /\ \A q \in Attempts : \/ run'[q] = run[q]
                                    \/ run[q].at = "idle" /\ run'[q].at = "begin"
  BY <1>4 DEF Start, TypeOK
<1>5. ASSUME NEW i \in Sessions, Ready(i)
      PROVE  /\ UNCHANGED <<item, batch, run, faults>>
             /\ session[i].state = "requested"
             /\ session' = [session EXCEPT ![i].state = "negotiating"]
  BY <1>5 DEF Ready
<1>6. CASE ListPending \/ \E b \in Batches : GiveUp(b)
  BY <1>6 DEF ListPending, GiveUp
<1>7. CASE \E b \in Batches, S \in SUBSET Sessions : Create(b, S)
  BY <1>1, <1>7
<1>8. CASE \E b \in Batches, i \in Sessions : AddItem(b, i)
  BY <1>2, <1>8
<1>9. CASE \E b \in Batches : Reset(b)
  BY <1>3, <1>9
<1>10. CASE \E p \in Attempts, b \in Batches : Start(p, b)
  BY <1>4, <1>10
<1>11. CASE \E i \in Sessions : Ready(i)
  BY <1>5, <1>11
<1> QED
  BY <1>6, <1>7, <1>8, <1>9, <1>10, <1>11 DEF OtherCall

\* What Ready does to a session it is applied to.
LEMMA ReadySession ==
  ASSUME IInv, NEW i \in Sessions, session[i].state = "requested",
         session' = [session EXCEPT ![i].state = "negotiating"], NEW s \in Sessions
  PROVE  /\ session'[s].mitigation = session[s].mitigation
         /\ session'[s].state = "charging" <=> session[s].state = "charging"
         /\ session'[s].state \in {session[s].state, "negotiating"}
         /\ s # i => session'[s] = session[s]
BY DEF IInv, TypeOK, SessionRow

LEMMA UndoOther ==
  ASSUME IInv, ~Overlap, MemberInv, UndoInv, OtherCall
  PROVE  UndoInv'
<1> USE DEF IInv
<1>1. \A s \in Sessions : session'[s].state = "charging" <=> session[s].state = "charging"
  BY OtherFrame, ReadySession
<1>2. \A k \in Batches : Items(k) \subseteq Items(k)'
  BY OtherFrame DEF Items
<1>3. ChargesInBatch'
  BY <1>1, <1>2 DEF UndoInv, ChargesInBatch
<1>4. ASSUME NEW k \in Batches, NEW s \in Sessions, Undone(k, s) PROVE Undone(k, s)'
  <2>1. CASE item'[k][s] = item[k][s]
    BY <1>1, <1>4, <2>1 DEF Undone
  <2>2. CASE s \in adding[k]
    <3>1. \A b \in Batches : s \notin Items(b)
      BY <2>2 DEF MemberInv, Apart, ItemsAfterRecord
    <3>2. session[s].state # "charging"
      BY <3>1 DEF UndoInv, ChargesInBatch
    <3> QED
      BY <1>1, <3>2 DEF Undone
  <2> QED
    BY <2>1, <2>2, OtherFrame
<1>5. OpenIsUndone'
  <2> SUFFICES ASSUME NEW k \in Batches, NEW s \in Sessions,
                      batch'[k] \in {"rolled_back", "pending"}
               PROVE  Undone(k, s)'
    BY DEF OpenIsUndone
  <2>1. CASE batch[k] = "absent"
    <3>1. item[k][s] = "absent"
      BY <2>1 DEF MemberInv, ItemsAfterRecord, Items
    <3> QED
      BY <1>4, <3>1 DEF Undone
  <2>2. CASE batch[k] # "absent"
    <3>1. batch[k] \in {"rolled_back", "pending"}
      BY <2>2, OtherFrame
    <3> QED
      BY <1>4, <3>1 DEF UndoInv, OpenIsUndone
  <2> QED
    BY <2>1, <2>2
<1>6. ASSUME NEW q \in Attempts PROVE Settles(q)'
  <2>1. Settles(q) /\ Local(run[q]) /\ HandsOn(q)
    BY DEF UndoInv, MemberInv
  <2>2. CASE run'[q] = run[q] /\ run[q].at # "idle"
    <3>1. PICK k \in Batches : k = run[q].batch
      BY <2>1, <2>2 DEF Local
    <3>2. \A s \in Sessions : Undone(k, s) => Undone(k, s)'
      BY <1>4
    <3>3. Unsettled(run[q])' = Unsettled(run[q])
      BY <2>2 DEF Unsettled
    <3>4. run[q].at \in {"fail", "unmark"} => run[q].item \in Sessions
      BY <2>1 DEF Local
    <3> QED
      BY <1>1, <2>1, <2>2, <3>1, <3>2, <3>3, <3>4 DEF Settles, Undone
  <2>3. CASE run'[q].at \in {"idle", "begin"}
    BY <2>3 DEF Settles
  <2> QED
    BY <2>2, <2>3, OtherFrame
<1> QED
  BY <1>3, <1>5, <1>6 DEF UndoInv

LEMMA ChargedOther ==
  ASSUME IInv, ~Overlap, MemberInv, ChargedInv, OtherCall
  PROVE  ChargedInv'
<1> USE DEF IInv
<1>1. \A s \in Sessions : Charged(s) => Charged(s)'
  BY OtherFrame, ReadySession DEF Charged
<1>2. ASSUME NEW k \in Batches, batch[k] # "pending" PROVE Items(k)' = Items(k)
  BY <1>2, OtherFrame DEF Items
<1>3. SuccessRemembered'
  <2> SUFFICES ASSUME NEW k \in Batches, NEW s \in Sessions, item'[k][s] = "succeeded"
               PROVE  \/ batch'[k] = "completed"
                      \/ \E q \in Attempts : run'[q].batch = k /\ Remembers(run'[q], s)
    BY DEF SuccessRemembered, Remembers
  <2>1. item[k][s] = "succeeded"
    BY OtherFrame
  <2>2. CASE batch[k] = "completed"
    BY <2>2, OtherFrame
  <2>3. CASE batch[k] # "completed"
    <3>1. PICK q \in Attempts : run[q].batch = k /\ Remembers(run[q], s)
      BY <2>1, <2>3 DEF ChargedInv, SuccessRemembered
    <3>2. run'[q] = run[q]
      BY <3>1, OtherFrame DEF Remembers
    <3> QED
      BY <3>1, <3>2
  <2> QED
    BY <2>2, <2>3
<1>4. CompletedCharges'
  <2> SUFFICES ASSUME faults \subseteq {"refuse"},
                      NEW k \in Batches, batch'[k] = "completed", NEW s \in Items(k)'
               PROVE  Charged(s)'
    BY OtherFrame DEF CompletedCharges, Charged
  <2>1. batch[k] = "completed"
    BY OtherFrame
  <2>2. s \in Items(k) /\ s \in Sessions
    BY <1>2, <2>1 DEF Items
  <2> QED
    BY <1>1, <2>1, <2>2 DEF ChargedInv, CompletedCharges, Charged
<1>5. ASSUME NEW q \in Attempts PROVE HasCharged(q)'
  <2>1. HasCharged(q) /\ Local(run[q]) /\ HandsOn(q) /\ Owns(q)
    BY DEF ChargedInv, MemberInv
  <2>2. CASE run'[q] = run[q] /\ run[q].at \in {"next", "charge", "mark", "succeed", "complete"}
    <3>1. PICK k \in Batches : k = run[q].batch
      BY <2>1, <2>2 DEF Local
    <3>2. Items(k)' = Items(k)
      <4>1. adding[k] = {}
        BY <2>1, <2>2, <3>1 DEF Owns
      <4> QED
        BY <4>1, OtherFrame DEF Items
    <3>3. Items(run[q].batch)' = Items(k)
      BY <2>2, <3>1, <3>2 DEF Items
    <3> QED
      BY <1>1, <2>1, <2>2, <3>1, <3>3 DEF HasCharged, Items
  <2>3. CASE run'[q] = run[q] /\ run[q].at \notin {"next", "charge", "mark", "succeed", "complete"}
    BY <2>3 DEF HasCharged
  <2>4. CASE run'[q].at = "begin"
    BY <2>4 DEF HasCharged
  <2> QED
    BY <2>2, <2>3, <2>4, OtherFrame
<1> QED
  BY <1>3, <1>4, <1>5 DEF ChargedInv

-----------------------------------------------------------------------------
(***************************************************************************)
(* Batches by themselves.                                                  *)
(***************************************************************************)
LEMMA SettledInit ==
  ASSUME Init
  PROVE  SettledInv
<1>1. IInv
  BY InitHolds
<1>2. /\ \A b \in Batches : batch[b] = "absent" /\ Items(b) = {} /\ adding[b] = {}
      /\ \A p \in Attempts : run[p] = IdleRun
      /\ \A s \in Sessions : session[s].state # "charging"
      /\ \A b \in Batches, s \in Sessions : item[b][s] = "absent"
  BY DEF Init, Items
<1>3. MemberInv
  BY <1>2, IdleRunIsRun DEF MemberInv, Apart, ItemsAfterRecord, HandsOn
<1>4. UndoInv
  BY <1>2, IdleRunIsRun DEF UndoInv, ChargesInBatch, OpenIsUndone, Undone, Settles
<1>5. ChargedInv
  BY <1>2, IdleRunIsRun DEF ChargedInv, SuccessRemembered, CompletedCharges, HasCharged
<1> QED
  BY <1>1, <1>3, <1>4, <1>5 DEF SettledInv

LEMMA PartsNext ==
  ASSUME ~Overlap, IInv, "drop" \notin faults => MemberInv, [Next]_vars
  PROVE  /\ ("drop" \notin faults => MemberInv)'
         /\ (faults \subseteq {"stop"} => UndoInv) => (faults \subseteq {"stop"} => UndoInv)'
         /\ (faults \subseteq {"refuse"} => ChargedInv) =>
              (faults \subseteq {"refuse"} => ChargedInv)'
<1>1. "drop" \notin faults => ~Lost
  BY DEF Lost
<1>2. CASE UNCHANGED vars
  <2>1. MemberInv => MemberInv'
    BY <1>2 DEF vars, MemberInv, Apart, ItemsAfterRecord, HandsOn, Items
  <2>2. UndoInv => UndoInv'
    BY <1>2 DEF vars, UndoInv, ChargesInBatch, OpenIsUndone, Undone, Settles, Unsettled, Items
  <2>3. ChargedInv => ChargedInv'
    BY <1>2 DEF vars, ChargedInv, SuccessRemembered, Remembers, CompletedCharges, HasCharged,
                Charged, Items
  <2>4. faults' = faults
    BY <1>2 DEF vars
  <2> QED
    BY <2>1, <2>2, <2>3, <2>4
<1>3. CASE OtherCall
  <2>1. "drop" \notin faults => MemberInv'
    BY <1>1, <1>3, MemberOther
  <2>2. faults \subseteq {"stop"} /\ UndoInv => UndoInv'
    BY <1>3, UndoOther
  <2>3. faults \subseteq {"refuse"} /\ ChargedInv => ChargedInv'
    BY <1>3, ChargedOther
  <2>4. faults' = faults
    BY <1>3 DEF OtherCall, Create, AddItem, GiveUp, Reset, ListPending, Start, Ready
  <2> QED
    BY <2>1, <2>2, <2>3, <2>4
<1>4. CASE \E p \in Attempts : Step(p) \/ Refuse(p) \/ Stop(p)
  <2>1. PICK p \in Attempts, b \in Batches, r \in Run : GoesOn(p, b, r) /\ Acts(p, b, r)
    BY <1>4, AttemptActs
  <2>2. "drop" \notin faults => MemberInv'
    BY <1>1, <2>1, AttemptMember
  <2>3. faults \subseteq {"stop"} /\ UndoInv => UndoInv'
    BY <2>1, AttemptUndo
  <2>4. faults \subseteq {"refuse"} /\ ChargedInv => ChargedInv'
    BY <2>1, AttemptCharged
  <2>5. faults' = faults
    BY <2>1 DEF GoesOn
  <2> QED
    BY <2>2, <2>3, <2>4, <2>5
<1> QED
  BY <1>2, <1>3, <1>4, Calls

LEMMA SettledNext ==
  ASSUME ~Overlap, SettledInv, [Next]_vars
  PROVE  SettledInv'
<1>1. IInv'
  BY StepHolds DEF SettledInv
<1> QED
  BY <1>1, PartsNext DEF SettledInv

LEMMA SettledImplies ==
  ASSUME SettledInv
  PROVE  UndoneDoesNotCharge /\ CompletedCharges
BY DEF SettledInv, UndoInv, OpenIsUndone, Undone, UndoneDoesNotCharge, ChargedInv, CompletedCharges

\* When calls on one batch do not overlap and no write fails, a batch that
\* ProcessBatch rolled back leaves no session charging whose item it reports as
\* failed or rolled back, although an attempt that stopped may have charged it.
THEOREM RollbackUncharges ==
  ASSUME ~Overlap
  PROVE  Spec => []UndoneDoesNotCharge
<1>1. Init => SettledInv
  BY SettledInit
<1>2. SettledInv /\ [Next]_vars => SettledInv'
  BY SettledNext
<1>3. SettledInv => UndoneDoesNotCharge
  BY SettledImplies
<1> QED
  BY <1>1, <1>2, <1>3, PTL DEF Spec

-----------------------------------------------------------------------------
(***************************************************************************)
(* Mitigations beside them: what their steps do to the sessions, from the  *)
(* invariants of MitigationProofs.                                         *)
(***************************************************************************)
MP == INSTANCE MitigationProofs WITH Overlap <- FALSE

KnowsSubmitted == Submitted \subseteq MitigationTypes \cup {"other"}

LEMMA MitAssumptions ==
  ASSUME KnowsSubmitted
  PROVE  MP!NoneIsNoId /\ MP!SubmittedAreTypes /\ MP!OverlapIsBoolean
BY NoneIsNoBatch DEF MP!NoneIsNoId, MP!SubmittedAreTypes, MP!OverlapIsBoolean, KnowsSubmitted,
                     MitigationTypes, MP!MitigationTypes

LEMMA MitIsMP ==
  /\ Mit!Init => MP!Init
  /\ Mit!Next => MP!Next
  /\ \A t, c : Mit!Effect(t, c) = MP!Effect(t, c)
BY DEF Mit!Init, MP!Init, Mit!Next, MP!Next,
       Mit!StartSubmit, MP!StartSubmit, Mit!Begin, MP!Begin, Mit!HeldByAnother, MP!HeldByAnother,
       Mit!Writing, MP!Writing, Mit!NoRow, MP!NoRow, Mit!NoSession, MP!NoSession,
       Mit!SubmitTx, MP!SubmitTx, Mit!SaveTx, MP!SaveTx, Mit!StartReview, MP!StartReview,
       Mit!MayBecome, MP!MayBecome, Mit!StartWithdraw, MP!StartWithdraw, Mit!Save, MP!Save,
       Mit!StartExecute, MP!StartExecute, Mit!SaveExecuting, MP!SaveExecuting,
       Mit!GetSession, MP!GetSession, Mit!Effect, MP!Effect, Mit!SaveSession, MP!SaveSession,
       Mit!SaveCompleted, MP!SaveCompleted, Mit!Record, MP!Record, Mit!Abort, MP!Abort,
       Mit!Validate, MP!Validate, Mit!MitigationTransitions, MP!MitigationTransitions,
       Mit!IsMitigationActive, MP!IsMitigationActive

\* What Execute saves on a session, and nothing else of a mitigation's does.
Imposes(q) ==
  /\ at[q] = "saveSession" /\ row[q].session \in Sessions /\ row[q].id \in Mitigations
  /\ copy[q] \in SessionRow /\ copy[q].mitigation = row[q].id
  /\ session' = [session EXCEPT ![row[q].session] = copy[q]]

LEMMA MitSession ==
  ASSUME KnowsSubmitted, MP!Base, Mit!Next
  PROVE  UNCHANGED session \/ \E q \in Requests : Imposes(q)
<1>1. [MP!Next]_(MP!vars)
  BY MitIsMP
<1>2. \/ UNCHANGED session
      \/ \E q \in Requests : MP!WritesSession(q)
  BY <1>1, MitAssumptions, MP!OtherSteps
     DEF MP!Writes, MP!Starts, MP!ReadsSession, MP!Ends
<1>3. ASSUME NEW q \in Requests, MP!WritesSession(q) PROVE Imposes(q)
  BY <1>3 DEF MP!WritesSession, MP!Row, MP!SessionRow, SessionRow, Imposes,
              MP!SessionStates, SessionStates
<1> QED
  BY <1>2, <1>3

\* No row disappears or changes its type.
LEMMA MitRows ==
  ASSUME KnowsSubmitted, MP!Base, Mit!Next, NEW m \in Mitigations, mit[m].state # "absent"
  PROVE  mit'[m].state # "absent" /\ mit'[m].type = mit[m].type
<1>1. [MP!Next]_(MP!vars) /\ mit[m] # MP!NoRow
  BY MitIsMP DEF MP!NoRow
<1>2. MP!Base'
  BY <1>1, MitAssumptions, MP!BaseNext
<1>3. mit' = mit \/ \E p \in Requests, r \in MP!Row : MP!Writes(p, r)
  BY <1>1, MitAssumptions, MP!OtherSteps
<1>4. CASE \E p \in Requests, r \in MP!Row : MP!Writes(p, r)
  <2>1. mit'[m] # MP!NoRow /\ mit'[m].type = mit[m].type
    BY <1>1, <1>4, MitAssumptions, MP!RowsStay
  <2>2. mit'[m] \in MP!Row
    BY <1>2, <2>1 DEF MP!Base, MP!TypeOK
  <2> QED
    BY <2>1, <2>2 DEF MP!Row, MP!MitigationStates
<1> QED
  BY <1>3, <1>4

\* A copy that Execute is about to save was made by GetSession.
LEMMA MitCopies ==
  ASSUME KnowsSubmitted, MP!Base, Mit!Next, NEW q \in Requests, at'[q] = "saveSession"
  PROVE  \/ at[q] = "saveSession" /\ copy'[q] = copy[q]
         \/ /\ at[q] = "getSession"
            /\ copy'[q] = [state |-> Mit!Effect(row[q].type, session[row[q].session].state),
                           mitigation |-> row[q].id]
<1>1. MP!TypeOK
  BY DEF MP!Base
<1>2. PICK p \in Requests :
        \/ \E s \in Sessions, m \in Mitigations, t \in Submitted : Mit!StartSubmit(p, s, m, t)
        \/ Mit!SubmitTx(p)
        \/ \E m \in Mitigations, d \in {"issued", "retest_required"} : Mit!StartReview(p, m, d)
        \/ \E m \in Mitigations : Mit!StartWithdraw(p, m)
        \/ Mit!Save(p)
        \/ \E m \in Mitigations : Mit!StartExecute(p, m)
        \/ Mit!SaveExecuting(p) \/ Mit!GetSession(p) \/ Mit!SaveSession(p)
        \/ Mit!SaveCompleted(p) \/ Mit!Record(p) \/ Mit!Abort(p)
  BY DEF Mit!Next
<1>3. CASE Mit!GetSession(p)
  BY <1>1, <1>3 DEF Mit!GetSession, MP!TypeOK
<1>4. CASE ~Mit!GetSession(p)
  <2>1. \E next \in {"submit", "record", "save", "executing", "getSession", "complete", "idle"} :
          at' = [at EXCEPT ![p] = next]
    BY <1>2, <1>4 DEF Mit!StartSubmit, Mit!Begin, Mit!SubmitTx, Mit!StartReview,
                      Mit!StartWithdraw, Mit!Save, Mit!StartExecute, Mit!SaveExecuting,
                      Mit!SaveSession, Mit!SaveCompleted, Mit!Record, Mit!Abort
  <2>2. copy' = copy \/ copy' = [copy EXCEPT ![p] = Mit!NoSession]
    BY <1>2, <1>4 DEF Mit!StartSubmit, Mit!Begin, Mit!SubmitTx, Mit!StartReview,
                      Mit!StartWithdraw, Mit!Save, Mit!StartExecute, Mit!SaveExecuting,
                      Mit!SaveSession, Mit!SaveCompleted, Mit!Record, Mit!Abort
  <2>3. q # p /\ at[q] = "saveSession"
    BY <1>1, <2>1 DEF MP!TypeOK
  <2> QED
    BY <1>1, <2>2, <2>3 DEF MP!TypeOK
<1> QED
  BY <1>3, <1>4

-----------------------------------------------------------------------------
(***************************************************************************)
(* Both over one table of sessions.                                        *)
(***************************************************************************)
LEMMA ChargeBaseInit ==
  ASSUME KnowsSubmitted, ChargeInit
  PROVE  MP!Base /\ IInv /\ SettledInv /\ NamedInv
<1>1. MP!Base
  BY MitAssumptions, MitIsMP, MP!BaseInit DEF ChargeInit
<1>2. SettledInv /\ IInv
  BY SettledInit, InitHolds DEF ChargeInit
<1>3. NamedInv
  BY IdleRunIsRun DEF ChargeInit, Init, Mit!Init, NamedInv, Named
<1> QED
  BY <1>1, <1>2, <1>3

\* Batch steps leave the base of the mitigations alone ...
LEMMA BatchBase ==
  ASSUME MP!Base, IInv, [Next]_vars, UNCHANGED mitVars
  PROVE  MP!Base' /\ IInv'
<1>1. IInv'
  BY StepHolds
<1>2. session' \in [Sessions -> MP!SessionRow]
  BY <1>1 DEF IInv, TypeOK, SessionRow, SessionStates, MP!SessionRow, MP!SessionStates
<1> QED
  BY <1>1, <1>2 DEF mitVars, MP!Base, MP!TypeOK, MP!KeysOK, MP!RequestOK, MP!CopyOK

\* ... and mitigation steps the base of the batches.
LEMMA MitBase ==
  ASSUME KnowsSubmitted, MP!Base, IInv, Mit!Next, UNCHANGED batchVars
  PROVE  MP!Base' /\ IInv'
<1>1. MP!Base'
  BY MitAssumptions, MitIsMP, MP!BaseNext
<1>2. session' \in [Sessions -> SessionRow]
  BY <1>1 DEF MP!Base, MP!TypeOK, SessionRow, SessionStates, MP!SessionRow, MP!SessionStates
<1>3. TypeOK'
  BY <1>2 DEF IInv, TypeOK, batchVars
<1>4. IInv'
  BY <1>3 DEF IInv, batchVars, Local, Skips, Owns, ResetIsDue
<1> QED
  BY <1>1, <1>4

\* A charging or negotiating row that names a mitigation names one of a type
\* that asks for nothing.
LEMMA NamedAgain ==
  ASSUME NEW s, NEW c, Named(s), c.mitigation = s.mitigation,
         s.state \in {"negotiating", "charging", "requested"}
  PROVE  Named(c)
BY DEF Named, Mit!Effect

LEMMA NamedBatch ==
  ASSUME IInv, NamedInv, [Next]_vars, UNCHANGED mitVars
  PROVE  NamedInv'
<1>1. \A x : Named(x) => Named(x)'
  BY DEF mitVars, Named
<1>2. \A q \in Requests : at'[q] = "saveSession" => Named(copy[q])'
  BY DEF mitVars, NamedInv, Named
<1>3. ASSUME NEW p \in Attempts, Step(p) \/ Refuse(p) \/ Stop(p) PROVE NamedInv'
  <2>1. PICK b \in Batches, r \in Run : GoesOn(p, b, r) /\ Acts(p, b, r)
    BY <1>3, AttemptActs
  <2>2. run'[p] = r /\ \A q \in Attempts \ {p} : run'[q] = run[q]
    BY <2>1 DEF GoesOn
  <2>3. ASSUME NEW s \in Sessions PROVE Named(session[s])'
    <3>1. \/ session'[s] = session[s]
          \/ run[p].at \in {"charge", "release"} /\ session'[s] = run[p].copy
      BY <2>1 DEF Acts, Ends, Saves, Lists, Looks, Puts, Marks, Turns, Refuses, Tables,
                  BatchBecomes, ItemBecomes, SessionBecomes
    <3>2. Named(session'[s])
      BY <3>1 DEF NamedInv
    <3> QED
      BY <3>2 DEF Named, mitVars
  <2>4. ASSUME r.at \in {"charge", "release"} PROVE Named(r.copy)'
    <3>1. PICK s \in Sessions : Looks(p, r, s)
      BY <2>1, <2>4, IdleRunIsRun DEF Acts, Ends, Saves, Lists, Puts, Marks, Turns, Refuses
    <3>2. /\ r.copy.mitigation = session[s].mitigation
          /\ session[s].state \in {"negotiating", "charging"}
      BY <2>4, <3>1 DEF Looks
    <3>3. Named(r.copy)
      BY <3>2, NamedAgain DEF NamedInv
    <3> QED
      BY <1>1, <3>3
  <2>5. \A q \in Attempts : run'[q].at \in {"charge", "release"} => Named(run[q].copy)'
    BY <2>2, <2>4 DEF NamedInv, Named, mitVars
  <2> QED
    BY <1>2, <2>3, <2>5 DEF NamedInv
<1>4. ASSUME NEW i \in Sessions, Ready(i) PROVE NamedInv'
  <2>1. /\ run' = run /\ session[i].state = "requested"
        /\ session'[i].mitigation = session[i].mitigation
        /\ \A s \in Sessions \ {i} : session'[s] = session[s]
    BY <1>4 DEF Ready, IInv, TypeOK, SessionRow
  <2>2. \A s \in Sessions : Named(session'[s])
    BY <2>1, NamedAgain DEF NamedInv
  <2> QED
    BY <1>2, <2>1, <2>2 DEF NamedInv, Named, mitVars
<1>5. ASSUME UNCHANGED session,
             \A q \in Attempts : run'[q] = run[q] \/ run'[q].at = "begin"
      PROVE  NamedInv'
  BY <1>2, <1>5 DEF NamedInv, Named, mitVars
<1>6. CASE UNCHANGED vars \/ (OtherCall /\ ~\E i \in Sessions : Ready(i))
  <2>1. ASSUME NEW p \in Attempts, NEW b \in Batches, Start(p, b)
        PROVE  \A q \in Attempts : run'[q] = run[q] \/ run'[q].at = "begin"
    BY <2>1 DEF Start, IInv, TypeOK
  <2>2. /\ UNCHANGED session
        /\ \A q \in Attempts : run'[q] = run[q] \/ run'[q].at = "begin"
    BY <1>6, <2>1 DEF vars, OtherCall, Create, AddItem, GiveUp, Reset, ListPending, Start
  <2> QED
    BY <1>5, <2>2
<1> QED
  BY <1>3, <1>4, <1>6, Calls

LEMMA NamedMit ==
  ASSUME KnowsSubmitted, MP!Base, IInv, NamedInv, Mit!Next, UNCHANGED batchVars
  PROVE  NamedInv'
<1>1. ASSUME NEW x, x.mitigation \in Mitigations \cup {None}, Named(x) PROVE Named(x)'
  BY <1>1, MitRows DEF Named
<1>2. ASSUME NEW s \in Sessions PROVE Named(session[s])'
  <2>1. session[s].mitigation \in Mitigations \cup {None}
    BY DEF IInv, TypeOK, SessionRow
  <2>2. CASE session'[s] = session[s]
    <3>1. Named(session[s])
      BY DEF NamedInv
    <3> QED
      BY <1>1, <2>1, <2>2, <3>1 DEF Named
  <2>3. CASE \E q \in Requests : Imposes(q) /\ session'[s] = copy[q]
    <3>1. PICK q \in Requests : Imposes(q) /\ session'[s] = copy[q]
      BY <2>3
    <3>2. Named(copy[q]) /\ copy[q].mitigation \in Mitigations
      BY <3>1 DEF Imposes, NamedInv
    <3> QED
      BY <1>1, <3>1, <3>2 DEF Named
  <2>4. session'[s] = session[s] \/ \E q \in Requests : Imposes(q) /\ session'[s] = copy[q]
    BY MitSession DEF Imposes, IInv, TypeOK
  <2> QED
    BY <2>2, <2>3, <2>4
<1>3. ASSUME NEW p \in Attempts, run'[p].at \in {"charge", "release"}
      PROVE  Named(run[p].copy)'
  <2>1. run' = run /\ run[p].copy \in SessionRow /\ Named(run[p].copy)
    BY <1>3 DEF batchVars, IInv, Local, NamedInv
  <2> QED
    BY <1>1, <2>1 DEF SessionRow, Named
<1>4. ASSUME NEW q \in Requests, at'[q] = "saveSession" PROVE Named(copy[q])'
  <2>1. CASE at[q] = "saveSession" /\ copy'[q] = copy[q]
    <3>1. Named(copy[q]) /\ copy[q].mitigation \in Mitigations \cup {None}
      BY <2>1 DEF NamedInv, MP!Base, MP!RequestOK, MP!SessionRow
    <3> QED
      BY <1>1, <2>1, <3>1 DEF Named
  <2>2. CASE /\ at[q] = "getSession"
             /\ copy'[q] = [state |-> Mit!Effect(row[q].type, session[row[q].session].state),
                            mitigation |-> row[q].id]
    <3>1. row[q] \in MP!Row /\ mit[row[q].id] # MP!NoRow /\ mit[row[q].id].type = row[q].type
      BY <2>2 DEF MP!Base, MP!RequestOK, MP!CopyOK, MP!Writing
    <3>2. PICK m \in Mitigations : m = row[q].id
      BY <3>1 DEF MP!Row
    <3>3. mit[m].state # "absent" /\ mit[m].type = row[q].type
      BY <3>1, <3>2 DEF MP!Base, MP!TypeOK, MP!Row, MP!MitigationStates
    <3>4. mit'[m].state # "absent" /\ mit'[m].type = row[q].type
      BY <3>3, MitRows
    <3> QED
      BY <2>2, <3>2, <3>4 DEF Named, Mit!Effect
  <2> QED
    BY <1>4, <2>1, <2>2, MitCopies
<1> QED
  BY <1>2, <1>3, <1>4 DEF NamedInv, Named

LEMMA ChargeBaseNext ==
  ASSUME KnowsSubmitted, MP!Base, IInv, NamedInv, [ChargeNext]_<<batchVars, mitVars, session>>
  PROVE  MP!Base' /\ IInv' /\ NamedInv'
<1>1. CASE [Next]_vars /\ UNCHANGED mitVars
  BY <1>1, BatchBase, NamedBatch
<1>2. CASE Mit!Next /\ UNCHANGED batchVars
  BY <1>2, MitBase, NamedMit
<1>3. UNCHANGED <<batchVars, mitVars, session>> => UNCHANGED vars /\ UNCHANGED mitVars
  BY DEF vars, batchVars
<1> QED
  BY <1>1, <1>2, <1>3 DEF ChargeNext

\* Whichever attempts overlap and calls fail, a session that names a mitigation
\* is in the state that mitigation asks for: ProcessBatch writes back the name
\* only with a state that Execute itself saved.
THEOREM NamesAreTrue ==
  ASSUME KnowsSubmitted
  PROVE  ChargeSpec => []EffectMatchesName
<1>1. ChargeInit => MP!Base /\ IInv /\ NamedInv
  BY ChargeBaseInit
<1>2. MP!Base /\ IInv /\ NamedInv /\ [ChargeNext]_<<batchVars, mitVars, session>> =>
        MP!Base' /\ IInv' /\ NamedInv'
  BY ChargeBaseNext
<1>3. NamedInv => EffectMatchesName
  BY NoneIsNoBatch DEF NamedInv, Named, EffectMatchesName
<1> QED
  BY <1>1, <1>2, <1>3, PTL DEF ChargeSpec

-----------------------------------------------------------------------------
(***************************************************************************)
(* What a mitigation does to the sessions of batches, when its type is one *)
(* of those the code knows.                                                *)
(***************************************************************************)

\* A mitigation takes a session out of charging and never into it; a session
\* that it acts on names it.
LEMMA Imposed ==
  ASSUME KnowsSubmitted, MP!Base, IInv, NamedInv, Mit!Next, NEW s \in Sessions
  PROVE  /\ session'[s] = session[s] \/ session'[s].mitigation # None
         /\ MP!SubmittedTypes /\ Submitted \subseteq MitigationTypes =>
              (session'[s].state = "charging" => session[s].state = "charging")
<1>1. CASE session'[s] = session[s]
  BY <1>1
<1>2. CASE \E q \in Requests : Imposes(q) /\ session'[s] = copy[q]
  <2>1. PICK q \in Requests : Imposes(q) /\ session'[s] = copy[q]
    BY <1>2
  <2>2. Named(copy[q]) /\ copy[q].mitigation \in Mitigations /\ copy[q].mitigation # None
    BY <2>1, NoneIsNoBatch DEF Imposes, NamedInv
  <2>3. PICK m \in Mitigations : m = copy[q].mitigation
    BY <2>2
  <2>4. ASSUME MP!SubmittedTypes, Submitted \subseteq MitigationTypes
        PROVE  copy[q].state # "charging"
    <3>1. mit[m].state # "absent" /\ copy[q].state = Mit!Effect(mit[m].type, copy[q].state)
      BY <2>2, <2>3 DEF Named
    <3>2. mit[m].type \in MitigationTypes
      BY <2>4, <3>1 DEF MP!SubmittedTypes, MP!NoRow
    <3> QED
      BY <3>1, <3>2 DEF Mit!Effect, MitigationTypes
  <2> QED
    BY <2>1, <2>2, <2>4
<1>3. session'[s] = session[s] \/ \E q \in Requests : Imposes(q) /\ session'[s] = copy[q]
  BY MitSession DEF Imposes, IInv, TypeOK
<1> QED
  BY <1>1, <1>2, <1>3

LEMMA ChargedMit ==
  ASSUME ChargedInv, UNCHANGED batchVars,
         \A s \in Sessions : session'[s] = session[s] \/ session'[s].mitigation # None
  PROVE  ChargedInv'
<1>1. \A s \in Sessions : Charged(s) => Charged(s)'
  BY DEF Charged
<1>2. SuccessRemembered'
  BY DEF batchVars, ChargedInv, SuccessRemembered, Remembers
<1>3. CompletedCharges'
  BY <1>1 DEF batchVars, ChargedInv, CompletedCharges, Charged, Items
<1>4. \A p \in Attempts : HasCharged(p)'
  BY <1>1 DEF batchVars, ChargedInv, HasCharged, Items
<1> QED
  BY <1>2, <1>3, <1>4 DEF ChargedInv

LEMMA UndoMit ==
  ASSUME UndoInv, IInv, UNCHANGED batchVars,
         \A s \in Sessions : session'[s].state = "charging" => session[s].state = "charging"
  PROVE  UndoInv'
<1>1. \A b \in Batches, s \in Sessions : Undone(b, s) => Undone(b, s)'
  BY DEF batchVars, Undone
<1>2. ChargesInBatch' /\ OpenIsUndone'
  BY <1>1 DEF batchVars, UndoInv, ChargesInBatch, OpenIsUndone, Items
<1>3. ASSUME NEW p \in Attempts PROVE Settles(p)'
  <2>1. run' = run /\ Settles(p) /\ Local(run[p])
    BY DEF UndoInv, IInv, batchVars
  <2>2. Unsettled(run[p])' = Unsettled(run[p])
    BY <2>1 DEF Unsettled
  <2> QED
    BY <1>1, <2>1, <2>2 DEF Settles, Undone, Local, batchVars
<1> QED
  BY <1>2, <1>3 DEF UndoInv

\* No attempt and no mitigation takes back what this file has proved of batches
\* alone.
LEMMA ChargeMit ==
  ASSUME ~Overlap, KnowsSubmitted, MP!Base, IInv, NamedInv, Mit!Next, UNCHANGED batchVars
  PROVE  /\ ("drop" \notin faults => MemberInv) => ("drop" \notin faults => MemberInv)'
         /\ (faults \subseteq {"refuse"} => ChargedInv) =>
              (faults \subseteq {"refuse"} => ChargedInv)'
         /\ MP!SubmittedTypes /\ Submitted \subseteq MitigationTypes =>
              ((faults \subseteq {"stop"} => UndoInv) => (faults \subseteq {"stop"} => UndoInv)')
<1>1. faults' = faults
  BY DEF batchVars
<1>2. MemberInv => MemberInv'
  BY DEF batchVars, MemberInv, Apart, ItemsAfterRecord, HandsOn, Items
<1>3. ChargedInv => ChargedInv'
  BY Imposed, ChargedMit
<1>4. MP!SubmittedTypes /\ Submitted \subseteq MitigationTypes => (UndoInv => UndoInv')
  BY Imposed, UndoMit
<1> QED
  BY <1>1, <1>2, <1>3, <1>4

LEMMA ChargePartsNext ==
  ASSUME ~Overlap, KnowsSubmitted, MP!Base, IInv, NamedInv, "drop" \notin faults => MemberInv,
         [ChargeNext]_<<batchVars, mitVars, session>>
  PROVE  /\ ("drop" \notin faults => MemberInv)'
         /\ (faults \subseteq {"refuse"} => ChargedInv) =>
              (faults \subseteq {"refuse"} => ChargedInv)'
         /\ MP!SubmittedTypes /\ Submitted \subseteq MitigationTypes =>
              ((faults \subseteq {"stop"} => UndoInv) => (faults \subseteq {"stop"} => UndoInv)')
<1>1. CASE [Next]_vars
  BY <1>1, PartsNext
<1>2. CASE Mit!Next /\ UNCHANGED batchVars
  BY <1>2, ChargeMit
<1>3. UNCHANGED <<batchVars, mitVars, session>> => UNCHANGED vars
  BY DEF vars, batchVars
<1> QED
  BY <1>1, <1>2, <1>3 DEF ChargeNext

\* When calls on one batch do not overlap, no attempt is cut short and no error
\* ignored, every session of a completed batch charges or is where a mitigation
\* has put it since, although Execute writes sessions while ProcessBatch does.
THEOREM CompletedBatchesCharge ==
  ASSUME ~Overlap, KnowsSubmitted
  PROVE  ChargeSpec => []CompletedCharges
<1> DEFINE I == /\ MP!Base /\ IInv /\ NamedInv
                /\ "drop" \notin faults => MemberInv
                /\ faults \subseteq {"refuse"} => ChargedInv
<1>1. ChargeInit => I
  BY ChargeBaseInit DEF SettledInv
<1>2. I /\ [ChargeNext]_<<batchVars, mitVars, session>> => I'
  BY ChargeBaseNext, ChargePartsNext
<1>3. I => CompletedCharges
  BY DEF ChargedInv, CompletedCharges
<1> HIDE DEF I
<1> QED
  BY <1>1, <1>2, <1>3, PTL DEF ChargeSpec

\* RollbackUncharges also holds with Execute beside ProcessBatch, when clients
\* ask only for mitigations of types the code knows: Execute writes back the state
\* it read for one of an unknown type, which may make a session charge again.
THEOREM RollbackUnchargesBeside ==
  ASSUME ~Overlap, Submitted \subseteq MitigationTypes
  PROVE  ChargeSpec => []UndoneDoesNotCharge
<1> DEFINE I == /\ MP!Base /\ IInv /\ NamedInv /\ MP!SubmittedTypes
                /\ "drop" \notin faults => MemberInv
                /\ faults \subseteq {"stop"} => UndoInv
<1>0. KnowsSubmitted
  BY DEF KnowsSubmitted
<1>1. ChargeInit => I
  <2>1. ChargeInit => MP!SubmittedTypes
    BY DEF ChargeInit, Mit!Init, MP!SubmittedTypes, Mit!NoRow, MP!NoRow
  <2> QED
    BY <1>0, <2>1, ChargeBaseInit DEF SettledInv
<1>2. I /\ [ChargeNext]_<<batchVars, mitVars, session>> => I'
  <2> SUFFICES ASSUME I, [ChargeNext]_<<batchVars, mitVars, session>> PROVE I'
    OBVIOUS
  <2>1. UNCHANGED mitVars => MP!SubmittedTypes'
    BY DEF mitVars, MP!SubmittedTypes
  <2>2. ASSUME Mit!Next PROVE MP!SubmittedTypes'
    BY <1>0, <2>2, MitAssumptions, MitIsMP, MP!SubmittedTypesNext
  <2>3. MP!SubmittedTypes'
    BY <2>1, <2>2 DEF ChargeNext
  <2>4. MP!Base' /\ IInv' /\ NamedInv'
    BY <1>0, ChargeBaseNext
  <2> QED
    BY <1>0, <2>3, <2>4, ChargePartsNext
<1>3. I => UndoneDoesNotCharge
  BY DEF UndoInv, OpenIsUndone, Undone, UndoneDoesNotCharge
<1> HIDE DEF I
<1> QED
  BY <1>1, <1>2, <1>3, PTL DEF ChargeSpec

\* Nor does a mitigation make an attempt apply again what has succeeded, when
\* calls on one batch do not overlap.
THEOREM SuccessIsNotRepeatedBeside ==
  ASSUME ~Overlap, KnowsSubmitted
  PROVE  ChargeSpec => NotReapplied
<1> DEFINE I == MP!Base /\ IInv /\ NamedInv
<1>1. ChargeInit => I
  BY ChargeBaseInit
<1>2. I /\ [ChargeNext]_<<batchVars, mitVars, session>> => I'
  BY ChargeBaseNext
<1>3. I =>
        \A p \in Attempts : run[p].at = "charge" => item[run[p].batch][run[p].item] # "succeeded"
  BY DEF IInv, Skips
<1>4. I /\ [ChargeNext]_<<batchVars, mitVars, session>> =>
        [\A p \in Attempts :
           run[p].at = "charge" /\ run'[p].at = "mark" =>
             item[run[p].batch][run[p].item] # "succeeded"]_vars
  BY <1>3
<1> HIDE DEF I
<1> QED
  BY <1>1, <1>2, <1>4, PTL DEF ChargeSpec, NotReapplied

-----------------------------------------------------------------------------
(***************************************************************************)
(* All or nothing: BatchFlow implements BatchPromise when no attempt stops *)
(* and no error is ignored.                                                *)
(***************************************************************************)
LEMMA AttemptCharges ==
  ASSUME IInv, ~Overlap, MemberInv, ChargesInBatch,
         NEW p \in Attempts, NEW b \in Batches, NEW r \in Run,
         GoesOn(p, b, r), Acts(p, b, r)
  PROVE  ChargesInBatch'
<1>1. SUFFICES ASSUME NEW s \in Sessions, session'[s].state = "charging"
               PROVE  \E k \in Batches : s \in Items(k)
  BY AttemptItems DEF ChargesInBatch
<1>2. session'[s] = session[s] \/ s \in Items(b)
  BY AttemptSessions DEF SessionBecomes
<1> QED
  BY <1>1, <1>2 DEF ChargesInBatch

LEMMA AttemptPromise ==
  ASSUME ~Overlap, PromiseInv,
         NEW p \in Attempts, NEW b \in Batches, NEW r \in Run,
         GoesOn(p, b, r), Acts(p, b, r)
  PROVE  /\ ChargesInBatch' /\ ChargesForItem' /\ Unmitigated'
         /\ \A q \in Attempts : LeavesAlone(q)' /\ StoredAs(q)'
<1> DEFINE o == run[p]
<1>1. IInv /\ MemberInv /\ ~Lost /\ "stop" \notin faults
  BY DEF PromiseInv, SettledInv, Lost
<1>2. /\ batch[b] \notin {"absent", "completed"}
      /\ \A q \in Attempts \ {p} : run'[q] = run[q] /\ run[q].batch # b
      /\ \A k \in Batches \ {b} : batch'[k] = batch[k]
      /\ \A k \in Batches \ {b}, s \in Sessions : item'[k][s] = item[k][s]
      /\ \A k \in Batches : Items(k)' = Items(k)
      /\ \A k \in Batches \ {b} : \A s \in Items(k) : session'[s] = session[s]
  BY <1>1, AttemptFrame, AttemptItems, Elsewhere
<1>3. /\ HandsOn(p) /\ LeavesAlone(p) /\ StoredAs(p) /\ Local(o) /\ Skips(o)
      /\ o.at # "idle" /\ o.batch = b /\ run'[p] = r
  BY <1>1 DEF MemberInv, PromiseInv, IInv, GoesOn
<1>4. ChargesInBatch'
  BY <1>1, AttemptCharges DEF PromiseInv
\* Of the attempt's own batch: what charges has succeeded or is being marked.
<1>5. \A s \in Items(b) :
        session[s].state = "charging" =>
          item[b][s] = "succeeded" \/ (o.at = "mark" /\ o.item = s)
  BY <1>2 DEF PromiseInv, ChargesForItem
<1>6. /\ \A s \in Items(b) :
           session'[s].state = "charging" =>
             item'[b][s] = "succeeded" \/ (r.batch = b /\ r.at = "mark" /\ r.item = s)
      /\ r.at \in {"fail", "unmark"} => session'[r.item].state # "charging"
  <2>0. Items(b) \subseteq Sessions
    BY DEF Items
  <2>1. CASE Ends(p, b, r)
    <3>1. o.at \in {"begin", "list", "complete", "undo"} /\ item' = item /\ session' = session
      BY <1>1, <2>1 DEF Ends, BatchBecomes, Tables
    <3> QED
      BY <1>5, <2>1, <3>1, IdleRunIsRun DEF Ends
  <2>2. CASE Saves(p, b, r)
    <3>1. o.at \in {"begin", "succeed"} /\ item' = item /\ session' = session
          /\ r.at \notin {"fail", "unmark"}
      BY <2>2 DEF Saves, BatchBecomes, Tables
    <3> QED
      BY <1>5, <3>1
  <2>3. CASE Lists(p, b, r) \/ Turns(p, r)
    <3>1. o.at \in {"list", "next"} /\ item' = item /\ session' = session
          /\ r.at \notin {"fail", "unmark"}
      BY <2>3 DEF Lists, Turns, Tables
    <3> QED
      BY <1>5, <3>1
  <2>4. ASSUME NEW i \in Sessions, Looks(p, r, i)
        PROVE  /\ o.at # "mark" /\ item' = item /\ session' = session
               /\ r.at \in {"fail", "unmark"} => session'[r.item].state # "charging"
    BY <2>4 DEF Looks, Tables
  <2>5. CASE Puts(p, r)
    <3>1. /\ r.item = o.item /\ r.batch = b /\ SessionBecomes(o.item, o.copy)
          /\ \/ o.at = "charge" /\ r.at = "mark"
             \/ o.at = "release" /\ r.at = "unmark" /\ o.copy.state # "charging"
      BY <1>1, <1>3, <2>5 DEF Puts, Same, HandsOn
    <3>2. o.item \in Sessions
      BY <1>3, <3>1 DEF Local
    <3> QED
      BY <1>5, <2>0, <3>1, <3>2 DEF SessionBecomes
  <2>6. CASE Marks(p, b, r)
    <3>1. /\ session' = session /\ r.at \notin {"fail", "unmark"}
          /\ \/ o.at = "mark" /\ ItemBecomes(b, o.item, "succeeded")
             \/ o.at = "fail" /\ ItemBecomes(b, o.item, "failed")
             \/ o.at = "unmark" /\ ItemBecomes(b, o.item, "rolled_back")
      BY <1>1, <2>6 DEF Marks, ItemBecomes
    <3>2. o.at # "mark" => session[o.item].state # "charging"
      BY <1>3, <3>1 DEF LeavesAlone
    <3> QED
      BY <1>5, <2>0, <3>1, <3>2 DEF ItemBecomes
  <2>7. CASE Refuses(p, r)
    <3>1. o.at = "charge" /\ r.at = "fail" /\ r.item = o.item /\ item' = item /\ session' = session
      BY <2>7 DEF Refuses, Tables
    <3>2. o.item \in Items(b) /\ item[b][o.item] # "succeeded"
      BY <1>3, <3>1 DEF HandsOn, Skips
    <3> QED
      BY <1>5, <3>1, <3>2
  <2> QED
    BY <1>5, <2>1, <2>2, <2>3, <2>4, <2>5, <2>6, <2>7 DEF Acts
<1>7. ChargesForItem'
  <2> SUFFICES ASSUME NEW k \in Batches, NEW s \in Items(k), session'[s].state = "charging"
               PROVE  \/ item'[k][s] = "succeeded"
                      \/ \E q \in Attempts :
                           run'[q].batch = k /\ run'[q].at = "mark" /\ run'[q].item = s
    BY <1>2 DEF ChargesForItem
  <2>1. CASE k = b
    BY <1>3, <1>6, <2>1
  <2>2. CASE k # b
    <3>1. s \in Sessions /\ session'[s] = session[s] /\ item'[k][s] = item[k][s]
      BY <1>2, <2>2 DEF Items
    <3>2. CASE item[k][s] = "succeeded"
      BY <3>1, <3>2
    <3>3. CASE item[k][s] # "succeeded"
      <4>1. PICK q \in Attempts : run[q].batch = k /\ run[q].at = "mark" /\ run[q].item = s
        BY <3>1, <3>3 DEF PromiseInv, ChargesForItem
      <4> QED
        BY <1>2, <1>3, <2>2, <4>1
    <3> QED
      BY <3>2, <3>3
  <2> QED
    BY <2>1, <2>2
<1>8. ASSUME NEW q \in Attempts PROVE LeavesAlone(q)' /\ StoredAs(q)'
  <2>1. CASE q = p
    <3>1. LeavesAlone(q)'
      BY <1>3, <1>6, <2>1 DEF LeavesAlone
    <3>2. CASE r.at = "complete"
      <4>1. batch'[b] = "succeeded" /\ r.batch = b
        BY <1>1, <1>3, <3>2, IdleRunIsRun
           DEF Acts, Ends, Saves, Lists, Looks, Puts, Marks, Turns, Refuses, Same, BatchBecomes
      <4> QED
        BY <1>3, <2>1, <3>1, <3>2, <4>1 DEF StoredAs
    <3>3. r.at # "begin"
      BY IdleRunIsRun DEF Acts, Ends, Saves, Lists, Looks, Puts, Marks, Turns, Refuses
    <3> QED
      BY <1>3, <2>1, <3>1, <3>2, <3>3 DEF StoredAs
  <2>2. CASE q # p
    <3>1. /\ run'[q] = run[q] /\ run[q].batch # b /\ Local(run[q]) /\ HandsOn(q)
          /\ LeavesAlone(q) /\ StoredAs(q)
      BY <1>1, <1>2, <2>2 DEF IInv, MemberInv, PromiseInv
    <3>2. CASE run[q].at = "idle"
      BY <3>1, <3>2 DEF LeavesAlone, StoredAs
    <3>3. CASE run[q].at # "idle"
      <4>1. run[q].batch \in Batches \ {b} /\ batch'[run[q].batch] = batch[run[q].batch]
        BY <1>2, <3>1, <3>3 DEF Local
      <4>2. run[q].at \in {"fail", "unmark"} => session'[run[q].item] = session[run[q].item]
        BY <1>2, <3>1, <4>1 DEF HandsOn
      <4> QED
        BY <3>1, <4>1, <4>2 DEF LeavesAlone, StoredAs
    <3> QED
      BY <3>2, <3>3
  <2> QED
    BY <2>1, <2>2
<1>9. Unmitigated'
  <2>1. ASSUME NEW s \in Sessions PROVE session'[s].mitigation = None
    BY <1>3, AttemptSessions, <1>1 DEF PromiseInv, Unmitigated, Puts, SessionBecomes
  <2>2. r.at \in {"charge", "release"} => r.copy.mitigation = None
    BY IdleRunIsRun DEF PromiseInv, Unmitigated, Acts, Ends, Saves, Lists, Looks, Puts, Marks,
                        Turns, Refuses
  <2> QED
    BY <1>2, <1>3, <2>1, <2>2 DEF PromiseInv, Unmitigated
<1> QED
  BY <1>4, <1>7, <1>8, <1>9

LEMMA OtherPromise ==
  ASSUME ~Overlap, PromiseInv, OtherCall
  PROVE  /\ ChargesInBatch' /\ ChargesForItem' /\ Unmitigated'
         /\ \A q \in Attempts : LeavesAlone(q)' /\ StoredAs(q)'
<1>1. IInv /\ MemberInv
  BY DEF PromiseInv, SettledInv
<1>2. \A s \in Sessions : session'[s].state = "charging" <=> session[s].state = "charging"
  BY <1>1, OtherFrame, ReadySession
<1>3. \A k \in Batches : Items(k) \subseteq Items(k)'
  BY <1>1, OtherFrame DEF Items
<1>4. ChargesInBatch'
  BY <1>2, <1>3 DEF PromiseInv, ChargesInBatch
<1>5. ChargesForItem'
  <2> SUFFICES ASSUME NEW k \in Batches, NEW s \in Items(k)', session'[s].state = "charging"
               PROVE  \/ item'[k][s] = "succeeded"
                      \/ \E q \in Attempts :
                           run'[q].batch = k /\ run'[q].at = "mark" /\ run'[q].item = s
    BY DEF ChargesForItem
  <2>1. s \in Sessions /\ session[s].state = "charging"
    BY <1>2 DEF Items
  <2>2. s \notin adding[k]
    <3>1. PICK j \in Batches : s \in Items(j)
      BY <2>1 DEF PromiseInv, ChargesInBatch
    <3> QED
      BY <1>1, <3>1 DEF MemberInv, Apart, ItemsAfterRecord
  <2>3. item'[k][s] = item[k][s]
    BY <1>1, <2>1, <2>2, OtherFrame
  <2>4. CASE item[k][s] = "succeeded"
    BY <2>3, <2>4
  <2>5. CASE item[k][s] # "succeeded"
    <3>1. s \in Items(k)
      BY <2>1, <2>3 DEF Items
    <3>2. PICK q \in Attempts : run[q].batch = k /\ run[q].at = "mark" /\ run[q].item = s
      BY <2>1, <2>5, <3>1 DEF PromiseInv, ChargesForItem
    <3> QED
      BY <1>1, <3>2, OtherFrame
  <2> QED
    BY <2>4, <2>5
<1>6. ASSUME NEW q \in Attempts PROVE LeavesAlone(q)' /\ StoredAs(q)'
  <2>1. /\ LeavesAlone(q) /\ StoredAs(q) /\ Local(run[q])
        /\ run[q].at # "idle" => batch[run[q].batch] \notin {"absent", "completed"}
    BY <1>1 DEF PromiseInv, IInv, Owns
  <2>2. LeavesAlone(q)'
    BY <1>1, <1>2, <2>1, OtherFrame DEF LeavesAlone, Local
  <2>3. CASE run'[q] = run[q]
    <3>1. ASSUME run[q].at \in {"begin", "complete"}
          PROVE  \/ batch'[run[q].batch] = batch[run[q].batch]
                 \/ run[q].at = "begin" /\ batch'[run[q].batch] = "pending"
      BY <1>1, <2>1, <3>1, OtherFrame DEF Local, StoredAs
    <3> QED
      BY <2>1, <2>2, <2>3, <3>1 DEF StoredAs
  <2>4. CASE run'[q] # run[q]
    <3>1. PICK b \in Batches : Start(q, b)
      <4>1. PICK p \in Attempts, b \in Batches : Start(p, b)
        BY <2>4 DEF OtherCall, Create, AddItem, GiveUp, Reset, ListPending, Ready
      <4>2. p = q
        BY <1>1, <2>4, <4>1 DEF Start, IInv, TypeOK
      <4> QED
        BY <4>1, <4>2
    <3>2. /\ run'[q].at = "begin" /\ run'[q].batch = b /\ batch' = batch
      BY <1>1, <3>1 DEF Start, IInv, TypeOK
    <3>3. batch[b] \in {"pending", "processing", "rolled_back"}
      BY <3>1 DEF Start, Validate, BatchTransitions
    <3> QED
      BY <2>2, <3>2, <3>3 DEF StoredAs
  <2> QED
    BY <2>3, <2>4
<1>7. Unmitigated'
  <2>1. \A s \in Sessions : session'[s].mitigation = session[s].mitigation
    BY <1>1, OtherFrame, ReadySession
  <2> QED
    BY <1>1, <2>1, OtherFrame DEF PromiseInv, Unmitigated
<1> QED
  BY <1>4, <1>5, <1>6, <1>7

LEMMA PromiseNext ==
  ASSUME ~Overlap, PromiseInv, [Next]_vars
  PROVE  PromiseInv'
<1>1. SettledInv' /\ faults' = faults
  <2>1. faults' = faults
    BY DEF vars, Next, Create, AddItem, GiveUp, Reset, ListPending, Start, Ready, Refuse, Stop,
           Step, Begin, Succeed, Complete, RollBack, SaveBatch, ListItems, Inspect, InspectUndo,
           Charge, Uncharge, SaveSession, Mark, Fail, Unmark, SaveItem, ItemsDone
  <2> QED
    BY <2>1, SettledNext DEF PromiseInv
<1>2. CASE UNCHANGED vars
  BY <1>1, <1>2 DEF vars, PromiseInv, ChargesInBatch, ChargesForItem, LeavesAlone, StoredAs,
                    Unmitigated, Items
<1>3. CASE OtherCall
  BY <1>1, <1>3, OtherPromise DEF PromiseInv
<1>4. CASE \E p \in Attempts : Step(p) \/ Refuse(p) \/ Stop(p)
  <2>1. IInv
    BY DEF PromiseInv, SettledInv
  <2>2. PICK p \in Attempts, b \in Batches, r \in Run : GoesOn(p, b, r) /\ Acts(p, b, r)
    BY <1>4, <2>1, AttemptActs
  <2> QED
    BY <1>1, <2>2, AttemptPromise DEF PromiseInv
<1> QED
  BY <1>2, <1>3, <1>4, Calls

\* What AllOrNothing sees of a state.
Outcomes == [k \in Batches |-> OutcomeOf(batch[k])]
Members == [k \in Batches |-> Items(k)]
Charging == {s \in Sessions : session[s].state = "charging"}

LEMMA PromiseSees == Promise!vars = <<Outcomes, Members, Charging>>
BY DEF Promise!vars, Outcomes, Members, Charging

LEMMA Outcome ==
  /\ OutcomeOf("absent") = "none" /\ OutcomeOf("pending") = "open"
  /\ OutcomeOf("rolled_back") = "open" /\ OutcomeOf("processing") = "working"
  /\ OutcomeOf("succeeded") = "done" /\ OutcomeOf("completed") = "done"
BY DEF OutcomeOf

\* A step that writes the record of one batch.
LEMMA PromiseMove ==
  ASSUME NEW b \in Batches, NEW to,
         \A k \in Batches : batch'[k] = IF k = b THEN to ELSE batch[k],
         Members' = Members, Charging' = Charging
  PROVE  Promise!Move(b, OutcomeOf(batch[b]), OutcomeOf(to))
<1>1. Outcomes' = [Outcomes EXCEPT ![b] = OutcomeOf(to)] /\ Outcomes[b] = OutcomeOf(batch[b])
  BY DEF Outcomes
<1> QED
  BY <1>1 DEF Promise!Move, Outcomes, Members, Charging

LEMMA AttemptKeepsPromise ==
  ASSUME ~Overlap, PromiseInv,
         NEW p \in Attempts, NEW b \in Batches, NEW r \in Run,
         GoesOn(p, b, r), Acts(p, b, r)
  PROVE  [Promise!Next]_(Promise!vars)
<1> DEFINE o == run[p]
<1>1. IInv /\ MemberInv /\ ~Lost /\ "stop" \notin faults
  BY DEF PromiseInv, SettledInv, Lost
<1>2. Members' = Members
  BY <1>1, AttemptItems DEF Members
<1>3. /\ HandsOn(p) /\ HasCharged(p) /\ StoredAs(p) /\ Local(o)
      /\ o.at # "idle" /\ o.batch = b
  BY <1>1 DEF MemberInv, PromiseInv, SettledInv, ChargedInv, IInv, GoesOn
<1>4. \A s \in Items(b) :
        /\ session[s].mitigation = None
        /\ session[s].state = "charging" =>
             item[b][s] = "succeeded" \/ (o.at = "mark" /\ o.item = s)
  BY <1>1, AttemptFrame DEF PromiseInv, ChargesForItem, Unmitigated, Items
<1>5. ASSUME UNCHANGED <<batch, session>> PROVE UNCHANGED Promise!vars
  BY <1>2, <1>5, PromiseSees DEF Outcomes, Charging, Members, Promise!vars
<1>6. ASSUME NEW to, BatchBecomes(b, to)
      PROVE  Promise!Move(b, OutcomeOf(batch[b]), OutcomeOf(to)) /\ session' = session
  BY <1>2, <1>6, PromiseMove DEF BatchBecomes, Charging
<1>7. CASE Ends(p, b, r)
  <2>1. CASE o.at = "complete" /\ BatchBecomes(b, "completed")
    <3>1. batch[b] = "succeeded"
      BY <1>3, <2>1 DEF StoredAs
    <3>2. Outcomes' = Outcomes /\ session' = session
      BY <2>1, <3>1, Outcome DEF BatchBecomes, Outcomes
    <3> QED
      BY <1>2, <3>2 DEF Promise!vars, Outcomes, Members, Charging
  <2>2. CASE o.at = "undo" /\ o.todo = {} /\ BatchBecomes(b, "rolled_back")
    <3>1. batch[b] = "processing"
      BY <1>3, <2>2 DEF HandsOn
    <3>2. Promise!Move(b, "working", "open")
      BY <1>6, <2>2, <3>1, Outcome
    <3>3. \A s \in Items(b) : session[s].state # "charging"
      <4> SUFFICES ASSUME NEW s \in Items(b), session[s].state = "charging" PROVE FALSE
        OBVIOUS
      <4>1. item[b][s] = "succeeded" /\ s \in Sessions
        BY <1>4, <2>2 DEF Items
      <4>2. PICK q \in Attempts : run[q].batch = b /\ Remembers(run[q], s)
        BY <3>1, <4>1 DEF PromiseInv, SettledInv, ChargedInv, SuccessRemembered
      <4>3. q = p
        BY <1>1, <4>2, AttemptFrame
      <4> QED
        BY <2>2, <4>2, <4>3 DEF Remembers
    <3>4. Promise!Undo(b)
      BY <3>2, <3>3 DEF Promise!Undo
    <3> QED
      BY <3>4 DEF Promise!Next
  <2>3. CASE UNCHANGED Tables
    BY <1>5, <2>3 DEF Tables
  <2> QED
    BY <1>1, <1>7, <2>1, <2>2, <2>3 DEF Ends
<1>8. CASE Saves(p, b, r)
  <2>1. CASE o.at = "begin" /\ BatchBecomes(b, "processing")
    <3>1. Promise!Move(b, OutcomeOf(batch[b]), "working")
      BY <1>6, <2>1, Outcome
    <3>2. CASE batch[b] \in {"pending", "rolled_back"}
      <4>1. Promise!Start(b)
        BY <3>1, <3>2, Outcome DEF Promise!Start
      <4> QED
        BY <4>1 DEF Promise!Next
    <3>3. CASE batch[b] = "processing"
      <4>1. Outcomes' = Outcomes /\ session' = session
        BY <2>1, <3>3 DEF BatchBecomes, Outcomes
      <4> QED
        BY <1>2, <4>1 DEF Promise!vars, Outcomes, Members, Charging
    <3> QED
      BY <1>3, <2>1, <3>2, <3>3 DEF StoredAs
  <2>2. CASE o.at = "succeed" /\ BatchBecomes(b, "succeeded")
    <3>1. batch[b] = "processing"
      BY <1>3, <2>2 DEF HandsOn
    <3>2. Promise!Move(b, "working", "done")
      BY <1>6, <2>2, <3>1, Outcome
    <3>3. \A s \in Items(b) : session[s].state = "charging"
      BY <1>3, <1>4, <2>2 DEF HasCharged, Charged
    <3>4. Promise!Finish(b)
      BY <3>2, <3>3 DEF Promise!Finish, Items
    <3> QED
      BY <3>4 DEF Promise!Next
  <2> QED
    BY <1>1, <1>8, <2>1, <2>2 DEF Saves
<1>9. CASE Puts(p, r)
  <2>1. /\ o.at \in {"charge", "release"} /\ SessionBecomes(o.item, o.copy)
        /\ o.item \in Items(b) /\ o.item \in Sessions /\ batch[b] = "processing"
    BY <1>1, <1>3, <1>9 DEF Puts, HandsOn, Local
  <2>2. PICK i \in Sessions : i = o.item
    BY <2>1
  <2>3. Outcomes' = Outcomes /\ Outcomes[b] = "working"
    BY <2>1, Outcome DEF SessionBecomes, Outcomes
  <2>4. Charging' \in {Charging \cup {i}, Charging \ {i}}
    <3>1. CASE o.copy.state = "charging"
      <4>1. Charging' = Charging \cup {i}
        BY <2>1, <2>2, <3>1 DEF SessionBecomes, Charging
      <4> QED
        BY <4>1
    <3>2. CASE o.copy.state # "charging"
      <4>1. Charging' = Charging \ {i}
        BY <2>1, <2>2, <3>2 DEF SessionBecomes, Charging
      <4> QED
        BY <4>1
    <3> QED
      BY <3>1, <3>2
  <2>5. Promise!Touch(b, i)
    BY <1>2, <2>1, <2>2, <2>3, <2>4 DEF Promise!Touch, Outcomes, Members, Charging
  <2> QED
    BY <2>5 DEF Promise!Next
<1>10. CASE Marks(p, b, r)
  <2>1. UNCHANGED <<batch, session>>
    BY <1>10 DEF Marks, ItemBecomes, Tables
  <2> QED
    BY <1>5, <2>1
<1>11. CASE \/ Lists(p, b, r) \/ Turns(p, r) \/ Refuses(p, r)
            \/ \E s \in Sessions : Looks(p, r, s)
  <2>1. UNCHANGED <<batch, session>>
    BY <1>11 DEF Lists, Turns, Refuses, Looks, Tables
  <2> QED
    BY <1>5, <2>1
<1> QED
  BY <1>7, <1>8, <1>9, <1>10, <1>11 DEF Acts

LEMMA OtherKeepsPromise ==
  ASSUME ~Overlap, PromiseInv, OtherCall
  PROVE  [Promise!Next]_(Promise!vars)
<1>1. IInv /\ MemberInv /\ "drop" \notin faults
  BY DEF PromiseInv, SettledInv
<1>2. ASSUME NEW b \in Batches, NEW S \in SUBSET Sessions, Create(b, S)
      PROVE  [Promise!Next]_(Promise!vars)
  <2>1. /\ batch[b] = "absent" /\ UNCHANGED <<item, session>>
        /\ \A k \in Batches : batch'[k] = IF k = b THEN "pending" ELSE batch[k]
    BY <1>1, <1>2 DEF Create, IInv, TypeOK
  <2>2. Promise!Move(b, "none", "open")
    BY <2>1, PromiseMove, Outcome DEF Members, Charging, Items
  <2> QED
    BY <2>2 DEF Promise!Next, Promise!Create
<1>3. ASSUME NEW b \in Batches, NEW s \in Sessions, AddItem(b, s)
      PROVE  [Promise!Next]_(Promise!vars)
  <2>1. /\ s \in adding[b] /\ UNCHANGED <<batch, session>>
        /\ Items(b)' = Items(b) \cup {s} /\ \A k \in Batches \ {b} : Items(k)' = Items(k)
    BY <1>1, <1>3 DEF AddItem, IInv, TypeOK, Items
  <2>2. batch[b] = "pending" /\ \A k \in Batches : s \notin Items(k)
    BY <1>1, <2>1 DEF MemberInv, ItemsAfterRecord, Apart
  <2>3. Members' = [Members EXCEPT ![b] = @ \cup {s}] /\ Outcomes' = Outcomes
        /\ Charging' = Charging
    BY <2>1 DEF Members, Outcomes, Charging
  <2>4. Outcomes[b] = "open" /\ \A k \in Batches : s \notin Members[k]
    BY <2>2, Outcome DEF Outcomes, Members
  <2>5. Promise!Enroll(b, s)
    BY <2>3, <2>4 DEF Promise!Enroll, Members, Outcomes, Charging
  <2> QED
    BY <2>5 DEF Promise!Next
<1>4. ASSUME NEW b \in Batches, Reset(b) PROVE Outcomes' = Outcomes /\ UNCHANGED <<item, session>>
  <2>1. batch[b] = "rolled_back" /\ (batch' = [batch EXCEPT ![b] = "pending"] \/ batch' = batch)
    BY <1>1, <1>4, WrittenLoses DEF Reset, IInv, ResetIsDue
  <2> QED
    BY <1>1, <1>4, <2>1, Outcome DEF Reset, Outcomes, IInv, TypeOK
<1>5. ASSUME NEW i \in Sessions, Ready(i)
      PROVE  Charging' = Charging /\ UNCHANGED <<item, batch>>
  BY <1>1, <1>5, ReadySession DEF Ready, Charging
<1>6. CASE ListPending \/ \E b \in Batches : GiveUp(b) \/ \E p \in Attempts : Start(p, b)
  BY <1>6 DEF ListPending, GiveUp, Start, Promise!vars, Items
<1>7. CASE \E b \in Batches : Reset(b)
  BY <1>4, <1>7 DEF Promise!vars, Outcomes, Items
<1>8. CASE \E i \in Sessions : Ready(i)
  BY <1>5, <1>8 DEF Promise!vars, Charging, Items
<1> QED
  BY <1>2, <1>3, <1>6, <1>7, <1>8 DEF OtherCall

LEMMA PromiseStep ==
  ASSUME ~Overlap, PromiseInv, [Next]_vars
  PROVE  [Promise!Next]_(Promise!vars)
<1>1. CASE UNCHANGED vars
  BY <1>1 DEF vars, Promise!vars, Items
<1>2. CASE \E p \in Attempts : Step(p) \/ Refuse(p) \/ Stop(p)
  <2>1. IInv
    BY DEF PromiseInv, SettledInv
  <2>2. PICK p \in Attempts, b \in Batches, r \in Run : GoesOn(p, b, r) /\ Acts(p, b, r)
    BY <1>2, <2>1, AttemptActs
  <2> QED
    BY <2>2, AttemptKeepsPromise
<1> QED
  BY <1>1, <1>2, OtherKeepsPromise, Calls

\* When calls on one batch do not overlap and no attempt is cut short, batch
\* processing is all or nothing: ProcessBatch with its compensation implements
\* BatchPromise, although it writes the batch, its items and the sessions one by
\* one and the write of a session may be refused.
THEOREM BatchesAreAtomic ==
  ASSUME ~Overlap, FaultSets \subseteq {{}, {"refuse"}}
  PROVE  Spec => AllOrNothing
<1>1. Init => PromiseInv
  <2> SUFFICES ASSUME Init PROVE PromiseInv
    OBVIOUS
  <2>1. faults \subseteq {"refuse"}
    BY DEF Init
  <2>2. /\ \A b \in Batches : Items(b) = {}
        /\ \A p \in Attempts : run[p] = IdleRun
        /\ \A s \in Sessions : session[s].state # "charging" /\ session[s].mitigation = None
    BY DEF Init, Items
  <2> QED
    BY <2>1, <2>2, SettledInit, IdleRunIsRun
       DEF PromiseInv, ChargesInBatch, ChargesForItem, LeavesAlone, StoredAs, Unmitigated
<1>2. PromiseInv /\ [Next]_vars => PromiseInv'
  BY PromiseNext
<1>3. Init => Promise!Init
  <2> SUFFICES ASSUME Init PROVE Promise!Init
    OBVIOUS
  <2>1. Outcomes = [b \in Batches |-> "none"] /\ Members = [b \in Batches |-> {}] /\ Charging = {}
    BY Outcome DEF Init, Outcomes, Members, Items, Charging
  <2> QED
    BY <2>1 DEF Promise!Init, Outcomes, Members, Charging
<1>4. PromiseInv /\ [Next]_vars => [Promise!Next]_(Promise!vars)
  BY PromiseStep
<1> QED
  BY <1>1, <1>2, <1>3, <1>4, PTL DEF Spec, AllOrNothing, Promise!Spec

=============================================================================
