------------------------------ MODULE BatchInv ------------------------------
(***************************************************************************)
(* The inductive invariants behind the theorems of BatchProofs: what an    *)
(* attempt knows about its batch, its items and their sessions.            *)
(***************************************************************************)
EXTENDS ChargeControl

(***************************************************************************)
(* Of BatchFlow by itself, whichever calls fail.                           *)
(***************************************************************************)

\* What an attempt has in hand at each of its calls.
Local(r) ==
  /\ r.at = "idle" => r.batch = None
  /\ r.at # "idle" => r.batch \in Batches
  /\ r.at \in {"charge", "mark", "fail", "release", "unmark"} => r.item \in Sessions
  /\ r.at \in {"charge", "release"} => r.copy \in SessionRow

\* What it has still to charge is not stored as succeeded.
Skips(r) ==
  /\ r.at \in {"next", "charge", "mark", "fail"} =>
       \A s \in r.todo : item[r.batch][s] # "succeeded"
  /\ r.at \in {"charge", "mark", "fail"} => r.item \notin r.todo
  /\ r.at = "charge" => item[r.batch][r.item] # "succeeded"

\* An attempt has its batch to itself, and that is not completed.
Owns(p) ==
  run[p].at # "idle" =>
    /\ batch[run[p].batch] \notin {"absent", "completed"}
    /\ run[p].batch \notin reset /\ adding[run[p].batch] = {}
    /\ \A q \in Attempts : run[q].batch = run[p].batch => q = p

ResetIsDue == \A b \in reset : batch[b] = "rolled_back"

IInv ==
  /\ TypeOK
  /\ \A p \in Attempts : Local(run[p])
  /\ ~Overlap => ResetIsDue /\ \A p \in Attempts : Owns(p) /\ Skips(run[p])

-----------------------------------------------------------------------------
(***************************************************************************)
(* Of the sessions of batches, when calls on one batch do not overlap and  *)
(* no write is lost unseen.                                                *)
(***************************************************************************)

\* No session is, or is about to be, in two batches.
Apart ==
  \A b, k \in Batches :
    b # k => (Items(b) \cup adding[b]) \cap (Items(k) \cup adding[k]) = {}

\* Items come after the record, each once, and before anything else happens to
\* the batch.
ItemsAfterRecord ==
  \A b \in Batches :
    /\ batch[b] = "absent" => Items(b) = {}
    /\ adding[b] # {} => batch[b] = "pending"
    /\ adding[b] \cap Items(b) = {}

\* An attempt has items of its own batch in hand, and until it ends or succeeds
\* the batch is stored as processing.
HandsOn(p) ==
  LET r == run[p] IN
  /\ r.at = "idle" => r = IdleRun
  /\ r.at # "idle" =>
       /\ r.todo \subseteq Items(r.batch) /\ r.done \subseteq Items(r.batch)
       /\ r.at \in {"charge", "mark", "fail", "release", "unmark"} => r.item \in Items(r.batch)
       /\ r.at = "charge" => r.copy.state = "charging"
       /\ r.at = "release" => r.copy.state = "negotiating"
       /\ r.at \notin {"begin", "complete"} => batch[r.batch] = "processing"

MemberInv == Apart /\ ItemsAfterRecord /\ \A p \in Attempts : HandsOn(p)

(***************************************************************************)
(* When attempts may stop but no single write fails.                       *)
(***************************************************************************)

\* Only batches make sessions charge.
ChargesInBatch ==
  \A s \in Sessions :
    session[s].state = "charging" => \E b \in Batches : s \in Items(b)

Undone(b, s) ==
  item[b][s] \in {"pending", "failed", "rolled_back"} => session[s].state # "charging"

\* Stronger than UndoneDoesNotCharge: neither does one that is yet to be tried.
OpenIsUndone ==
  \A b \in Batches, s \in Sessions :
    batch[b] \in {"rolled_back", "pending"} => Undone(b, s)

\* The items an attempt has listed and not yet dealt with: one of them may
\* still be charged from an attempt that stopped.
Unsettled(r) ==
  CASE r.at \in {"next", "fail"}   -> r.todo
    [] r.at \in {"charge", "mark"} -> r.todo \cup {r.item}
    [] OTHER                       -> {}

Settles(p) ==
  LET r == run[p] IN
  /\ r.at \in {"next", "charge", "mark", "fail", "undo", "release", "unmark"} =>
       \A s \in Sessions \ Unsettled(r) : Undone(r.batch, s)
  /\ r.at \in {"fail", "unmark"} => session[r.item].state # "charging"

UndoInv == ChargesInBatch /\ OpenIsUndone /\ \A p \in Attempts : Settles(p)

(***************************************************************************)
(* When the write of a session may fail, and nothing else.                 *)
(***************************************************************************)

\* The attempt remembers that the item of s succeeded: it was in this attempt,
\* or the attempt has not yet compensated it.
Remembers(r, s) ==
  \/ r.at \in {"next", "charge", "mark", "fail"} /\ s \in r.done
  \/ r.at \in {"succeed", "complete"}
  \/ r.at = "undo" /\ s \in r.todo
  \/ r.at \in {"release", "unmark"} /\ s \in r.todo \cup {r.item}

\* A batch that nobody works on and that is not completed has no item that
\* succeeded, so that the next attempt charges all of them.
SuccessRemembered ==
  \A b \in Batches, s \in Sessions :
    item[b][s] = "succeeded" =>
      \/ batch[b] = "completed"
      \/ \E p \in Attempts : run[p].batch = b /\ Remembers(run[p], s)

Charged(s) == session[s].state = "charging" \/ session[s].mitigation # None

\* As long as no item failed, what the attempt has done charges.
HasCharged(p) ==
  LET r == run[p]
      early == r.at \in {"next", "charge", "mark"}
  IN  (early /\ r.allSucceeded) \/ r.at \in {"succeed", "complete"} =>
        \A s \in Items(r.batch) :
          Charged(s) \/ (early /\ s \in r.todo) \/ (r.at = "charge" /\ s = r.item)

ChargedInv ==
  SuccessRemembered /\ CompletedCharges /\ \A p \in Attempts : HasCharged(p)

\* Each part under the faults it survives.
SettledInv ==
  /\ IInv
  /\ "drop" \notin faults => MemberInv
  /\ faults \subseteq {"stop"} => UndoInv
  /\ faults \subseteq {"refuse"} => ChargedInv

(***************************************************************************)
(* Of the names of mitigations on sessions, whatever overlaps or fails.    *)
(***************************************************************************)

\* The row s of a session, or a copy of one, is in the state its mitigation
\* asks for, and that mitigation is in the table.
Named(s) ==
  s.mitigation # None =>
    /\ mit[s.mitigation].state # "absent"
    /\ s.state = Mit!Effect(mit[s.mitigation].type, s.state)

NamedInv ==
  /\ \A s \in Sessions : Named(session[s])
  /\ \A p \in Attempts : run[p].at \in {"charge", "release"} => Named(run[p].copy)
  /\ \A q \in Requests : at[q] = "saveSession" => Named(copy[q])

-----------------------------------------------------------------------------
(***************************************************************************)
(* What all or nothing rests on, when no attempt stops and no error is     *)
(* ignored: a session charges only for an item that succeeded, or is about *)
(* to be marked so.                                                        *)
(***************************************************************************)
ChargesForItem ==
  \A b \in Batches : \A s \in Items(b) :
    session[s].state = "charging" =>
      \/ item[b][s] = "succeeded"
      \/ \E p \in Attempts : run[p].batch = b /\ run[p].at = "mark" /\ run[p].item = s

\* An attempt that fails an item or rolls it back leaves its session alone.
LeavesAlone(p) ==
  run[p].at \in {"fail", "unmark"} => session[run[p].item].state # "charging"

\* How the batch is stored when an attempt begins and when it completes.
StoredAs(p) ==
  /\ run[p].at = "begin" => batch[run[p].batch] \in {"pending", "processing", "rolled_back"}
  /\ run[p].at = "complete" => batch[run[p].batch] = "succeeded"

\* Batches by themselves name no mitigation.
Unmitigated ==
  /\ \A s \in Sessions : session[s].mitigation = None
  /\ \A p \in Attempts : run[p].at \in {"charge", "release"} => run[p].copy.mitigation = None

PromiseInv ==
  /\ faults \subseteq {"refuse"}
  /\ SettledInv
  /\ ChargesInBatch /\ ChargesForItem
  /\ \A p \in Attempts : LeavesAlone(p) /\ StoredAs(p)
  /\ Unmitigated
=============================================================================
