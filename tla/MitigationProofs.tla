-------------------------- MODULE MitigationProofs --------------------------
(***************************************************************************)
(* Theorems about MitigationFlow for any sets of sessions, mitigations and *)
(* requests.                                                               *)
(***************************************************************************)
EXTENDS MitigationInv, TLAPS

(***************************************************************************)
(* Facts about rows and about SaveTx, the one operation that writes them.  *)
(***************************************************************************)

\* A row of the table is not the absent row, and belongs to a session.
LEMMA RowFacts ==
  ASSUME NEW r \in Row
  PROVE  /\ r # NoRow
         /\ r.id \in Mitigations /\ r.session \in Sessions
         /\ r.type \in Types /\ r.state \in MitigationStates
         /\ \A st \in MitigationStates :
              /\ [r EXCEPT !.state = st] \in Row
              /\ [r EXCEPT !.state = st].id = r.id
              /\ [r EXCEPT !.state = st].session = r.session
              /\ [r EXCEPT !.state = st].type = r.type
              /\ [r EXCEPT !.state = st].state = st
BY NoneIsNoId DEF Row, NoRow, MitigationStates

\* The absent row is not open, and a row with another session or an open
\* state is not absent.
LEMMA NoRowFacts ==
  /\ NoRow.state = "absent" /\ NoRow.session = None /\ NoRow.id = None
  /\ ~IsMitigationActive(NoRow.state)
BY DEF NoRow, IsMitigationActive

\* Saving a well-formed row keeps the tables well-formed.
LEMMA SaveTxTypes ==
  ASSUME TypeOK, KeysOK, NEW r \in Row, SaveTx(r)
  PROVE  /\ mit' \in [Mitigations -> Row \cup {NoRow}]
         /\ active' \in [Sessions -> Mitigations \cup {None}]
         /\ approved' \subseteq Mitigations
         /\ mit'[r.id] = r
         /\ \A m \in Mitigations \ {r.id} : mit'[m] = mit[m]
         /\ KeysOK'
<1>1. r.id \in Mitigations /\ r.session \in Sessions /\ r # NoRow
  BY RowFacts
<1>2. mit' = [mit EXCEPT ![r.id] = r] /\ mit \in [Mitigations -> Row \cup {NoRow}]
  BY DEF SaveTx, TypeOK
<1>3. /\ mit' \in [Mitigations -> Row \cup {NoRow}]
      /\ mit'[r.id] = r
      /\ \A m \in Mitigations \ {r.id} : mit'[m] = mit[m]
  BY <1>1, <1>2
<1>4. active' \in [Sessions -> Mitigations \cup {None}]
  BY <1>1 DEF SaveTx, TypeOK
<1>5. approved' \subseteq Mitigations
  BY <1>1 DEF SaveTx, TypeOK
<1>6. KeysOK'
  BY <1>1, <1>3 DEF KeysOK
<1>7. QED
  BY <1>3, <1>4, <1>5, <1>6

-----------------------------------------------------------------------------
(***************************************************************************)
(* The base invariant.                                                     *)
(***************************************************************************)

LEMMA BaseInit == Init => Base
<1> SUFFICES ASSUME Init PROVE Base
  OBVIOUS
<1>1. TypeOK
  BY DEF Init, TypeOK, SessionRow, SessionStates
<1>2. KeysOK
  BY DEF Init, KeysOK
<1>3. \A p \in Requests : RequestOK(p) /\ CopyOK(p)
  BY DEF Init, RequestOK, CopyOK, Writing, Executing
<1>4. QED
  BY <1>1, <1>2, <1>3 DEF Base

\* Begin keeps the base when it takes a fresh id for a submission, or a row
\* of the table for anything else.
LEMMA BeginBase ==
  ASSUME Base, NEW p \in Requests, NEW r \in Row, NEW next \in Writing,
         Begin(p, next, r),
         next \in {"submit", "save", "executing"},
         next = "submit" =>
           r.state = "pending" /\ mit[r.id] = NoRow /\ ~HeldByAnother(r.id),
         next = "save" => r.state \in {"issued", "retest_required", "withdrawn"},
         next = "executing" => r.state = "executing",
         next # "submit" =>
           mit[r.id] # NoRow /\ mit[r.id].session = r.session /\ mit[r.id].type = r.type
  PROVE  Base'
<1>1. TypeOK'
  BY DEF Base, TypeOK, Begin
<1>2. KeysOK'
  BY DEF Base, KeysOK, Begin
<1>3. ASSUME NEW q \in Requests PROVE RequestOK(q)'
  <2>1. CASE q = p
    BY <2>1 DEF Base, TypeOK, RequestOK, Begin, Executing
  <2>2. CASE q # p
    BY <2>2 DEF Base, TypeOK, RequestOK, Begin
  <2>3. QED
    BY <2>1, <2>2
<1>4. ASSUME NEW q \in Requests PROVE CopyOK(q)'
  <2>1. CASE q = p
    BY <2>1 DEF Base, TypeOK, CopyOK, Begin, HeldByAnother, Writing
  <2>2. CASE q # p
    BY <2>2 DEF Base, TypeOK, CopyOK, Begin, HeldByAnother, Writing
  <2>3. QED
    BY <2>1, <2>2
<1>5. QED
  BY <1>1, <1>2, <1>3, <1>4 DEF Base

\* A write of a row keeps the base: the writer moves on with a copy that
\* agrees with what it wrote, and no other request's copy is disturbed.
LEMMA WriteBase ==
  ASSUME Base, NEW p \in Requests, NEW r \in Row,
         NEW next \in {"record", "getSession"},
         at[p] \in Writing, SaveTx(r),
         r.id = row[p].id, r.session = row[p].session, r.type = row[p].type,
         next = "getSession" => r.state = "executing",
         row' = [row EXCEPT ![p] = r],
         at' = [at EXCEPT ![p] = next],
         UNCHANGED <<session, told, copy, applied>>
  PROVE  Base'
<1> USE DEF Base
<1>1. /\ mit' \in [Mitigations -> Row \cup {NoRow}]
      /\ active' \in [Sessions -> Mitigations \cup {None}]
      /\ approved' \subseteq Mitigations
      /\ mit'[r.id] = r
      /\ \A m \in Mitigations \ {r.id} : mit'[m] = mit[m]
      /\ KeysOK'
  BY SaveTxTypes
<1>2. TypeOK'
  BY <1>1 DEF TypeOK, Writing
<1>3. ASSUME NEW q \in Requests PROVE RequestOK(q)'
  <2>1. CASE q = p
    BY <2>1 DEF TypeOK, RequestOK, Executing
  <2>2. CASE q # p
    BY <2>2 DEF TypeOK, RequestOK
  <2>3. QED
    BY <2>1, <2>2
<1>4. r # NoRow /\ r.id \in Mitigations
  BY RowFacts
<1>5. ASSUME NEW q \in Requests PROVE CopyOK(q)'
  <2>1. CASE q = p
    BY <2>1, <1>1, <1>4 DEF TypeOK, CopyOK, Writing
  <2>2. CASE q # p
    <3>1. at'[q] = at[q] /\ row'[q] = row[q] /\ CopyOK(q) /\ CopyOK(p) /\ RequestOK(q)
      BY <2>2 DEF TypeOK
    <3>2. at[q] \in Writing => row[q].id \in Mitigations
      BY <3>1, RowFacts DEF RequestOK, Writing
    <3>3. CASE at[q] = "submit"
      <4>1. row[q].id # row[p].id
        BY <3>1, <3>3, <2>2 DEF CopyOK
      <4>2. mit'[row[q].id] = NoRow
        BY <4>1, <3>1, <3>2, <3>3, <1>1 DEF CopyOK, Writing
      <4>3. ASSUME NEW k \in Requests \ {q}, at'[k] \in Writing
            PROVE  row'[k].id # row'[q].id
        BY <3>1, <3>3, <4>1, <4>3 DEF CopyOK, TypeOK, Writing
      <4>4. QED
        BY <3>1, <3>3, <4>2, <4>3 DEF CopyOK
    <3>4. CASE at[q] \in Writing \ {"submit"}
      <4>1. CASE row[q].id = r.id
        <5>1. mit'[row[q].id] = r
          BY <4>1, <1>1
        <5>2. at[p] # "submit"
          BY <4>1, <3>1, <3>4, <2>2 DEF CopyOK
        <5>3. mit[r.id].session = r.session /\ mit[r.id].type = r.type
          BY <5>2, <3>1 DEF CopyOK
        <5>4. QED
          BY <3>1, <3>4, <4>1, <5>1, <5>3, <1>4 DEF CopyOK
      <4>2. CASE row[q].id # r.id
        BY <4>2, <3>1, <3>2, <3>4, <1>1 DEF CopyOK
      <4>3. QED
        BY <4>1, <4>2
    <3>5. CASE at[q] \notin Writing
      BY <3>1, <3>5 DEF CopyOK, Writing
    <3>6. QED
      BY <3>3, <3>4, <3>5
  <2>3. QED
    BY <2>1, <2>2
<1>6. QED
  BY <1>1, <1>2, <1>3, <1>5

\* What Get and Validate tell the requests that go on.
LEMMA MayBecomeFacts ==
  ASSUME Base, NEW m \in Mitigations, NEW st \in MitigationStates, MayBecome(m, st)
  PROVE  LET r == [mit[m] EXCEPT !.state = st]
         IN  /\ r \in Row /\ r.id = m /\ r.state = st
             /\ mit[r.id] # NoRow /\ mit[r.id].session = r.session
             /\ mit[r.id].type = r.type /\ mit[m].type = r.type
<1>1. mit[m] \in Row /\ mit[m].id = m /\ mit[m] # NoRow
  BY DEF Base, TypeOK, KeysOK, MayBecome
<1>2. QED
  BY <1>1, RowFacts

\* Steps that change neither the tables of mitigations nor the writing
\* requests: the base holds if the one request that moves is in order.
LEMMA LocalBase ==
  ASSUME Base, TypeOK', NEW p \in Requests, UNCHANGED mit,
         RequestOK(p)', CopyOK(p)',
         \A q \in Requests \ {p} :
           at'[q] = at[q] /\ row'[q] = row[q] /\ copy'[q] = copy[q],
         at'[p] \in Writing => at[p] \in Writing /\ row'[p].id = row[p].id
  PROVE  Base'
<1>1. KeysOK'
  BY DEF Base, KeysOK
<1>2. \A q \in Requests : RequestOK(q)'
  BY DEF Base, RequestOK
<1>3. \A q \in Requests : CopyOK(q)'
  BY DEF Base, CopyOK
<1>4. QED
  BY <1>1, <1>2, <1>3 DEF Base

LEMMA BaseNext == Base /\ [Next]_vars => Base'
<1> SUFFICES ASSUME Base, [Next]_vars PROVE Base'
  OBVIOUS
<1>1. ASSUME NEW p \in Requests, NEW s \in Sessions, NEW m \in Mitigations,
             NEW t \in Submitted, StartSubmit(p, s, m, t)
      PROVE  Base'
  <2> DEFINE r == [id |-> m, session |-> s, type |-> t, state |-> "pending"]
  <2>1. r \in Row /\ r.state = "pending" /\ r.id = m
    BY SubmittedAreTypes DEF Row, Types, MitigationStates
  <2>2. Begin(p, "submit", r) /\ mit[r.id] = NoRow /\ ~HeldByAnother(r.id)
    BY <1>1, <2>1 DEF StartSubmit
  <2> HIDE DEF r
  <2>3. QED
    BY <2>1, <2>2, BeginBase DEF Writing
<1>2. ASSUME NEW p \in Requests, SubmitTx(p) PROVE Base'
  <2> DEFINE st == IF active[row[p].session] # None THEN "lost" ELSE "pending"
             r  == [row[p] EXCEPT !.state = st]
  <2>1. row[p] \in Row /\ at[p] \in Writing
    BY <1>2 DEF SubmitTx, Base, RequestOK, Writing
  <2>2. st \in MitigationStates
    BY DEF MitigationStates
  <2> HIDE DEF st
  <2>3. r \in Row /\ r.id = row[p].id /\ r.session = row[p].session /\ r.type = row[p].type
    BY <2>1, <2>2, RowFacts
  <2>4. /\ SaveTx(r) /\ row' = [row EXCEPT ![p] = r]
        /\ at' = [at EXCEPT ![p] = "record"]
        /\ UNCHANGED <<session, told, copy, applied>>
    BY <1>2 DEF SubmitTx, st
  <2> HIDE DEF r
  <2>5. QED
    BY <2>1, <2>3, <2>4, WriteBase
<1>3. ASSUME NEW p \in Requests, NEW m \in Mitigations,
             NEW d \in {"issued", "retest_required"}, StartReview(p, m, d)
      PROVE  Base'
  <2> DEFINE r == [mit[m] EXCEPT !.state = d]
  <2>1. /\ r \in Row /\ r.state = d
        /\ mit[r.id] # NoRow /\ mit[r.id].session = r.session /\ mit[r.id].type = r.type
    <3>1. d \in MitigationStates /\ MayBecome(m, d)
      BY <1>3 DEF StartReview, MitigationStates
    <3>2. QED
      BY <3>1, MayBecomeFacts
  <2>2. Begin(p, "save", r)
    BY <1>3 DEF StartReview
  <2> HIDE DEF r
  <2>3. QED
    BY <2>1, <2>2, BeginBase DEF Writing
<1>4. ASSUME NEW p \in Requests, NEW m \in Mitigations, StartWithdraw(p, m)
      PROVE  Base'
  <2> DEFINE r == [mit[m] EXCEPT !.state = "withdrawn"]
  <2>1. /\ r \in Row /\ r.state = "withdrawn"
        /\ mit[r.id] # NoRow /\ mit[r.id].session = r.session /\ mit[r.id].type = r.type
    <3>1. "withdrawn" \in MitigationStates /\ MayBecome(m, "withdrawn")
      BY <1>4 DEF StartWithdraw, MitigationStates
    <3>2. QED
      BY <3>1, MayBecomeFacts
  <2>2. Begin(p, "save", r)
    BY <1>4 DEF StartWithdraw
  <2> HIDE DEF r
  <2>3. QED
    BY <2>1, <2>2, BeginBase DEF Writing
<1>5. ASSUME NEW p \in Requests, NEW m \in Mitigations, StartExecute(p, m)
      PROVE  Base'
  <2> DEFINE r == [mit[m] EXCEPT !.state = "executing"]
  <2>1. /\ r \in Row /\ r.state = "executing"
        /\ mit[r.id] # NoRow /\ mit[r.id].session = r.session /\ mit[r.id].type = r.type
    <3>1. "executing" \in MitigationStates /\ MayBecome(m, "executing")
      BY <1>5 DEF StartExecute, MitigationStates
    <3>2. QED
      BY <3>1, MayBecomeFacts
  <2>2. Begin(p, "executing", r)
    BY <1>5 DEF StartExecute
  <2> HIDE DEF r
  <2>3. QED
    BY <2>1, <2>2, BeginBase DEF Writing
<1>6. ASSUME NEW p \in Requests, Save(p) \/ SaveExecuting(p) \/ SaveCompleted(p)
      PROVE  Base'
  <2>1. /\ row[p] \in Row /\ at[p] \in Writing
        /\ SaveExecuting(p) => row[p].state = "executing"
    BY <1>6 DEF Save, SaveExecuting, SaveCompleted, Base, RequestOK, Writing, Executing
  <2>2. row' = [row EXCEPT ![p] = row[p]]
    BY <1>6 DEF Save, SaveExecuting, SaveCompleted, Base, TypeOK
  <2>3. CASE SaveExecuting(p)
    BY <2>1, <2>2, <2>3, WriteBase DEF SaveExecuting
  <2>4. CASE Save(p) \/ SaveCompleted(p)
    BY <2>1, <2>2, <2>4, WriteBase DEF Save, SaveCompleted
  <2>5. QED
    BY <1>6, <2>3, <2>4
<1>7. ASSUME NEW p \in Requests, GetSession(p) PROVE Base'
  <2> DEFINE st == Effect(row[p].type, session[row[p].session].state)
  <2>1. row[p] \in Row /\ row[p].state = "executing" /\ at[p] = "getSession"
    BY <1>7 DEF GetSession, Base, RequestOK, Executing
  <2>2. st \in SessionStates
    <3>1. session[row[p].session].state \in SessionStates
      BY <2>1, RowFacts DEF Base, TypeOK, SessionRow
    <3>2. QED
      BY <3>1 DEF Effect, SessionStates
  <2> HIDE DEF st
  <2>3. [state |-> st, mitigation |-> row[p].id] \in SessionRow
    BY <2>1, <2>2, RowFacts DEF SessionRow
  <2>4. /\ copy' = [copy EXCEPT ![p] = [state |-> st, mitigation |-> row[p].id]]
        /\ at' = [at EXCEPT ![p] = "saveSession"]
        /\ UNCHANGED <<mit, active, session, told, row, approved, applied>>
    BY <1>7 DEF GetSession, st
  <2>5. TypeOK'
    BY <2>3, <2>4 DEF Base, TypeOK, Writing
  <2>6. RequestOK(p)'
    BY <2>1, <2>3, <2>4 DEF Base, TypeOK, RequestOK, Executing
  <2>7. CopyOK(p)'
    BY <2>1, <2>4 DEF Base, TypeOK, CopyOK, Writing
  <2>8. QED
    BY <2>1, <2>4, <2>5, <2>6, <2>7, LocalBase DEF Base, TypeOK, Writing
<1>8. ASSUME NEW p \in Requests, SaveSession(p) PROVE Base'
  <2> DEFINE r == [row[p] EXCEPT !.state = "completed"]
  <2>1. /\ row[p] \in Row /\ at[p] = "saveSession" /\ copy[p] \in SessionRow
    BY <1>8 DEF SaveSession, Base, RequestOK
  <2>2. /\ r \in Row /\ r.id = row[p].id /\ r.state = "completed"
        /\ r.session = row[p].session /\ r.type = row[p].type
    <3>1. "completed" \in MitigationStates
      BY DEF MitigationStates
    <3>2. QED
      BY <2>1, <3>1, RowFacts
  <2>3. /\ row' = [row EXCEPT ![p] = r]
        /\ at' = [at EXCEPT ![p] = "complete"]
        /\ copy' = [copy EXCEPT ![p] = NoSession]
        /\ session' = [session EXCEPT ![row[p].session] = copy[p]]
        /\ applied' = applied \cup {row[p].id}
        /\ UNCHANGED <<mit, active, told, approved>>
    BY <1>8 DEF SaveSession
  <2> HIDE DEF r
  <2>4. TypeOK'
    BY <2>1, <2>2, <2>3, RowFacts DEF Base, TypeOK, Writing
  <2>5. RequestOK(p)'
    BY <2>2, <2>3 DEF Base, TypeOK, RequestOK, Executing
  <2>6. CopyOK(p)'
    BY <2>1, <2>2, <2>3 DEF Base, TypeOK, CopyOK, Writing
  <2>7. QED
    BY <2>1, <2>2, <2>3, <2>4, <2>5, <2>6, LocalBase DEF Base, TypeOK, Writing
<1>9. ASSUME NEW p \in Requests, Record(p) \/ Abort(p) PROVE Base'
  <2>1. /\ at' = [at EXCEPT ![p] = "idle"] /\ row' = [row EXCEPT ![p] = NoRow]
        /\ copy' = copy \/ copy' = [copy EXCEPT ![p] = NoSession]
        /\ told' = told \/ (at[p] = "record" /\ told' = [told EXCEPT ![row[p].id] = row[p].state])
        /\ UNCHANGED <<mit, active, session, approved, applied>>
    BY <1>9 DEF Record, Abort
  <2>2. at[p] = "record" => row[p] \in Row
    BY DEF Base, RequestOK
  <2>3. TypeOK'
    BY <2>1, <2>2, RowFacts DEF Base, TypeOK
  <2>4. RequestOK(p)' /\ CopyOK(p)' /\ at'[p] \notin Writing
    BY <2>1 DEF Base, TypeOK, RequestOK, CopyOK, Writing, Executing
  <2>5. QED
    BY <2>1, <2>3, <2>4, LocalBase DEF Base, TypeOK
<1>10. CASE UNCHANGED vars
  BY <1>10 DEF Base, TypeOK, KeysOK, RequestOK, CopyOK, vars
<1>11. QED
  BY <1>1, <1>2, <1>3, <1>4, <1>5, <1>6, <1>7, <1>8, <1>9, <1>10 DEF Next

\* Every row, index entry and copy keeps the type its table or variable has,
\* in every interleaving of requests and wherever one of them fails.
THEOREM TypeCorrect == Spec => []TypeOK
<1>1. Base => TypeOK
  BY DEF Base
<1>2. QED
  BY <1>1, BaseInit, BaseNext, PTL DEF Spec

-----------------------------------------------------------------------------
(***************************************************************************)
(* The index is sound, whatever overlaps.                                  *)
(***************************************************************************)

\* The row r is what request p writes at its present step.
WrittenBy(p, r) ==
  /\ at[p] \in Writing /\ r.id = row[p].id
  /\ r.session = row[p].session /\ r.type = row[p].type
  /\ \/ at[p] = "submit"
        /\ r.state = IF active[r.session] # None THEN "lost" ELSE "pending"
     \/ at[p] \in {"save", "executing", "complete"} /\ r = row[p]

\* The whole step of a request that writes r.
Writes(p, r) ==
  /\ SaveTx(r) /\ WrittenBy(p, r)
  /\ UNCHANGED <<session, applied, copy, told>>
  /\ row' = [row EXCEPT ![p] = r]
  /\ at' = [at EXCEPT ![p] = IF at[p] = "executing" THEN "getSession" ELSE "record"]

\* What SubmitTx and the Saves of request p do.
LEMMA RequestWrites ==
  ASSUME Base, NEW p \in Requests,
         SubmitTx(p) \/ Save(p) \/ SaveExecuting(p) \/ SaveCompleted(p)
  PROVE  \E r \in Row : Writes(p, r)
<1>1. CASE SubmitTx(p)
  <2> DEFINE st == IF active[row[p].session] # None THEN "lost" ELSE "pending"
             r  == [row[p] EXCEPT !.state = st]
  <2>1. row[p] \in Row /\ at[p] = "submit"
    BY <1>1 DEF SubmitTx, Base, RequestOK
  <2>2. st \in MitigationStates
    BY DEF MitigationStates
  <2>3. /\ SaveTx(r) /\ row' = [row EXCEPT ![p] = r]
        /\ at' = [at EXCEPT ![p] = "record"]
        /\ UNCHANGED <<session, told, copy, applied>>
    BY <1>1 DEF SubmitTx
  <2> HIDE DEF st
  <2>4. /\ r \in Row /\ r.id = row[p].id /\ r.state = st
        /\ r.session = row[p].session /\ r.type = row[p].type
    BY <2>1, <2>2, RowFacts
  <2> HIDE DEF r
  <2>5. WrittenBy(p, r)
    BY <2>1, <2>4 DEF WrittenBy, Writing, st
  <2>6. QED
    BY <2>1, <2>3, <2>4, <2>5 DEF Writes
<1>2. CASE Save(p) \/ SaveExecuting(p) \/ SaveCompleted(p)
  <2>1. row[p] \in Row /\ WrittenBy(p, row[p])
    BY <1>2 DEF Save, SaveExecuting, SaveCompleted, Base, RequestOK, WrittenBy, Writing
  <2>2. /\ row' = [row EXCEPT ![p] = row[p]] /\ SaveTx(row[p])
        /\ UNCHANGED <<session, applied, copy, told>>
    BY <1>2 DEF Save, SaveExecuting, SaveCompleted, Base, TypeOK
  <2>3. at' = [at EXCEPT ![p] =
                 IF at[p] = "executing" THEN "getSession" ELSE "record"]
    BY <1>2 DEF Save, SaveExecuting, SaveCompleted
  <2>4. QED
    BY <2>1, <2>2, <2>3 DEF Writes
<1>3. QED
  BY <1>1, <1>2

\* A step leaves the tables of mitigations alone or is one request's SaveTx.
LEMMA TableSteps ==
  ASSUME Base, [Next]_vars
  PROVE  UNCHANGED <<mit, active, approved>> \/ \E p \in Requests, r \in Row : Writes(p, r)
<1>1. CASE \E p \in Requests :
             SubmitTx(p) \/ Save(p) \/ SaveExecuting(p) \/ SaveCompleted(p)
  BY <1>1, RequestWrites
<1>2. UNCHANGED <<mit, active, approved>>
        \/ \E p \in Requests :
             SubmitTx(p) \/ Save(p) \/ SaveExecuting(p) \/ SaveCompleted(p)
  BY DEF Next, vars, StartSubmit, StartReview, StartWithdraw, StartExecute, Begin,
         GetSession, SaveSession, Record, Abort
<1>3. QED
  BY <1>1, <1>2

\* A row that is there already keeps session and type when it is written again.
LEMMA SameSession ==
  ASSUME Base, NEW p \in Requests, NEW r \in Row, WrittenBy(p, r)
  PROVE  IF at[p] = "submit" THEN mit[r.id] = NoRow
         ELSE mit[r.id] # NoRow /\ mit[r.id].session = r.session /\ mit[r.id].type = r.type
BY DEF Base, CopyOK, WrittenBy

\* SaveTx keeps the index sound: it claims for an open row only, releases the
\* claim of a row that closes, and leaves every other claim in place.
LEMMA SaveTxSound ==
  ASSUME Base, IndexSound, NEW r \in Row, SaveTx(r),
         mit[r.id] = NoRow \/ mit[r.id].session = r.session
  PROVE  IndexSound'
<1>1. /\ mit'[r.id] = r
      /\ \A m \in Mitigations \ {r.id} : mit'[m] = mit[m]
  BY SaveTxTypes DEF Base
<1>2. /\ r.id \in Mitigations /\ r.session \in Sessions /\ None \notin Mitigations
  BY RowFacts, NoneIsNoId
<1>3. active \in [Sessions -> Mitigations \cup {None}]
  BY DEF Base, TypeOK
<1>4. /\ \A s \in Sessions \ {r.session} : active'[s] = active[s]
      /\ active'[r.session] =
           IF IsMitigationActive(r.state)
           THEN IF active[r.session] = None THEN r.id ELSE active[r.session]
           ELSE IF active[r.session] = r.id THEN None ELSE active[r.session]
  BY <1>2, <1>3 DEF SaveTx
<1>5. ASSUME NEW s \in Sessions, NEW m \in Mitigations, active'[s] = m
      PROVE  mit'[m].session = s /\ IsMitigationActive(mit'[m].state)
  <2>1. CASE m # r.id
    <3>1. active[s] = m
      BY <2>1, <1>2, <1>4, <1>5
    <3>2. QED
      BY <2>1, <3>1, <1>1 DEF IndexSound
  <2>2. CASE m = r.id /\ s = r.session
    <3>1. IsMitigationActive(r.state)
      BY <2>2, <1>2, <1>4, <1>5
    <3>2. QED
      BY <2>2, <3>1, <1>1
  <2>3. CASE m = r.id /\ s # r.session
    <3>1. active[s] = m
      BY <2>3, <1>4, <1>5
    <3>2. mit[m].session = s /\ IsMitigationActive(mit[m].state)
      BY <3>1 DEF IndexSound
    <3>3. QED
      BY <2>3, <3>2, NoRowFacts
  <2>4. QED
    BY <2>1, <2>2, <2>3
<1>6. QED
  BY <1>5 DEF IndexSound

LEMMA IndexSoundNext == Base /\ IndexSound /\ [Next]_vars => IndexSound'
<1> SUFFICES ASSUME Base, IndexSound, [Next]_vars PROVE IndexSound'
  OBVIOUS
<1>1. CASE UNCHANGED <<mit, active, approved>>
  BY <1>1 DEF IndexSound
<1>2. ASSUME NEW p \in Requests, NEW r \in Row, Writes(p, r)
      PROVE  IndexSound'
  BY <1>2, SameSession, SaveTxSound DEF Writes
<1>3. QED
  BY <1>1, <1>2, TableSteps

\* A claim in active_mitigations always belongs to an open mitigation of that
\* very session, however requests overlap and wherever they fail: Submit never
\* refuses because of a claim that nobody holds.
THEOREM IndexIsSound == Spec => []IndexSound
<1>1. Init => IndexSound
  BY NoneIsNoId DEF Init, IndexSound
<1>2. QED
  BY <1>1, BaseInit, BaseNext, IndexSoundNext, PTL DEF Spec

-----------------------------------------------------------------------------
(***************************************************************************)
(* Approval comes before execution, execution before completion.           *)
(***************************************************************************)

\* One request moves in a step.  It begins, and nothing else changes; or it
\* reads or writes its session; or it writes a row; or it ends.
Moves(p) ==
  /\ p \in Requests
  /\ \A q \in Requests \ {p} : at'[q] = at[q] /\ row'[q] = row[q] /\ copy'[q] = copy[q]

LEMMA OneMoves ==
  ASSUME Base, NEW p \in Requests,
         \/ \E s \in Sessions, m \in Mitigations, t \in Submitted : StartSubmit(p, s, m, t)
         \/ SubmitTx(p)
         \/ \E m \in Mitigations, d \in {"issued", "retest_required"} : StartReview(p, m, d)
         \/ \E m \in Mitigations : StartWithdraw(p, m)
         \/ Save(p)
         \/ \E m \in Mitigations : StartExecute(p, m)
         \/ SaveExecuting(p)
         \/ GetSession(p)
         \/ SaveSession(p)
         \/ SaveCompleted(p)
         \/ Record(p)
         \/ Abort(p)
  PROVE  Moves(p)
BY DEF Base, TypeOK, Moves, StartSubmit, SubmitTx, StartReview, StartWithdraw, Save,
       StartExecute, SaveExecuting, GetSession, SaveSession, SaveCompleted, Record,
       Abort, Begin

\* The steps that are no SaveTx, seen from the request that takes them.
Starts(p) ==
  \E r \in Row :
    /\ at[p] = "idle" /\ row' = [row EXCEPT ![p] = r]
    /\ Overlap \/ ~HeldByAnother(r.id)
    /\ UNCHANGED <<session, applied, copy, told>>
    /\ \/ /\ at' = [at EXCEPT ![p] = "submit"]
          /\ ~HeldByAnother(r.id) /\ mit[r.id] = NoRow /\ r.type \in Submitted
       \/ /\ at' = [at EXCEPT ![p] = "save"]
          /\ mit[r.id] # NoRow /\ r.type = mit[r.id].type
          /\ r.state \in {"issued", "retest_required", "withdrawn"}
          /\ Validate(MitigationTransitions, mit[r.id].state, r.state)
          /\ IsMitigationActive(r.state) => IsMitigationActive(mit[r.id].state)
       \/ /\ at' = [at EXCEPT ![p] = "executing"]
          /\ mit[r.id] # NoRow /\ r.type = mit[r.id].type
          /\ mit[r.id].state \in {"issued", "executing"}

ReadsSession(p) ==
  /\ at[p] = "getSession" /\ at' = [at EXCEPT ![p] = "saveSession"]
  /\ UNCHANGED <<row, session, applied, told>>

WritesSession(p) ==
  /\ at[p] = "saveSession" /\ at' = [at EXCEPT ![p] = "complete"]
  /\ row[p] \in Row
  /\ \E r \in Row : /\ r.id = row[p].id /\ r.state = "completed"
                    /\ r.session = row[p].session /\ r.type = row[p].type
                    /\ row' = [row EXCEPT ![p] = r]
  /\ session' = [session EXCEPT ![row[p].session] = copy[p]]
  /\ copy[p] \in SessionRow /\ copy[p].mitigation = row[p].id
  /\ applied' = applied \cup {row[p].id}
  /\ UNCHANGED told

Ends(p) ==
  /\ at' = [at EXCEPT ![p] = "idle"]
  /\ UNCHANGED <<session, applied>>
  /\ \/ UNCHANGED told
     \/ at[p] = "record" /\ told' = [told EXCEPT ![row[p].id] = row[p].state]

LEMMA OtherSteps ==
  ASSUME Base, [Next]_vars
  PROVE  \/ \E p \in Requests, r \in Row : Writes(p, r)
         \/ /\ UNCHANGED <<mit, active, approved>>
            /\ \/ UNCHANGED <<at, row, copy, session, applied, told>>
               \/ \E p \in Requests :
                    Moves(p) /\ (Starts(p) \/ ReadsSession(p) \/ WritesSession(p) \/ Ends(p))
<1>1. ASSUME NEW p \in Requests, NEW s \in Sessions, NEW m \in Mitigations,
             NEW t \in Submitted, StartSubmit(p, s, m, t)
      PROVE  Starts(p) /\ UNCHANGED <<mit, active, approved>>
  <2> DEFINE r == [id |-> m, session |-> s, type |-> t, state |-> "pending"]
  <2>1. r \in Row /\ r.id = m /\ r.type \in Submitted
    BY SubmittedAreTypes DEF Row, Types, MitigationStates
  <2>2. Begin(p, "submit", r) /\ mit[m] = NoRow /\ ~HeldByAnother(m)
    BY <1>1 DEF StartSubmit
  <2> HIDE DEF r
  <2>3. QED
    BY <2>1, <2>2 DEF Starts, Begin
<1>2. ASSUME NEW p \in Requests, NEW m \in Mitigations,
             NEW d \in {"issued", "retest_required"}, StartReview(p, m, d)
      PROVE  Starts(p) /\ UNCHANGED <<mit, active, approved>>
  <2> DEFINE r == [mit[m] EXCEPT !.state = d]
  <2>1. d \in MitigationStates /\ MayBecome(m, d) /\ Begin(p, "save", r)
    BY <1>2 DEF StartReview, MitigationStates
  <2>2. r \in Row /\ r.id = m /\ r.state = d /\ mit[m] # NoRow /\ r.type = mit[m].type
    BY <2>1, MayBecomeFacts
  <2>3. /\ IsMitigationActive(d) => IsMitigationActive(mit[m].state)
        /\ Validate(MitigationTransitions, mit[m].state, d)
    BY <2>1 DEF MayBecome, Validate, MitigationTransitions, IsMitigationActive
  <2> HIDE DEF r
  <2>4. QED
    BY <2>1, <2>2, <2>3 DEF Starts, Begin
<1>3. ASSUME NEW p \in Requests, NEW m \in Mitigations, StartWithdraw(p, m)
      PROVE  Starts(p) /\ UNCHANGED <<mit, active, approved>>
  <2> DEFINE r == [mit[m] EXCEPT !.state = "withdrawn"]
  <2>1. "withdrawn" \in MitigationStates /\ MayBecome(m, "withdrawn") /\ Begin(p, "save", r)
    BY <1>3 DEF StartWithdraw, MitigationStates
  <2>2. r \in Row /\ r.id = m /\ r.state = "withdrawn" /\ mit[m] # NoRow /\ r.type = mit[m].type
    BY <2>1, MayBecomeFacts
  <2>3. ~IsMitigationActive("withdrawn") /\ Validate(MitigationTransitions, mit[m].state, "withdrawn")
    BY <2>1 DEF MayBecome, IsMitigationActive
  <2> HIDE DEF r
  <2>4. QED
    BY <2>1, <2>2, <2>3 DEF Starts, Begin
<1>4. ASSUME NEW p \in Requests, NEW m \in Mitigations, StartExecute(p, m)
      PROVE  Starts(p) /\ UNCHANGED <<mit, active, approved>>
  <2> DEFINE r == [mit[m] EXCEPT !.state = "executing"]
  <2>1. "executing" \in MitigationStates /\ MayBecome(m, "executing") /\ Begin(p, "executing", r)
    BY <1>4 DEF StartExecute, MitigationStates
  <2>2. r \in Row /\ r.id = m /\ r.state = "executing" /\ mit[m] # NoRow /\ r.type = mit[m].type
    BY <2>1, MayBecomeFacts
  <2>3. mit[m].state \in {"issued", "executing"}
    BY <2>1 DEF MayBecome, Validate, MitigationTransitions
  <2> HIDE DEF r
  <2>4. QED
    BY <2>1, <2>2, <2>3 DEF Starts, Begin
<1>5. ASSUME NEW p \in Requests, GetSession(p)
      PROVE  ReadsSession(p) /\ UNCHANGED <<mit, active, approved>>
  BY <1>5 DEF GetSession, ReadsSession
<1>6. ASSUME NEW p \in Requests, SaveSession(p)
      PROVE  WritesSession(p) /\ UNCHANGED <<mit, active, approved>>
  <2> DEFINE r == [row[p] EXCEPT !.state = "completed"]
  <2>1. /\ row[p] \in Row /\ at[p] = "saveSession"
        /\ copy[p] \in SessionRow /\ copy[p].mitigation = row[p].id
    BY <1>6 DEF SaveSession, Base, RequestOK
  <2>2. /\ r \in Row /\ r.id = row[p].id /\ r.state = "completed"
        /\ r.session = row[p].session /\ r.type = row[p].type
    <3>1. "completed" \in MitigationStates
      BY DEF MitigationStates
    <3>2. QED
      BY <2>1, <3>1, RowFacts
  <2>3. row' = [row EXCEPT ![p] = r]
    BY <1>6 DEF SaveSession
  <2> HIDE DEF r
  <2>4. QED
    BY <1>6, <2>1, <2>2, <2>3 DEF SaveSession, WritesSession
<1>7. ASSUME NEW p \in Requests, Record(p) \/ Abort(p)
      PROVE  Ends(p) /\ UNCHANGED <<mit, active, approved>>
  BY <1>7 DEF Record, Abort, Ends
<1>8. ASSUME NEW p \in Requests,
             SubmitTx(p) \/ Save(p) \/ SaveExecuting(p) \/ SaveCompleted(p)
      PROVE  \E r \in Row : Writes(p, r)
  BY <1>8, RequestWrites
<1>9. CASE UNCHANGED vars
  BY <1>9 DEF vars
<1>10. QED
  BY <1>1, <1>2, <1>3, <1>4, <1>5, <1>6, <1>7, <1>8, <1>9, OneMoves DEF Next

\* A mitigation that is in the table stays in it, with its session and type.
LEMMA RowsStay ==
  ASSUME Base, NEW p \in Requests, NEW r \in Row, Writes(p, r), NEW m \in Mitigations
  PROVE  /\ mit'[m].state = IF m = r.id THEN r.state ELSE mit[m].state
         /\ mit[m] # NoRow =>
              mit'[m] # NoRow /\ mit'[m].session = mit[m].session /\ mit'[m].type = mit[m].type
<1>1. /\ mit'[r.id] = r /\ r # NoRow
      /\ \A k \in Mitigations \ {r.id} : mit'[k] = mit[k]
  BY SaveTxTypes, RowFacts DEF Base, Writes
<1>2. mit[r.id] # NoRow => mit[r.id].session = r.session /\ mit[r.id].type = r.type
  BY SameSession DEF Writes
<1>3. QED
  BY <1>1, <1>2

\* No operation changes the type of a mitigation.
LEMMA SubmittedTypesNext ==
  Base /\ SubmittedTypes /\ [Next]_vars => SubmittedTypes'
<1> SUFFICES ASSUME Base, SubmittedTypes, [Next]_vars PROVE SubmittedTypes'
  OBVIOUS
<1> USE DEF SubmittedTypes
<1>1. ASSUME NEW p \in Requests, NEW r \in Row, Writes(p, r) PROVE SubmittedTypes'
  <2>1. r.type \in Submitted
    BY <1>1 DEF Writes, WrittenBy, Writing
  <2>2. \A m \in Mitigations : mit'[m] = IF m = r.id THEN r ELSE mit[m]
    BY <1>1, SaveTxTypes DEF Writes, Base
  <2>3. \A q \in Requests : at'[q] # "idle" => row'[q].type \in Submitted
    BY <1>1, <2>1 DEF Writes, WrittenBy, Writing, Base, TypeOK
  <2>4. QED
    BY <2>1, <2>2, <2>3
<1>2. ASSUME UNCHANGED <<mit, active, approved, at, row, copy, session, applied, told>>
      PROVE  SubmittedTypes'
  BY <1>2
<1>3. ASSUME NEW p \in Requests, UNCHANGED <<mit, active, approved>>, Moves(p),
             Starts(p) \/ ReadsSession(p) \/ WritesSession(p) \/ Ends(p)
      PROVE  SubmittedTypes'
  <2>1. at'[p] # "idle" => row'[p].type \in Submitted
    BY <1>3, RowFacts DEF Starts, ReadsSession, WritesSession, Ends, Base, TypeOK
  <2>2. QED
    BY <1>3, <2>1 DEF Moves
<1>4. QED
  BY <1>1, <1>2, <1>3, OtherSteps

LEMMA ApprovalNext == Base /\ ApprovalInv /\ [Next]_vars => ApprovalInv'
<1> SUFFICES ASSUME Base, ApprovalInv, [Next]_vars PROVE ApprovalInv'
  OBVIOUS
<1> USE DEF ApprovalInv
<1>1. ASSUME NEW p \in Requests, NEW r \in Row, Writes(p, r) PROVE ApprovalInv'
  <2>1. approved' = IF r.state = "issued" THEN approved \cup {r.id} ELSE approved
    BY <1>1 DEF Writes, SaveTx
  <2>2. r.state = "executing" => r.id \in approved
    <3>1. at[p] = "executing" \/ r.state # "executing"
      BY <1>1 DEF Writes, WrittenBy, Base, RequestOK
    <3>2. QED
      BY <1>1, <3>1 DEF Writes, WrittenBy, Executing
  <2>3. ASSUME NEW m \in Mitigations, mit'[m].state \in {"issued", "executing"}
        PROVE  m \in approved'
    BY <1>1, <2>1, <2>2, <2>3, RowsStay
  <2>4. ASSUME NEW q \in Requests, at'[q] \in Executing \cup {"complete"}
        PROVE  row'[q].id \in approved'
    BY <1>1, <2>1, <2>4 DEF Writes, WrittenBy, Base, TypeOK, Executing
  <2>5. ASSUME NEW s \in Sessions, NEW m \in Mitigations, session'[s].mitigation = m
        PROVE  mit'[m].session = s /\ m \in approved'
    <3>1. mit[m].session = s /\ m \in approved
      BY <1>1, <2>5 DEF Writes, ApprovedBeforeActing
    <3>2. mit[m] # NoRow
      BY <3>1, NoRowFacts, NoneIsNoId
    <3>3. QED
      BY <1>1, <2>1, <3>1, <3>2, RowsStay
  <2>6. QED
    BY <2>3, <2>4, <2>5 DEF ApprovedBeforeActing
<1>2. ASSUME UNCHANGED <<mit, active, approved, at, row, copy, session, applied, told>>
      PROVE  ApprovalInv'
  BY <1>2 DEF ApprovedBeforeActing
<1>3. ASSUME NEW p \in Requests, UNCHANGED <<mit, active, approved>>, Moves(p),
             Starts(p) \/ ReadsSession(p) \/ WritesSession(p) \/ Ends(p)
      PROVE  ApprovalInv'
  <2>1. at'[p] \in Executing \cup {"complete"} => row'[p].id \in approved
    <3>1. CASE Starts(p)
      BY <3>1, RowFacts DEF Starts, Base, TypeOK, Executing
    <3>2. CASE ReadsSession(p) \/ WritesSession(p) \/ Ends(p)
      BY <3>2 DEF ReadsSession, WritesSession, Ends, Base, TypeOK, Executing
    <3>3. QED
      BY <1>3, <3>1, <3>2
  <2>2. ASSUME NEW q \in Requests, at'[q] \in Executing \cup {"complete"}
        PROVE  row'[q].id \in approved
    BY <1>3, <2>1, <2>2 DEF Moves
  <2>3. ASSUME NEW s \in Sessions, NEW m \in Mitigations, session'[s].mitigation = m
        PROVE  mit[m].session = s /\ m \in approved
    <3>1. CASE WritesSession(p) /\ s = row[p].session
      <4>1. m = row[p].id /\ m \in approved
        BY <2>3, <3>1 DEF WritesSession, Base, TypeOK, Executing
      <4>2. QED
        BY <3>1, <4>1 DEF WritesSession, Base, CopyOK, Writing
    <3>2. CASE ~(WritesSession(p) /\ s = row[p].session)
      <4>1. session'[s] = session[s]
        BY <1>3, <3>2 DEF WritesSession, Starts, ReadsSession, Ends, Base, TypeOK
      <4>2. QED
        BY <2>3, <4>1 DEF ApprovedBeforeActing
    <3>3. QED
      BY <3>1, <3>2
  <2>4. QED
    BY <1>3, <2>2, <2>3 DEF ApprovedBeforeActing
<1>4. QED
  BY <1>1, <1>2, <1>3, OtherSteps

\* The mitigation a session names is one of its own, and a reviewer approved
\* it before: no interleaving of Review, Withdraw and Execute, and no request
\* that stops halfway, lets an unapproved mitigation act on a session.
THEOREM ApprovalComesFirst == Spec => []ApprovedBeforeActing
<1>1. Init => ApprovalInv
  BY NoneIsNoId DEF Init, ApprovalInv, ApprovedBeforeActing, NoRow, Executing
<1>2. ApprovalInv => ApprovedBeforeActing
  BY DEF ApprovalInv
<1>3. QED
  BY <1>1, <1>2, BaseInit, BaseNext, ApprovalNext, PTL DEF Spec

LEMMA CompletionNext == Base /\ CompletionInv /\ [Next]_vars => CompletionInv'
<1> SUFFICES ASSUME Base, CompletionInv, [Next]_vars PROVE CompletionInv'
  OBVIOUS
<1> USE DEF CompletionInv, CompletedWasApplied
<1>1. ASSUME NEW p \in Requests, NEW r \in Row, Writes(p, r) PROVE CompletionInv'
  <2>1. r.state = "completed" => r.id \in applied
    <3>1. at[p] = "complete" \/ r.state # "completed"
      BY <1>1 DEF Writes, WrittenBy, Base, RequestOK, Executing
    <3>2. QED
      BY <1>1, <3>1 DEF Writes, WrittenBy
  <2>2. \A m \in Mitigations : mit'[m].state = "completed" => m \in applied'
    BY <1>1, <2>1, RowsStay DEF Writes
  <2>3. \A q \in Requests : at'[q] = "complete" => row'[q].id \in applied'
    BY <1>1 DEF Writes, Base, TypeOK
  <2>4. QED
    BY <2>2, <2>3
<1>2. ASSUME UNCHANGED <<mit, active, approved, at, row, copy, session, applied, told>>
      PROVE  CompletionInv'
  BY <1>2
<1>3. ASSUME NEW p \in Requests, UNCHANGED <<mit, active, approved>>, Moves(p),
             Starts(p) \/ ReadsSession(p) \/ WritesSession(p) \/ Ends(p)
      PROVE  CompletionInv'
  <2>1. applied \subseteq applied'
    BY <1>3 DEF Starts, ReadsSession, WritesSession, Ends
  <2>2. at'[p] = "complete" => row'[p].id \in applied'
    BY <1>3 DEF Starts, ReadsSession, WritesSession, Ends, Base, TypeOK
  <2>3. \A q \in Requests : at'[q] = "complete" => row'[q].id \in applied'
    BY <1>3, <2>1, <2>2 DEF Moves
  <2>4. QED
    BY <1>3, <2>1, <2>3
<1>4. QED
  BY <1>1, <1>2, <1>3, OtherSteps

\* A mitigation is reported completed only once its effect is on the session,
\* however its executions overlapped, stopped halfway or were retried.
THEOREM CompletionComesLast == Spec => []CompletedWasApplied
<1>1. Init => CompletionInv
  BY DEF Init, CompletionInv, CompletedWasApplied, NoRow
<1>2. CompletionInv => CompletedWasApplied
  BY DEF CompletionInv
<1>3. QED
  BY <1>1, <1>2, BaseInit, BaseNext, CompletionNext, PTL DEF Spec

-----------------------------------------------------------------------------
(***************************************************************************)
(* When requests on one mitigation never overlap, copies are never stale   *)
(* and the index is exact.                                                 *)
(***************************************************************************)

\* SaveTx keeps an exact index exact, provided a row saved as open was new
\* and found no claim, or was open already.
LEMMA SaveTxExact ==
  ASSUME Base, IndexExact, NEW r \in Row, SaveTx(r),
         mit[r.id] = NoRow \/ mit[r.id].session = r.session,
         IsMitigationActive(r.state) =>
           active[r.session] = None \/ IsMitigationActive(mit[r.id].state)
  PROVE  IndexExact'
<1>1. /\ mit'[r.id] = r
      /\ \A m \in Mitigations \ {r.id} : mit'[m] = mit[m]
  BY SaveTxTypes DEF Base
<1>2. /\ r.id \in Mitigations /\ r.session \in Sessions /\ None \notin Mitigations
  BY RowFacts, NoneIsNoId
<1>3. active \in [Sessions -> Mitigations \cup {None}]
  BY DEF Base, TypeOK
<1>4. active'[r.session] =
        IF IsMitigationActive(r.state)
        THEN IF active[r.session] = None THEN r.id ELSE active[r.session]
        ELSE IF active[r.session] = r.id THEN None ELSE active[r.session]
  BY <1>2, <1>3 DEF SaveTx
<1>5. IndexSound'
  BY SaveTxSound DEF IndexExact, IndexSound
<1>6. ASSUME NEW s \in Sessions, NEW m \in Mitigations,
             mit'[m].session = s, IsMitigationActive(mit'[m].state)
      PROVE  active'[s] = m
  <2>1. CASE m = r.id
    <3>1. s = r.session /\ IsMitigationActive(r.state)
      BY <1>1, <1>6, <2>1
    <3>2. CASE active[s] = None
      BY <3>1, <3>2, <1>4, <2>1
    <3>3. CASE IsMitigationActive(mit[r.id].state)
      <4>1. mit[r.id].session = s
        BY <3>1, <3>3, NoRowFacts
      <4>2. active[s] = m
        BY <4>1, <3>3, <2>1, <1>2 DEF IndexExact
      <4>3. QED
        BY <4>2, <3>1, <1>2, <1>4
    <3>4. QED
      BY <3>1, <3>2, <3>3
  <2>2. CASE m # r.id
    <3>1. active[s] = m
      BY <1>1, <1>6, <2>2 DEF IndexExact
    <3>2. CASE s = r.session
      BY <3>1, <3>2, <2>2, <1>2, <1>4
    <3>3. CASE s # r.session
      BY <3>1, <3>3, <1>2, <1>3 DEF SaveTx
    <3>4. QED
      BY <3>2, <3>3
  <2>3. QED
    BY <2>1, <2>2
<1>7. QED
  BY <1>5, <1>6 DEF IndexExact, IndexSound

LEMMA SerialNext ==
  Overlap = FALSE /\ Base /\ SerialInv /\ [Next]_vars => SerialInv'
<1> SUFFICES ASSUME Overlap = FALSE, Base, SerialInv, [Next]_vars PROVE SerialInv'
  OBVIOUS
<1> USE DEF SerialInv
<1>1. ASSUME NEW p \in Requests, NEW r \in Row, Writes(p, r) PROVE SerialInv'
  <2>1. /\ \A q \in Requests \ {p} : at'[q] = at[q] /\ row'[q] = row[q]
        /\ row'[p] = r /\ r.id = row[p].id /\ at[p] \in Writing
        /\ at'[p] = IF at[p] = "executing" THEN "getSession" ELSE "record"
    BY <1>1 DEF Writes, WrittenBy, Base, TypeOK
  <2>2. Exclusive'
    BY <2>1 DEF Exclusive, Writing
  <2>3. ASSUME NEW q \in Requests, at'[q] \in Writing \ {"submit"},
               IsMitigationActive(row'[q].state)
        PROVE  IsMitigationActive(mit'[row'[q].id].state)
    <3>1. CASE q = p
      <4>1. mit'[r.id].state = r.state
        BY <1>1, RowsStay, RowFacts
      <4>2. QED
        BY <2>1, <2>3, <3>1, <4>1
    <3>2. CASE q # p
      <4>1. at[q] \in Writing \ {"submit"} /\ row'[q] = row[q]
        BY <2>1, <2>3, <3>2
      <4>2. row[q].id # r.id
        BY <2>1, <3>2, <4>1 DEF Exclusive
      <4>3. row[q].id \in Mitigations
        BY <4>1, RowFacts DEF Base, RequestOK, Writing
      <4>4. IsMitigationActive(mit[row[q].id].state)
        BY <2>3, <4>1 DEF NotStale
      <4>5. QED
        BY <1>1, <4>1, <4>2, <4>3, <4>4, RowsStay
    <3>3. QED
      BY <3>1, <3>2
  <2>4. mit[r.id] = NoRow \/ mit[r.id].session = r.session
    BY <1>1, SameSession DEF Writes
  <2>5. IsMitigationActive(r.state) =>
          active[r.session] = None \/ IsMitigationActive(mit[r.id].state)
    <3>1. CASE at[p] = "submit"
      BY <1>1, <3>1 DEF Writes, WrittenBy, IsMitigationActive
    <3>2. CASE at[p] \in {"save", "executing", "complete"} /\ r = row[p]
      BY <3>2 DEF NotStale, Writing
    <3>3. QED
      BY <1>1, <3>1, <3>2 DEF Writes, WrittenBy
  <2>6. IndexExact'
    BY <1>1, <2>4, <2>5, SaveTxExact DEF Writes
  <2>7. QED
    BY <2>2, <2>3, <2>6 DEF NotStale
<1>2. ASSUME UNCHANGED <<mit, active, approved, at, row, copy, session, applied, told>>
      PROVE  SerialInv'
  BY <1>2 DEF Exclusive, NotStale, IndexExact
<1>3. ASSUME NEW p \in Requests, UNCHANGED <<mit, active, approved>>, Moves(p),
             Starts(p) \/ ReadsSession(p) \/ WritesSession(p) \/ Ends(p)
      PROVE  SerialInv'
  <2>1. at'[p] \in Writing =>
          (at[p] \in Writing /\ row'[p].id = row[p].id) \/ ~HeldByAnother(row'[p].id)
    BY <1>3 DEF Starts, ReadsSession, WritesSession, Ends, Base, TypeOK, Writing
  <2>2. Exclusive'
    BY <1>3, <2>1 DEF Exclusive, Moves, HeldByAnother
  <2>3. at'[p] \in Writing \ {"submit"} /\ IsMitigationActive(row'[p].state) =>
          IsMitigationActive(mit[row'[p].id].state)
    <3>1. CASE Starts(p)
      BY <3>1 DEF Starts, Base, TypeOK, Writing, IsMitigationActive
    <3>2. CASE ReadsSession(p) \/ Ends(p)
      BY <3>2 DEF ReadsSession, Ends, Base, TypeOK, Writing, NotStale
    <3>3. CASE WritesSession(p)
      BY <3>3 DEF WritesSession, Base, TypeOK, IsMitigationActive
    <3>4. QED
      BY <1>3, <3>1, <3>2, <3>3
  <2>4. NotStale'
    BY <1>3, <2>3 DEF NotStale, Moves
  <2>5. IndexExact'
    BY <1>3 DEF IndexExact
  <2>6. QED
    BY <2>2, <2>4, <2>5
<1>4. QED
  BY <1>1, <1>2, <1>3, OtherSteps

LEMMA SerialInvariant == Overlap = FALSE => (Spec => [](Base /\ SerialInv))
<1> SUFFICES ASSUME Overlap = FALSE PROVE Spec => [](Base /\ SerialInv)
  OBVIOUS
<1>1. Init => SerialInv
  BY NoneIsNoId DEF Init, SerialInv, Exclusive, NotStale, IndexExact, Writing, NoRow
<1>2. SerialInv /\ Base /\ [Next]_vars => SerialInv'
  BY SerialNext
<1>3. QED
  BY <1>1, <1>2, BaseInit, BaseNext, PTL DEF Spec

\* If no two requests work on the same mitigation at once, the index names
\* exactly the open mitigations, through every failure between two calls.
THEOREM IndexIsExact == Overlap = FALSE => (Spec => []IndexExact)
<1>1. SerialInv => IndexExact
  BY DEF SerialInv
<1>2. QED
  BY <1>1, SerialInvariant, PTL

\* ... and so a session never has two open mitigations, the promise that the
\* primary key of active_mitigations and ErrMitigationActive make.
THEOREM OneOpenMitigation == Overlap = FALSE => (Spec => []AtMostOneActive)
<1>1. Base /\ SerialInv => AtMostOneActive
  <2> SUFFICES ASSUME Base, SerialInv,
                      NEW m \in Mitigations, NEW k \in Mitigations,
                      IsMitigationActive(mit[m].state), IsMitigationActive(mit[k].state),
                      mit[m].session = mit[k].session
               PROVE  m = k
    BY DEF AtMostOneActive
  <2>1. mit[m] \in Row
    BY NoRowFacts DEF Base, TypeOK
  <2>2. QED
    BY <2>1, RowFacts DEF SerialInv, IndexExact
<1>2. QED
  BY <1>1, SerialInvariant, PTL
-----------------------------------------------------------------------------
(***************************************************************************)
(* What is announced is true, and a refusal has a reason, whatever         *)
(* overlaps.                                                               *)
(***************************************************************************)

\* A row is only written by the request that submits it, when it is new, or by
\* one that holds a copy of it.
LEMMA TellNext ==
  Base /\ CompletionInv /\ TellInv /\ [Next]_vars => TellInv'
<1> SUFFICES ASSUME Base, CompletionInv, TellInv, [Next]_vars PROVE TellInv'
  OBVIOUS
<1>1. ASSUME NEW p \in Requests, NEW r \in Row, Writes(p, r) PROVE TellInv'
  <2>1. /\ \A q \in Requests \ {p} : at'[q] = at[q] /\ row'[q] = row[q]
        /\ row'[p] = r /\ r.id = row[p].id /\ at[p] \in Writing
        /\ at'[p] = IF at[p] = "executing" THEN "getSession" ELSE "record"
        /\ UNCHANGED <<told, applied>> /\ approved \subseteq approved'
    BY <1>1 DEF Writes, WrittenBy, Base, TypeOK, SaveTx
  <2>2. r.id \in Mitigations /\ r # NoRow
    BY RowFacts
  <2>3. mit[r.id].state # "lost"
    BY <1>1, SameSession, NoRowFacts DEF Writes, WrittenBy, TellInv
  <2>4. ASSUME NEW m \in Mitigations
        PROVE  /\ mit[m] # NoRow => mit'[m] # NoRow
               /\ mit[m].state = "lost" => mit'[m].state = "lost"
    BY <1>1, <2>3, RowsStay
  <2>5. ToldIsTrue'
    BY <2>1, <2>4 DEF TellInv, ToldIsTrue
  <2>6. ASSUME NEW q \in Requests, at'[q] = "record"
        PROVE  /\ mit'[row'[q].id] # NoRow
               /\ row'[q].state = "issued" => row'[q].id \in approved'
               /\ row'[q].state = "completed" => row'[q].id \in applied'
               /\ row'[q].state = "lost" => mit'[row'[q].id].state = "lost"
    <3>1. CASE q = p
      <4>1. mit'[r.id] = r
        BY <1>1, SaveTxTypes DEF Writes, Base
      <4>2. r.state = "issued" => r.id \in approved'
        BY <1>1 DEF Writes, SaveTx
      <4>3. r.state = "completed" => r.id \in applied
        <5>1. r.state = "completed" => at[p] = "complete"
          BY <1>1 DEF Writes, WrittenBy, Base, RequestOK, Executing
        <5>2. QED
          BY <2>1, <5>1 DEF CompletionInv
      <4>4. QED
        BY <2>1, <2>2, <3>1, <4>1, <4>2, <4>3
    <3>2. CASE q # p
      <4>1. at[q] = "record" /\ row'[q] = row[q] /\ row[q].id \in Mitigations
        BY <2>1, <2>6, <3>2, RowFacts DEF Base, RequestOK
      <4>2. QED
        BY <2>1, <2>4, <4>1 DEF TellInv
    <3>3. QED
      BY <3>1, <3>2
  <2>7. ASSUME NEW q \in Requests, at'[q] \in Writing \ {"submit"}
        PROVE  mit'[row'[q].id].state # "lost"
    <3>1. CASE q = p
      <4>1. at[p] = "executing"
        BY <2>1, <2>7, <3>1 DEF Writing
      <4>2. r = row[p] /\ row[p].state = "executing"
        BY <1>1, <4>1 DEF Writes, WrittenBy, Base, RequestOK, Executing
      <4>3. mit'[r.id].state = r.state
        BY <1>1, <2>2, RowsStay
      <4>4. QED
        BY <2>1, <3>1, <4>2, <4>3
    <3>2. CASE q # p
      <4>1. at[q] \in Writing \ {"submit"} /\ row'[q] = row[q] /\ row[q].id \in Mitigations
        BY <2>1, <2>7, <3>2, RowFacts DEF Base, RequestOK, Writing
      <4>2. row[q].id = r.id => r.state # "lost"
        BY <1>1, <2>1, <3>2, <4>1 DEF Writes, WrittenBy, Base, CopyOK, RequestOK, Writing, Executing
      <4>3. QED
        BY <1>1, <4>1, <4>2, RowsStay DEF TellInv
    <3>3. QED
      BY <3>1, <3>2
  <2>8. QED
    BY <2>5, <2>6, <2>7 DEF TellInv
<1>2. ASSUME UNCHANGED <<mit, active, approved, at, row, copy, session, applied, told>>
      PROVE  TellInv'
  BY <1>2 DEF TellInv, ToldIsTrue
<1>3. ASSUME NEW p \in Requests, UNCHANGED <<mit, active, approved>>, Moves(p),
             Starts(p) \/ ReadsSession(p) \/ WritesSession(p) \/ Ends(p)
      PROVE  TellInv'
  <2>1. applied \subseteq applied' /\ at'[p] # "record"
    BY <1>3 DEF Starts, ReadsSession, WritesSession, Ends, Base, TypeOK
  <2>2. at'[p] \in Writing \ {"submit"} => mit[row'[p].id].state # "lost"
    <3>1. CASE Starts(p)
      BY <3>1 DEF Starts, Base, TypeOK, Writing, Validate, MitigationTransitions
    <3>2. CASE ReadsSession(p) \/ WritesSession(p) \/ Ends(p)
      BY <3>2 DEF ReadsSession, WritesSession, Ends, Base, TypeOK, Writing, TellInv
    <3>3. QED
      BY <1>3, <3>1, <3>2
  <2>3. ToldIsTrue'
    <3>1. CASE UNCHANGED told
      BY <1>3, <2>1, <3>1 DEF TellInv, ToldIsTrue
    <3>2. CASE at[p] = "record" /\ told' = [told EXCEPT ![row[p].id] = row[p].state]
      BY <1>3, <2>1, <3>2 DEF TellInv, ToldIsTrue, Base, TypeOK
    <3>3. QED
      BY <1>3, <3>1, <3>2 DEF Starts, ReadsSession, WritesSession, Ends
  <2>4. QED
    BY <1>3, <2>1, <2>2, <2>3 DEF TellInv, Moves
<1>4. QED
  BY <1>1, <1>2, <1>3, OtherSteps

\* Telemetry, audit entries and events recount only what was committed: an
\* approval that was saved, an effect that reached the session, a refusal that
\* stands, whoever else wrote the row in between and whichever call failed.
THEOREM AnnouncementsAreTrue == Spec => []ToldIsTrue
<1>1. Init => CompletionInv /\ TellInv
  BY DEF Init, CompletionInv, CompletedWasApplied, TellInv, ToldIsTrue, NoRow, Writing
<1>2. TellInv => ToldIsTrue
  BY DEF TellInv
<1>3. QED
  BY <1>1, <1>2, BaseInit, BaseNext, CompletionNext, TellNext, PTL DEF Spec

\* Submit refuses a mitigation only while another one of that session is open,
\* never because of a claim that was left behind.
THEOREM RefusalHasAReason == Spec => LostToAnOpenOne
<1>1. ASSUME Base, IndexSound, [Next]_vars, NEW m \in Mitigations,
             mit[m] = NoRow, mit'[m].state = "lost"
      PROVE  \E k \in Mitigations \ {m} :
               mit[k].session = mit'[m].session /\ IsMitigationActive(mit[k].state)
  <2>1. PICK p \in Requests, r \in Row : Writes(p, r)
    BY <1>1, TableSteps, NoRowFacts
  <2>2. m = r.id /\ mit'[m] = r
    BY <1>1, <2>1, SaveTxTypes, NoRowFacts DEF Writes, Base
  <2>3. at[p] = "submit"
    BY <1>1, <2>1, <2>2, SameSession DEF Writes
  <2>4. active[r.session] # None /\ r.session \in Sessions
    BY <1>1, <2>1, <2>2, <2>3, RowFacts DEF Writes, WrittenBy
  <2>5. active[r.session] \in Mitigations
    BY <1>1, <2>4 DEF Base, TypeOK
  <2>6. QED
    BY <1>1, <2>2, <2>4, <2>5, NoRowFacts DEF IndexSound
<1>2. Base /\ IndexSound /\ [Next]_vars =>
        [\A m \in Mitigations :
           mit[m] = NoRow /\ mit'[m].state = "lost" =>
             \E k \in Mitigations \ {m} :
               mit[k].session = mit'[m].session /\ IsMitigationActive(mit[k].state)]_vars
  BY <1>1
<1>3. QED
  BY <1>2, IndexIsSound, BaseInit, BaseNext, PTL DEF Spec, LostToAnOpenOne
-----------------------------------------------------------------------------
(***************************************************************************)
(* Without overlap: a closed row stays as it is, and the workflow          *)
(* implements the slot of MitigationSlot.                                  *)
(***************************************************************************)

\* Two mitigations of one session that execute are one mitigation.
LEMMA OneExecutes ==
  ASSUME Base, SerialInv, NEW p \in Requests, NEW q \in Requests,
         at[p] \in Writing, at[q] \in Writing,
         mit[row[p].id].state = "executing", mit[row[q].id].state = "executing",
         mit[row[p].id].session = mit[row[q].id].session
  PROVE  p = q
<1>1. row[p] \in Row /\ row[q] \in Row
  BY DEF Base, RequestOK, Writing
<1>2. row[p].id \in Mitigations /\ row[q].id \in Mitigations
  BY <1>1, RowFacts
<1>3. mit[row[p].id] \in Row
  BY <1>2, NoRowFacts DEF Base, TypeOK
<1>4. mit[row[p].id].session \in Sessions
  BY <1>3, RowFacts
<1>5. row[p].id = row[q].id
  BY <1>2, <1>4 DEF SerialInv, IndexExact, IsMitigationActive
<1>6. QED
  BY <1>5 DEF SerialInv, Exclusive

LEMMA CurrentNext ==
  Overlap = FALSE /\ Base /\ SerialInv /\ AllCurrent /\ [Next]_vars => AllCurrent'
<1> SUFFICES ASSUME Overlap = FALSE, Base, SerialInv, AllCurrent, [Next]_vars
             PROVE  AllCurrent'
  OBVIOUS
<1>1. ASSUME NEW p \in Requests, NEW r \in Row, Writes(p, r), NEW q \in Requests
      PROVE  Current(q)'
  <2>1. /\ q # p => at'[q] = at[q] /\ row'[q] = row[q]
        /\ row'[p] = r /\ r.id = row[p].id /\ at[p] \in Writing
        /\ at'[p] = IF at[p] = "executing" THEN "getSession" ELSE "record"
        /\ UNCHANGED session
    BY <1>1 DEF Writes, WrittenBy, Base, TypeOK
  <2>2. mit'[r.id] = r /\ \A m \in Mitigations \ {r.id} : mit'[m] = mit[m]
    BY <1>1, SaveTxTypes DEF Writes, Base
  <2>3. CASE q = p
    <3>1. at[p] = "executing" => r.state = "executing"
      BY <1>1 DEF Writes, WrittenBy, Base, RequestOK, Executing
    <3>2. QED
      BY <2>1, <2>2, <2>3, <3>1 DEF Current, Writing
  <2>4. CASE q # p
    <3>1. at[q] \in Writing => row[q].id \in Mitigations \ {r.id}
      BY <2>1, <2>4, RowFacts DEF SerialInv, Exclusive, Base, RequestOK, Writing
    <3>2. Current(q)
      BY DEF AllCurrent
    <3>3. QED
      BY <2>1, <2>2, <2>4, <3>1, <3>2 DEF Current
  <2>5. QED
    BY <2>3, <2>4
<1>2. ASSUME UNCHANGED <<mit, active, approved, at, row, copy, session, applied, told>>
      PROVE  AllCurrent'
  BY <1>2 DEF AllCurrent, Current
<1>3. ASSUME NEW p \in Requests, UNCHANGED <<mit, active, approved>>, Moves(p),
             Starts(p) \/ ReadsSession(p) \/ WritesSession(p) \/ Ends(p),
             NEW q \in Requests
      PROVE  Current(q)'
  <2> USE DEF AllCurrent
  <2>1. CASE q = p
    <3>1. CASE Starts(p)
      BY <1>3, <2>1, <3>1 DEF Starts, Current, Base, TypeOK, Writing
    <3>2. CASE ReadsSession(p) \/ Ends(p)
      BY <1>3, <2>1, <3>2 DEF ReadsSession, Ends, Current, Base, TypeOK, Writing
    <3>3. CASE WritesSession(p)
      <4>1. /\ row'[p].id = row[p].id /\ row'[p].session = row[p].session
            /\ row[p].session \in Sessions
            /\ at[p] = "saveSession" /\ at'[p] = "complete"
        BY <3>3, RowFacts DEF WritesSession, Base, TypeOK
      <4>2. session'[row[p].session].mitigation = row[p].id
        BY <3>3, <4>1 DEF WritesSession, Base, TypeOK
      <4>3. QED
        BY <1>3, <2>1, <4>1, <4>2 DEF Current, Writing
    <3>4. QED
      BY <1>3, <3>1, <3>2, <3>3
  <2>2. CASE q # p
    <3>1. at'[q] = at[q] /\ row'[q] = row[q]
      BY <1>3, <2>2 DEF Moves
    <3>2. CASE UNCHANGED session
      BY <1>3, <3>1, <3>2 DEF Current
    <3>3. CASE WritesSession(p)
      <4>1. at[q] = "complete" => row[q].session # row[p].session
        BY <2>2, <3>3, OneExecutes DEF WritesSession, Current, Base, CopyOK, Writing
      <4>2. at[q] = "complete" => session'[row[q].session] = session[row[q].session]
        BY <3>3, <4>1, RowFacts DEF WritesSession, Base, TypeOK, RequestOK
      <4>3. QED
        BY <1>3, <3>1, <4>2 DEF Current
    <3>4. QED
      BY <1>3, <3>2, <3>3 DEF Starts, ReadsSession, Ends
  <2>3. QED
    BY <2>1, <2>2
<1>4. QED
  BY <1>1, <1>2, <1>3, OtherSteps DEF AllCurrent

LEMMA CurrentInvariant ==
  Overlap = FALSE => (Spec => [](Base /\ SerialInv /\ AllCurrent))
<1> SUFFICES ASSUME Overlap = FALSE PROVE Spec => [](Base /\ SerialInv /\ AllCurrent)
  OBVIOUS
<1>1. Init => AllCurrent
  BY DEF Init, AllCurrent, Current, Writing
<1>2. Base /\ SerialInv /\ AllCurrent /\ [Next]_vars => AllCurrent'
  BY CurrentNext
<1>3. Spec => [](Base /\ SerialInv)
  BY SerialInvariant
<1>4. QED
  BY <1>1, <1>2, <1>3, PTL DEF Spec

\* What a write finds in the row, and what it makes of it.
LEMMA WriteFinds ==
  ASSUME Base, SerialInv, AllCurrent, NEW p \in Requests, NEW r \in Row, Writes(p, r)
  PROVE  /\ r.id \in Mitigations /\ r.session \in Sessions
         /\ \/ /\ at[p] = "submit" /\ mit[r.id] = NoRow
               /\ r.state = IF active[r.session] # None THEN "lost" ELSE "pending"
            \/ /\ at[p] # "submit" /\ mit[r.id] \in Row /\ mit[r.id].id = r.id
               /\ mit[r.id].session = r.session /\ mit[r.id].type = r.type
               /\ \/ /\ r.state \in {"issued", "retest_required", "withdrawn"}
                     /\ Validate(MitigationTransitions, mit[r.id].state, r.state)
                  \/ /\ r.state = "executing"
                     /\ mit[r.id].state \in {"issued", "executing"}
                  \/ /\ r.state = "completed" /\ mit[r.id].state = "executing"
                     /\ session[r.session].mitigation = r.id
<1>1. r.id \in Mitigations /\ r.session \in Sessions
  BY RowFacts
<1>2. CASE at[p] = "submit"
  BY <1>1, <1>2, SameSession DEF Writes, WrittenBy
<1>3. CASE at[p] # "submit"
  <2>1. /\ at[p] \in {"save", "executing", "complete"} /\ r = row[p]
        /\ mit[r.id] # NoRow /\ mit[r.id].session = r.session /\ mit[r.id].type = r.type
    BY <1>3, SameSession DEF Writes, WrittenBy
  <2>2. mit[r.id] \in Row /\ mit[r.id].id = r.id
    BY <1>1, <2>1 DEF Base, TypeOK, KeysOK
  <2>3. Current(p) /\ RequestOK(p)
    BY DEF AllCurrent, Base
  <2>4. QED
    BY <1>1, <1>3, <2>1, <2>2, <2>3 DEF Current, RequestOK, Writing, Executing
<1>4. QED
  BY <1>2, <1>3

\* A closed mitigation is never reopened or moved to another verdict, as long as
\* no two requests work on it at once: what Validate accepted still holds when
\* the copy is written.
THEOREM ClosedIsFinal == Overlap = FALSE => (Spec => ClosedStaysClosed)
<1> SUFFICES ASSUME Overlap = FALSE PROVE Spec => ClosedStaysClosed
  OBVIOUS
<1>1. ASSUME Base, SerialInv, AllCurrent, [Next]_vars, NEW m \in Mitigations,
             mit[m] # NoRow, ~IsMitigationActive(mit[m].state)
      PROVE  mit'[m] = mit[m]
  <2>1. CASE UNCHANGED <<mit, active, approved>>
    BY <2>1
  <2>2. ASSUME NEW p \in Requests, NEW r \in Row, Writes(p, r) PROVE mit'[m] = mit[m]
    <3>1. mit'[r.id] = r /\ \A k \in Mitigations \ {r.id} : mit'[k] = mit[k]
      BY <1>1, <2>2, SaveTxTypes DEF Writes, Base
    <3>2. CASE m = r.id
      <4>1. /\ mit[m] \in Row /\ mit[m].id = r.id
            /\ mit[m].session = r.session /\ mit[m].type = r.type
        BY <1>1, <2>2, <3>2, WriteFinds
      <4>2. mit[m].state = r.state
        <5>1. mit[m].state \notin {"pending", "under_review", "issued", "executing"}
          BY <1>1 DEF IsMitigationActive
        <5>2. /\ r.state \in {"issued", "retest_required", "withdrawn"}
              /\ Validate(MitigationTransitions, mit[m].state, r.state)
          BY <1>1, <2>2, <3>2, <5>1, WriteFinds
        <5>3. QED
          BY <5>1, <5>2 DEF Validate, MitigationTransitions
      <4>3. mit[m] = r
        BY <4>1, <4>2 DEF Row
      <4>4. QED
        BY <3>1, <3>2, <4>3
    <3>3. QED
      BY <3>1, <3>2
  <2>3. QED
    BY <1>1, <2>1, <2>2, TableSteps
<1>2. Base /\ SerialInv /\ AllCurrent /\ [Next]_vars =>
        [\A m \in Mitigations :
           mit[m] # NoRow /\ ~IsMitigationActive(mit[m].state) => mit'[m] = mit[m]]_vars
  BY <1>1
<1>3. QED
  BY <1>2, CurrentInvariant, PTL DEF Spec, ClosedStaysClosed
(***************************************************************************)
(* The refinement: each write of a row is one step of the slot.            *)
(***************************************************************************)

\* What a write does to the slot of its session, seen through the mapping.
LEMMA SlotWrite ==
  ASSUME Base, NEW p \in Requests, NEW r \in Row, Writes(p, r)
  PROVE  /\ [m \in Mitigations |-> StageOf(mit'[m].state)]
              = [[m \in Mitigations |-> StageOf(mit[m].state)] EXCEPT ![r.id] = StageOf(r.state)]
         /\ [m \in Mitigations |-> mit'[m].session]
              = [[m \in Mitigations |-> mit[m].session] EXCEPT ![r.id] = r.session]
         /\ UNCHANGED session
<1>1. mit'[r.id] = r /\ \A m \in Mitigations \ {r.id} : mit'[m] = mit[m]
  BY SaveTxTypes DEF Writes, Base
<1>2. r.id \in Mitigations
  BY RowFacts
<1>3. QED
  BY <1>1, <1>2 DEF Writes

\* The stages of the states, and which of them are open.
LEMMA Stages ==
  /\ StageOf("absent") = "new" /\ StageOf("pending") = "waiting"
  /\ StageOf("under_review") = "waiting" /\ StageOf("issued") = "approved"
  /\ StageOf("executing") = "acting" /\ StageOf("completed") = "done"
  /\ StageOf("retest_required") = "dropped" /\ StageOf("withdrawn") = "dropped"
  /\ StageOf("lost") = "refused"
BY DEF StageOf

LEMMA OpenIsActive ==
  ASSUME Base, NEW m \in Mitigations
  PROVE  Slot!Open(m) <=> IsMitigationActive(mit[m].state)
<1>1. mit[m].state \in MitigationStates \cup {"absent"}
  BY RowFacts, NoRowFacts DEF Base, TypeOK
<1>2. QED
  BY <1>1 DEF Slot!Open, StageOf, IsMitigationActive, MitigationStates

LEMMA SlotStep ==
  ASSUME Base, SerialInv, AllCurrent, [Next]_vars
  PROVE  [Slot!Next]_(Slot!vars)
<1>1. ASSUME NEW p \in Requests, NEW r \in Row, Writes(p, r)
      PROVE  [Slot!Next]_(Slot!vars)
  <2>1. r.id \in Mitigations /\ r.session \in Sessions
    BY RowFacts
  <2>2. CASE at[p] = "submit"
    <3>1. mit[r.id].state = "absent"
      BY <1>1, <2>2, WriteFinds, NoRowFacts
    <3>2. CASE active[r.session] # None
      <4>1. r.state = "lost"
        BY <1>1, <2>2, <3>2, WriteFinds
      <4>2. Slot!Taken(r.session)
        <5>1. PICK k \in Mitigations : k = active[r.session]
          BY <2>1, <3>2 DEF Base, TypeOK
        <5>2. mit[k].session = r.session /\ IsMitigationActive(mit[k].state)
          BY <2>1, <5>1 DEF SerialInv, IndexExact
        <5>3. QED
          BY <5>2, OpenIsActive DEF Slot!Taken
      <4>3. Slot!Enter(r.id, r.session, "refused")
        <5>1. StageOf(mit[r.id].state) = "new" /\ StageOf(r.state) = "refused"
          BY <3>1, <4>1, Stages
        <5>2. QED
          BY <1>1, <2>1, <5>1, SlotWrite DEF Slot!Enter
      <4>4. QED
        BY <2>1, <4>2, <4>3 DEF Slot!Next, Slot!Refuse
    <3>3. CASE active[r.session] = None
      <4>1. r.state = "pending"
        BY <1>1, <2>2, <3>3, WriteFinds
      <4>2. ~Slot!Taken(r.session)
        BY <2>1, <3>3, OpenIsActive, NoneIsNoId DEF Slot!Taken, SerialInv, IndexExact
      <4>3. Slot!Enter(r.id, r.session, "waiting")
        <5>1. StageOf(mit[r.id].state) = "new" /\ StageOf(r.state) = "waiting"
          BY <3>1, <4>1, Stages
        <5>2. QED
          BY <1>1, <2>1, <5>1, SlotWrite DEF Slot!Enter
      <4>4. QED
        BY <2>1, <4>2, <4>3 DEF Slot!Next, Slot!Claim
    <3>4. QED
      BY <3>2, <3>3
  <2>3. CASE at[p] # "submit"
    <3>1. mit[r.id].session = r.session
      BY <1>1, <2>3, WriteFinds
    <3>2. ASSUME NEW from, NEW to, StageOf(mit[r.id].state) \in from, StageOf(r.state) = to
          PROVE  Slot!Move(r.id, from, to)
      BY <1>1, <2>1, <3>1, <3>2, SlotWrite DEF Slot!Move
    <3>3. CASE mit[r.id].state = r.state
      <4>1. /\ \A m \in Mitigations : StageOf(mit'[m].state) = StageOf(mit[m].state)
            /\ \A m \in Mitigations : mit'[m].session = mit[m].session
            /\ UNCHANGED session
        BY <1>1, <3>1, <3>3, SaveTxTypes DEF Writes, Base
      <4>2. UNCHANGED Slot!vars
        BY <4>1 DEF Slot!vars
      <4>3. QED
        BY <4>2
    <3>4. CASE r.state = "issued" /\ mit[r.id].state # r.state
      <4>1. mit[r.id].state \in {"pending", "under_review"}
        BY <1>1, <2>3, <3>4, WriteFinds DEF Validate, MitigationTransitions
      <4>2. Slot!Approve(r.id)
        BY <3>2, <3>4, <4>1, Stages DEF Slot!Approve
      <4>3. QED
        BY <2>1, <4>2 DEF Slot!Next
    <3>5. CASE r.state \in {"retest_required", "withdrawn"} /\ mit[r.id].state # r.state
      <4>1. mit[r.id].state \in {"pending", "under_review", "issued", "executing"}
        BY <1>1, <2>3, <3>5, WriteFinds DEF Validate, MitigationTransitions
      <4>2. Slot!Drop(r.id)
        BY <3>2, <3>5, <4>1, Stages DEF Slot!Drop
      <4>3. QED
        BY <2>1, <4>2 DEF Slot!Next
    <3>6. CASE r.state = "executing" /\ mit[r.id].state # r.state
      <4>1. mit[r.id].state = "issued"
        BY <1>1, <2>3, <3>6, WriteFinds
      <4>2. Slot!StartActing(r.id)
        BY <3>2, <3>6, <4>1, Stages DEF Slot!StartActing
      <4>3. QED
        BY <2>1, <4>2 DEF Slot!Next
    <3>7. CASE r.state = "completed"
      <4>1. mit[r.id].state = "executing" /\ session[r.session].mitigation = r.id
        BY <1>1, <2>3, <3>7, WriteFinds
      <4>2. Slot!Finish(r.id)
        BY <2>1, <3>1, <3>2, <3>7, <4>1, Stages DEF Slot!Finish
      <4>3. QED
        BY <2>1, <4>2 DEF Slot!Next
    <3>8. QED
      BY <1>1, <2>3, <3>3, <3>4, <3>5, <3>6, <3>7, WriteFinds
  <2>4. QED
    BY <2>2, <2>3
<1>2. ASSUME UNCHANGED <<mit, session>> PROVE [Slot!Next]_(Slot!vars)
  BY <1>2 DEF Slot!vars
<1>3. ASSUME NEW p \in Requests, UNCHANGED mit, WritesSession(p)
      PROVE  [Slot!Next]_(Slot!vars)
  <2>1. row[p].id \in Mitigations /\ row[p].session \in Sessions
    BY <1>3, RowFacts DEF WritesSession
  <2>2. PICK m \in Mitigations, s \in Sessions : m = row[p].id /\ s = row[p].session
    BY <2>1
  <2>3. mit[m].session = s /\ mit[m].state = "executing"
    BY <1>3, <2>2 DEF WritesSession, AllCurrent, Current, Base, CopyOK, Writing
  <2>4. [i \in Sessions |-> session'[i].mitigation]
          = [[i \in Sessions |-> session[i].mitigation] EXCEPT ![s] = m]
    BY <1>3, <2>2 DEF WritesSession, Base, TypeOK
  <2>5. Slot!Act(m)
    BY <1>3, <2>2, <2>3, <2>4, Stages DEF Slot!Act
  <2>6. QED
    BY <2>5 DEF Slot!Next
<1>4. \/ \E p \in Requests, r \in Row : Writes(p, r)
      \/ UNCHANGED <<mit, session>>
      \/ \E p \in Requests : UNCHANGED mit /\ WritesSession(p)
  BY OtherSteps DEF Starts, ReadsSession, Ends
<1>5. QED
  BY <1>1, <1>2, <1>3, <1>4

\* When no two requests work on one mitigation at once, the workflow implements
\* the promise of one slot per session: who enters finds it free, who is
\* refused finds it taken, only its approved holder acts, and one that is done
\* has acted last, wherever requests stop.
THEOREM WorkflowKeepsTheSlot == Overlap = FALSE => (Spec => SlotSpec)
<1> SUFFICES ASSUME Overlap = FALSE PROVE Spec => SlotSpec
  OBVIOUS
<1>1. Init => Slot!Init
  BY Stages DEF Init, Slot!Init, NoRow
<1>2. Base /\ SerialInv /\ AllCurrent /\ [Next]_vars => [Slot!Next]_(Slot!vars)
  BY SlotStep
<1>3. QED
  BY <1>1, <1>2, CurrentInvariant, PTL DEF Spec, SlotSpec, Slot!Spec
=============================================================================
