--------------------------- MODULE HandshakeProofs ---------------------------
(***************************************************************************)
(* Theorems of HandshakeFlow for any forms, signers and requests and any   *)
(* finite set of session numbers: type correctness, whole registrations,   *)
(* states that match the signatures, and signatures that stay.             *)
(***************************************************************************)
EXTENDS HandshakeFlow, FiniteSetTheorems, TLAPS

(***************************************************************************)
(* The inductive invariant.                                                *)
(***************************************************************************)

\* The state of a row tells who has signed it.
Matches(row) ==
  /\ row.state = "outbound_signed" => row.signer["outbound"] # None /\ row.signer["arrival"] = None
  /\ row.state = "arrival_signed" => row.signer["outbound"] = None /\ row.signer["arrival"] # None
  /\ row.state = "authorized" => \A y \in Parties : row.signer[y] # None
  /\ row.state \notin {"outbound_signed", "arrival_signed", "authorized"} =>
       \A y \in Parties : row.signer[y] = None

RowsMatch == \A f \in Forms : Matches(form[f])

\* The sessions that were stored for a form.
Of(f) == {s \in SessionNos : session[s] = f}

\* What a request has in hand: the new form, the sessions it has still to
\* insert for a form that is its own, or a copy to write back.
Inserting(r) == r.at = "insert" =>
  r.copy \in Row /\ Matches(r.copy) /\ r.copy.state = "draft" /\ r.copy.count = Cardinality(r.todo)

Storing(p) == req[p].at = "items" =>
  /\ req[p].form \in Forms \ registered
  /\ form[req[p].form] # NoForm
  /\ form[req[p].form].count = Cardinality(Of(req[p].form)) + Cardinality(req[p].todo)
  /\ \A q \in Requests : req[q].at = "items" /\ req[q].form = req[p].form => q = p

Writing(r) == r.at \in {"attest", "modify"} =>
  /\ r.form \in Forms /\ r.copy \in Row /\ Matches(r.copy)
  /\ form[r.form] # NoForm
  /\ form[r.form].no = r.copy.no /\ form[r.form].count = r.copy.count
  /\ r.at = "modify" => r.copy.state = "draft"

\* Who attests holds the mutex, and its copy has every signature that is stored.
Attesting(p) == req[p].at = "attest" =>
  /\ mutex = p
  /\ \A y \in Parties : form[req[p].form].signer[y] # None =>
       req[p].copy.signer[y] = form[req[p].form].signer[y]

\* Sessions and successful answers are of forms that are there.
Rooted ==
  /\ \A s \in SessionNos : session[s] \in Forms => form[session[s]] # NoForm
  /\ \A f \in registered : form[f] # NoForm

IInv ==
  /\ HandshakeTypeOK /\ RowsMatch /\ Rooted /\ RegisteredWhole
  /\ \A p \in Requests :
       Inserting(req[p]) /\ Storing(p) /\ Writing(req[p]) /\ Attesting(p)

(***************************************************************************)
(* Rows: what they are made of, and what a signature makes of one.         *)
(***************************************************************************)
LEMMA NothingIsNoParty ==
  /\ None \notin Forms /\ None \notin FormNos /\ None \notin Signers /\ None \notin Requests
         /\ NoForm \notin Row
BY NoneIsNothing DEF NoForm, Row

LEMMA CountsFit ==
  ASSUME NEW S \in SUBSET SessionNos
  PROVE  IsFiniteSet(S) /\ Cardinality(S) \in 0..Cardinality(SessionNos)
<1>1. IsFiniteSet(S) /\ Cardinality(S) <= Cardinality(SessionNos)
  BY FS_Subset, SessionsAreFinite
<1>2. Cardinality(S) \in Nat /\ Cardinality(SessionNos) \in Nat
  BY <1>1, FS_CardinalityType, SessionsAreFinite
<1> QED
  BY <1>1, <1>2

LEMMA NewFormIsRow ==
  ASSUME NEW no \in FormNos, NEW S \in SUBSET SessionNos,
         NEW row, row = NewForm(no, S)
  PROVE  row \in Row /\ Matches(row) /\ row.state = "draft" /\ row.count = Cardinality(S)
<1> DEFINE nobody == [y \in Parties |-> None]
<1>1. Cardinality(S) \in 0..Cardinality(SessionNos)
  BY CountsFit
<1>2. row = [no |-> no, state |-> "draft", count |-> Cardinality(S), signer |-> nobody]
  BY DEF NewForm, NoForm
<1>3. nobody \in [Parties -> Signers \cup {None}] /\ \A y \in Parties : nobody[y] = None
  OBVIOUS
<1> HIDE DEF nobody
<1>4. row.no = no /\ row.state = "draft" /\ row.count = Cardinality(S) /\ row.signer = nobody
  BY ONLY <1>2
<1>5. row \in Row
  BY <1>1, <1>2, <1>3 DEF Row, HandshakeStates
<1>6. Matches(row)
  BY <1>3, <1>4 DEF Matches
<1> QED
  BY <1>4, <1>5, <1>6

LEMMA SignedIsRow ==
  ASSUME NEW row \in Row, Matches(row), NEW party \in Parties, NEW who \in Signers,
         MaySign(row.state, party)
  PROVE  /\ Signed(row, party, who) \in Row /\ Matches(Signed(row, party, who))
         /\ Signed(row, party, who).no = row.no /\ Signed(row, party, who).count = row.count
         /\ row.signer[party] = None
         /\ \A y \in Parties : row.signer[y] # None => Signed(row, party, who).signer[y] = row.signer[y]
<1>1. /\ row.state \in HandshakeStates /\ row.signer \in [Parties -> Signers \cup {None}]
      /\ row = [no |-> row.no, state |-> row.state, count |-> row.count, signer |-> row.signer]
      /\ row.no \in FormNos /\ row.count \in 0..Cardinality(SessionNos)
  BY DEF Row
<1> DEFINE next == NextState(row.state, party)
<1>a. Signed(row, party, who) = [row EXCEPT !.state = next, !.signer = [@ EXCEPT ![party] = who]]
  BY DEF Signed
<1> HIDE DEF next
<1>b. Signed(row, party, who) = [no |-> row.no, state |-> next, count |-> row.count,
                                 signer |-> [row.signer EXCEPT ![party] = who]]
  BY <1>1, <1>a
<1>2. /\ Signed(row, party, who).state = NextState(row.state, party)
      /\ Signed(row, party, who).count = row.count
      /\ Signed(row, party, who).no = row.no
      /\ Signed(row, party, who).signer = [row.signer EXCEPT ![party] = who]
      /\ Signed(row, party, who) = [no |-> row.no, state |-> NextState(row.state, party),
                                    count |-> row.count,
                                    signer |-> [row.signer EXCEPT ![party] = who]]
  BY <1>b DEF next
<1>3. \/ /\ row.state = "draft" /\ party = "outbound"
         /\ NextState(row.state, party) = "outbound_signed"
      \/ /\ row.state = "draft" /\ party = "arrival"
         /\ NextState(row.state, party) = "arrival_signed"
      \/ /\ row.state = "outbound_signed" /\ party = "arrival"
         /\ NextState(row.state, party) = "authorized"
      \/ /\ row.state = "arrival_signed" /\ party = "outbound"
         /\ NextState(row.state, party) = "authorized"
  BY <1>1 DEF MaySign, NextState, Parties, HandshakeStates
<1>4. NextState(row.state, party) \in HandshakeStates
  BY <1>3 DEF HandshakeStates
<1>5. Signed(row, party, who) \in Row
  BY <1>1, <1>2, <1>4 DEF Row
<1>6. who # None
  BY NothingIsNoParty
<1>7. row.signer[party] = None
  BY <1>3 DEF Matches, Parties
<1>8. Matches(Signed(row, party, who))
  BY <1>1, <1>2, <1>3, <1>6 DEF Matches, Parties
<1>9. \A y \in Parties : row.signer[y] # None => Signed(row, party, who).signer[y] = row.signer[y]
  BY <1>1, <1>2, <1>7
<1> QED
  BY <1>2, <1>5, <1>7, <1>8, <1>9

-----------------------------------------------------------------------------
(***************************************************************************)
(* Types.                                                                  *)
(***************************************************************************)
LEMMA InitTyped ==
  ASSUME HandshakeInit
  PROVE  HandshakeTypeOK
<1>1. form \in [Forms -> Row \cup {NoForm}] /\ session \in [SessionNos -> Forms \cup {None}]
  BY DEF HandshakeInit
<1>2. mutex \in Requests \cup {None} /\ registered \subseteq Forms
  BY DEF HandshakeInit
<1>3. Idle \in Request
  BY DEF Idle, Request
<1>4. req \in [Requests -> Request]
  BY <1>3 DEF HandshakeInit
<1> QED
  BY <1>1, <1>2, <1>4 DEF HandshakeTypeOK

LEMMA AtIsRequest ==
  ASSUME NEW where \in {"idle", "insert", "items", "attest", "modify"}, NEW f \in Forms \cup {None},
         NEW row \in Row \cup {NoForm}, NEW S \in SUBSET SessionNos,
         NEW r, r = At(where, f, row, S)
  PROVE  /\ r \in Request /\ r.at = where /\ r.form = f /\ r.copy = row /\ r.todo = S
BY DEF At, Request

LEMMA IdleIsRequest == Idle \in Request /\ Idle.at = "idle"
BY DEF Idle, Request

-----------------------------------------------------------------------------
(***************************************************************************)
(* The inductive invariant.                                                *)
(***************************************************************************)
LEMMA InitHolds ==
  ASSUME HandshakeInit
  PROVE  IInv
<1>1. HandshakeTypeOK
  BY InitTyped
<1>2. \A f \in Forms : form[f] = NoForm
  BY DEF HandshakeInit
<1>3. NoForm.state = "absent" /\ \A y \in Parties : NoForm.signer[y] = None
  BY DEF NoForm
<1>4. RowsMatch
  BY <1>2, <1>3 DEF RowsMatch, Matches
<1>5. \A s \in SessionNos : session[s] = None
  BY DEF HandshakeInit
<1>6. Rooted /\ RegisteredWhole
  BY <1>5, NothingIsNoParty DEF HandshakeInit, Rooted, RegisteredWhole
<1>7. \A p \in Requests : req[p].at = "idle"
  BY IdleIsRequest DEF HandshakeInit
<1>8. \A p \in Requests : Inserting(req[p]) /\ Storing(p) /\ Writing(req[p]) /\ Attesting(p)
  BY <1>7 DEF Inserting, Storing, Writing, Attesting
<1> QED
  BY <1>1, <1>4, <1>6, <1>8 DEF IInv

\* A step of one request that writes neither a form nor a session: it reads,
\* it ends, or it is answered.
LEMMA QuietStep ==
  ASSUME IInv, NEW p \in Requests, NEW r \in Request, Becomes(p, r),
         UNCHANGED <<form, session>>,
         r.at # "items", Inserting(r), Writing(r),
         r.at = "attest" =>
           /\ mutex' = p
           /\ \A y \in Parties : form[r.form].signer[y] # None =>
                r.copy.signer[y] = form[r.form].signer[y],
         \/ mutex' = mutex
         \/ mutex' = None /\ mutex = p
         \/ mutex = None /\ mutex' = p,
         \/ registered' = registered
         \/ req[p].at = "items" /\ req[p].todo = {} /\ registered' = registered \cup {req[p].form}
  PROVE  IInv'
<1> USE DEF IInv
<1>1. req' = [req EXCEPT ![p] = r] /\ req \in [Requests -> Request]
  BY DEF Becomes, HandshakeTypeOK
<1>2. Storing(p)
  OBVIOUS
<1>3. HandshakeTypeOK'
  <2>1. registered' \subseteq Forms
    BY <1>2 DEF HandshakeTypeOK, Storing
  <2> QED
    BY <1>1, <2>1 DEF HandshakeTypeOK
<1>4. RowsMatch'
  BY DEF RowsMatch, Matches
<1>5. Rooted'
  BY <1>2 DEF Rooted, Storing
<1>6. RegisteredWhole'
  <2>1. CASE registered' = registered
    BY <2>1 DEF RegisteredWhole
  <2>2. CASE /\ req[p].at = "items" /\ req[p].todo = {}
             /\ registered' = registered \cup {req[p].form}
    <3>1. form[req[p].form].count = Cardinality(Of(req[p].form)) + Cardinality({})
      BY <1>2, <2>2 DEF Storing
    <3>2. Cardinality({}) = 0
      BY FS_EmptySet
    <3>3. Of(req[p].form) \in SUBSET SessionNos
      BY DEF Of
    <3>4. Cardinality(Of(req[p].form)) \in Nat
      BY <3>3, CountsFit
    <3>5. form[req[p].form].count = Cardinality(Of(req[p].form))
      BY <3>1, <3>2, <3>4
    <3> QED
      BY <2>2, <3>5 DEF RegisteredWhole, Of
  <2> QED
    BY <2>1, <2>2
<1>7. ASSUME NEW q \in Requests
      PROVE  Inserting(req[q])' /\ Writing(req[q])'
  <2>1. req'[q] = IF q = p THEN r ELSE req[q]
    BY <1>1
  <2> QED
    BY <2>1 DEF Inserting, Writing, Matches
<1>8. ASSUME NEW q \in Requests
      PROVE  Storing(q)'
  <2>1. SUFFICES ASSUME req'[q].at = "items"
                 PROVE  Storing(q)'
    BY DEF Storing
  <2>2. q # p /\ req'[q] = req[q] /\ Storing(q)
    BY <1>1, <2>1
  <2>3. \A w \in Requests : req'[w].at = "items" => req[w].at = "items" /\ req'[w] = req[w]
    BY <1>1
  <2>4. req[q].form \notin registered'
    BY <1>2, <2>1, <2>2 DEF Storing
  <2>5. Of(req[q].form)' = Of(req[q].form)
    BY <2>2 DEF Of
  <2> QED
    BY <2>1, <2>2, <2>3, <2>4, <2>5 DEF Storing
<1>9. ASSUME NEW q \in Requests
      PROVE  Attesting(q)'
  <2>1. CASE q = p
    BY <1>1, <2>1 DEF Attesting
  <2>2. CASE q # p
    BY <1>1, <2>2, NothingIsNoParty DEF Attesting
  <2> QED
    BY <2>1, <2>2
<1> QED
  BY <1>3, <1>4, <1>5, <1>6, <1>7, <1>8, <1>9

\* The new form is its request's alone and no session names it yet.
LEMMA SaveFormHolds ==
  ASSUME IInv, NEW p \in Requests, NEW f \in Forms, SaveForm(p, f)
  PROVE  IInv'
<1> USE DEF IInv
<1>1. CASE Taken(req[p].copy.no)
  <2>1. Inserting(Idle) /\ Writing(Idle)
    BY IdleIsRequest DEF Inserting, Writing
  <2> QED
    BY <1>1, <2>1, IdleIsRequest, QuietStep DEF SaveForm, Answer
<1>2. CASE ~Taken(req[p].copy.no)
  <2> DEFINE r == At("items", f, NoForm, req[p].todo)
  <2>0. req[p] \in Request /\ Inserting(req[p]) /\ req[p].at = "insert" /\ form[f] = NoForm
    BY DEF HandshakeTypeOK, SaveForm
  <2>1. req[p].todo \in SUBSET SessionNos
    BY <2>0 DEF Request
  <2>2. r \in Request /\ r.at = "items" /\ r.form = f /\ r.copy = NoForm /\ r.todo = req[p].todo
    BY <2>1, AtIsRequest
  <2> HIDE DEF r
  <2>3. /\ req' = [req EXCEPT ![p] = r] /\ req \in [Requests -> Request]
        /\ form' = [form EXCEPT ![f] = req[p].copy] /\ form \in [Forms -> Row \cup {NoForm}]
        /\ UNCHANGED <<session, mutex, registered>>
    BY <1>2 DEF SaveForm, Becomes, HandshakeTypeOK, r
  <2>4. /\ req[p].copy \in Row /\ Matches(req[p].copy) /\ req[p].copy # NoForm
        /\ req[p].copy.count = Cardinality(req[p].todo)
    BY <2>0, NothingIsNoParty DEF Inserting
  <2>5. HandshakeTypeOK'
    BY <2>2, <2>3, <2>4 DEF HandshakeTypeOK
  <2>6. RowsMatch'
    BY <2>3, <2>4 DEF RowsMatch, Matches
  <2>7. f \notin registered /\ Of(f) = {}
    BY <2>0 DEF Rooted, Of
  <2>8. Rooted'
    BY <2>3, <2>4 DEF Rooted
  <2>9. RegisteredWhole'
    BY <2>3, <2>7 DEF RegisteredWhole, HandshakeTypeOK
  <2>10. ASSUME NEW q \in Requests
         PROVE  Inserting(req[q])' /\ Writing(req[q])' /\ Attesting(q)'
    <3>1. req'[q] = IF q = p THEN r ELSE req[q]
      BY <2>3
    <3>2. Inserting(req[q])'
      BY <2>2, <3>1 DEF Inserting, Matches
    <3>3. Writing(req[q])'
      BY <2>0, <2>2, <2>3, <3>1 DEF Writing, Matches
    <3>4. Attesting(q)'
      <4>1. SUFFICES ASSUME req'[q].at = "attest" PROVE Attesting(q)'
        BY DEF Attesting
      <4>2. req'[q] = req[q] /\ req[q].form # f /\ req[q].form \in Forms
        BY <2>0, <2>2, <3>1, <4>1 DEF Writing
      <4> QED
        BY <2>3, <4>2 DEF Attesting
    <3> QED
      BY <3>2, <3>3, <3>4
  <2>11. ASSUME NEW q \in Requests
         PROVE  Storing(q)'
    <3>1. CASE q = p
      <4>1. Cardinality({}) = 0 /\ Cardinality(req[p].todo) \in Nat
        BY <2>1, FS_EmptySet, CountsFit
      <4>2. Of(f)' = {}
        BY <2>3, <2>7 DEF Of
      <4>3. form'[f].count = Cardinality(Of(f)') + Cardinality(r.todo)
        BY <2>2, <2>3, <2>4, <4>1, <4>2
      <4>4. \A w \in Requests : req'[w].at = "items" /\ req'[w].form = f => w = p
        BY <2>0, <2>3 DEF Storing
      <4>5. form'[f] # NoForm /\ f \notin registered'
        BY <2>3, <2>4, <2>7
      <4>6. req'[p] = r
        BY <2>3
      <4> QED
        BY <2>2, <3>1, <4>3, <4>4, <4>5, <4>6 DEF Storing, Of
    <3>2. CASE q # p /\ req'[q].at = "items"
      <4>1. req'[q] = req[q] /\ req[q].form # f /\ req[q].form \in Forms
        BY <2>0, <2>3, <3>2 DEF Storing
      <4>2. Of(req[q].form)' = Of(req[q].form)
        BY <2>3, <4>1 DEF Of
      <4>3. form'[req[q].form] = form[req[q].form]
        BY <2>3, <4>1
      <4>4. \A w \in Requests : req'[w].at = "items" /\ req'[w].form = req[q].form => w = q
        BY <2>2, <2>3, <3>2, <4>1 DEF Storing
      <4> QED
        BY <2>3, <3>2, <4>1, <4>2, <4>3, <4>4 DEF Storing
    <3> QED
      BY <3>1, <3>2 DEF Storing
  <2> QED
    BY <2>5, <2>6, <2>8, <2>9, <2>10, <2>11
<1> QED
  BY <1>1, <1>2

\* One session more for the form, one less to insert.
LEMMA SaveItemHolds ==
  ASSUME IInv, NEW p \in Requests, NEW s \in SessionNos, SaveItem(p, s)
  PROVE  IInv'
<1> USE DEF IInv
<1>1. CASE session[s] # None
  <2>1. Inserting(Idle) /\ Writing(Idle)
    BY IdleIsRequest DEF Inserting, Writing
  <2> QED
    BY <1>1, <2>1, IdleIsRequest, QuietStep DEF SaveItem, Answer
<1>2. CASE session[s] = None
  <2>0. req[p] \in Request /\ Storing(p) /\ req[p].at = "items" /\ s \in req[p].todo
    BY DEF HandshakeTypeOK, SaveItem
  <2>f. PICK f \in Forms : f = req[p].form
    BY <2>0 DEF Storing
  <2> DEFINE r == At("items", f, NoForm, req[p].todo \ {s})
  <2>1. /\ req[p].todo \in SUBSET SessionNos /\ f \in Forms /\ f \notin registered /\ form[f] # NoForm
        /\ form[f].count = Cardinality(Of(f)) + Cardinality(req[p].todo)
    BY <2>0, <2>f DEF Request, Storing
  <2>2. r \in Request /\ r.at = "items" /\ r.form = f /\ r.copy = NoForm /\ r.todo = req[p].todo \ {s}
    BY <2>1, AtIsRequest
  <2>3. /\ req' = [req EXCEPT ![p] = r] /\ req \in [Requests -> Request]
        /\ session' = [session EXCEPT ![s] = f] /\ session \in [SessionNos -> Forms \cup {None}]
        /\ UNCHANGED <<form, mutex, registered>>
    BY <1>2, <2>f DEF SaveItem, Becomes, HandshakeTypeOK
  <2> HIDE DEF r
  <2>4. HandshakeTypeOK'
    BY <2>1, <2>2, <2>3 DEF HandshakeTypeOK
  <2>5. RowsMatch'
    BY <2>3 DEF RowsMatch, Matches
  <2>6. Rooted'
    BY <2>1, <2>3 DEF Rooted
  <2>7. f \in Forms /\ f # None
    BY <2>1, NothingIsNoParty
  <2>8. \A g \in Forms : g # f => Of(g)' = Of(g)
    BY <1>2, <2>3, NothingIsNoParty DEF Of
  <2>9. RegisteredWhole'
    <3>1. ASSUME NEW g \in registered'
          PROVE  Cardinality(Of(g)') = form'[g].count
      <4>1. g \in registered /\ g # f /\ g \in Forms
        BY <2>1, <2>3, <3>1 DEF HandshakeTypeOK
      <4> QED
        BY <2>3, <2>8, <4>1 DEF RegisteredWhole, Of
    <3> QED
      BY <3>1 DEF RegisteredWhole, Of
  <2>10. Of(f)' = Of(f) \cup {s} /\ s \notin Of(f)
    BY <1>2, <2>3, <2>7 DEF Of
  <2>11. Cardinality(Of(f)') + Cardinality(r.todo) = Cardinality(Of(f)) + Cardinality(req[p].todo)
    <3>1. Of(f) \in SUBSET SessionNos
      BY DEF Of
    <3>2. /\ IsFiniteSet(Of(f)) /\ IsFiniteSet(req[p].todo)
          /\ Cardinality(Of(f)) \in Nat /\ Cardinality(req[p].todo) \in Nat
      BY <2>1, <3>1, CountsFit
    <3>3. Cardinality(Of(f) \cup {s}) = Cardinality(Of(f)) + 1
      BY <2>10, <3>2, FS_AddElement
    <3>4. Cardinality(req[p].todo \ {s}) = Cardinality(req[p].todo) - 1
      BY <2>0, <3>2, FS_RemoveElement
    <3> QED
      BY <2>2, <2>10, <3>2, <3>3, <3>4
  <2>12. ASSUME NEW q \in Requests
         PROVE  Inserting(req[q])' /\ Writing(req[q])' /\ Attesting(q)'
    <3>1. req'[q] = IF q = p THEN r ELSE req[q]
      BY <2>3
    <3> QED
      BY <2>2, <2>3, <3>1 DEF Inserting, Writing, Attesting, Matches
  <2>13. ASSUME NEW q \in Requests
         PROVE  Storing(q)'
    <3>1. CASE q = p
      <4>1. \A w \in Requests : req'[w].at = "items" /\ req'[w].form = f => w = p
        BY <2>0, <2>3, <2>f DEF Storing
      <4>2. req'[p] = r /\ form'[f].count = Cardinality(Of(f)') + Cardinality(r.todo)
        BY <2>1, <2>3, <2>11
      <4>3. form'[f] # NoForm /\ f \in Forms \ registered'
        BY <2>1, <2>3
      <4> QED
        BY <2>2, <3>1, <4>1, <4>2, <4>3 DEF Storing, Of
    <3>2. CASE q # p /\ req'[q].at = "items"
      <4>1. req'[q] = req[q] /\ req[q].form # f /\ req[q].form \in Forms
        BY <2>0, <2>3, <2>f, <3>2 DEF Storing
      <4>2. Of(req[q].form)' = Of(req[q].form)
        BY <2>8, <4>1
      <4>3. \A w \in Requests : req'[w].at = "items" /\ req'[w].form = req[q].form => w = q
        BY <2>2, <2>3, <3>2, <4>1 DEF Storing
      <4> QED
        BY <2>3, <3>2, <4>1, <4>2, <4>3 DEF Storing, Of
    <3> QED
      BY <3>1, <3>2 DEF Storing
  <2> QED
    BY <2>4, <2>5, <2>6, <2>9, <2>12, <2>13
<1> QED
  BY <1>1, <1>2

\* The copy that is written has the same count, and, when its writer holds
\* the mutex, nobody else is attesting; a modification's copy is a draft.
LEMMA SaveHolds ==
  ASSUME IInv, NEW p \in Requests, Save(p)
  PROVE  IInv'
<1> USE DEF IInv
<1> DEFINE f == req[p].form
           row == req[p].copy
<1>1. /\ req[p].at \in {"attest", "modify"} /\ f \in Forms /\ row \in Row /\ Matches(row)
      /\ form[f] # NoForm /\ form[f].no = row.no /\ form[f].count = row.count
      /\ (req[p].at = "modify" => row.state = "draft")
  BY DEF Save, Writing
<1>2. /\ req' = [req EXCEPT ![p] = Idle] /\ req \in [Requests -> Request]
      /\ form' = [form EXCEPT ![f] = row] /\ form \in [Forms -> Row \cup {NoForm}]
      /\ mutex' = (IF mutex = p THEN None ELSE mutex)
      /\ UNCHANGED <<session, registered>>
  BY DEF Save, Answer, Becomes, Unlock, HandshakeTypeOK
<1>f. f = req[p].form /\ row = req[p].copy
  OBVIOUS
<1> HIDE DEF f, row
<1>3. /\ \A g \in Forms : (form[g] # NoForm <=> form'[g] # NoForm) /\ form'[g].count = form[g].count
      /\ \A g \in Forms : form'[g].no = form[g].no
      /\ form'[f] = row /\ \A g \in Forms \ {f} : form'[g] = form[g]
  BY <1>1, <1>2, NothingIsNoParty
<1>4. HandshakeTypeOK'
  BY <1>1, <1>2, IdleIsRequest DEF HandshakeTypeOK
<1>5. RowsMatch'
  <2>1. ASSUME NEW g \in Forms PROVE Matches(form'[g])
    BY <1>1, <1>3 DEF RowsMatch
  <2> QED
    BY <2>1 DEF RowsMatch, Matches
<1>6. Rooted'
  BY <1>2, <1>3 DEF Rooted, HandshakeTypeOK
<1>7. RegisteredWhole'
  BY <1>2, <1>3 DEF RegisteredWhole, HandshakeTypeOK
<1>8. ASSUME NEW q \in Requests
      PROVE  Inserting(req[q])' /\ Writing(req[q])' /\ Storing(q)' /\ Attesting(q)'
  <2>1. req'[q] = IF q = p THEN Idle ELSE req[q]
    BY <1>2
  <2>2. CASE q = p
    BY <2>1, <2>2, IdleIsRequest DEF Inserting, Writing, Storing, Attesting
  <2>3. CASE q # p
    <3>1. req'[q] = req[q]
      BY <2>1, <2>3
    <3>2. Inserting(req[q])'
      BY <3>1 DEF Inserting, Matches
    <3>3. Writing(req[q])'
      BY <1>3, <3>1 DEF Writing, Matches
    <3>4. Storing(q)'
      <4>1. SUFFICES ASSUME req[q].at = "items" PROVE Storing(q)'
        BY <3>1 DEF Storing
      <4>2. Storing(q) /\ req[q].form \in Forms /\ Of(req[q].form)' = Of(req[q].form)
        BY <1>2, <3>1, <4>1 DEF Storing, Of
      <4>3. \A w \in Requests : req'[w].at = "items" => req[w].at = "items" /\ req'[w] = req[w]
        BY <1>2, IdleIsRequest
      <4> QED
        BY <1>2, <1>3, <3>1, <4>1, <4>2, <4>3 DEF Storing
    <3>5. Attesting(q)'
      <4>1. SUFFICES ASSUME req[q].at = "attest" PROVE Attesting(q)'
        BY <3>1 DEF Attesting
      <4>2. mutex = q /\ req[q].form \in Forms
        BY <4>1 DEF Attesting, Writing
      <4>3. req[p].at = "modify"
        BY <1>1, <2>3, <4>2 DEF Attesting
      <4>4. \A y \in Parties : row.signer[y] = None
        BY <1>1, <4>3 DEF Matches
      <4>5. \A y \in Parties : form'[req[q].form].signer[y] # None =>
              req[q].copy.signer[y] = form'[req[q].form].signer[y]
        BY <1>3, <4>1, <4>2, <4>4 DEF Attesting
      <4> QED
        BY <1>2, <2>3, <3>1, <4>2, <4>5 DEF Attesting
    <3> QED
      BY <3>2, <3>3, <3>4, <3>5
  <2> QED
    BY <2>2, <2>3
<1> QED
  BY <1>4, <1>5, <1>6, <1>7, <1>8

LEMMA StepHolds ==
  ASSUME IInv, [HandshakeNext]_handshakeVars
  PROVE  IInv'
<1> USE DEF IInv
<1>1. ASSUME NEW p \in Requests, NEW no \in FormNos, NEW S \in SUBSET SessionNos,
             Register(p, no, S)
      PROVE  IInv'
  <2> DEFINE row == NewForm(no, S)
             r == At("insert", None, row, S)
  <2>1. row \in Row /\ Matches(row) /\ row.state = "draft" /\ row.count = Cardinality(S)
    BY NewFormIsRow
  <2>2. r \in Request /\ r.at = "insert" /\ r.copy = row /\ r.todo = S
    BY <2>1, AtIsRequest
  <2>3. Inserting(r) /\ Writing(r)
    BY <2>1, <2>2 DEF Inserting, Writing
  <2>4. Becomes(p, r) /\ UNCHANGED <<form, session, mutex, registered>>
    BY <1>1 DEF Register
  <2> HIDE DEF r
  <2> QED
    BY <2>2, <2>3, <2>4, QuietStep
<1>2. ASSUME NEW p \in Requests, NEW f \in Forms, Modify(p, f)
      PROVE  IInv'
  <2> DEFINE r == At("modify", f, form[f], {})
  <2>1. form[f].state = "draft" /\ NoForm.state = "absent"
    BY <1>2 DEF Modify, NoForm
  <2>2. form[f] \in Row /\ form[f] # NoForm /\ Matches(form[f])
    BY <2>1 DEF HandshakeTypeOK, RowsMatch
  <2>3. r \in Request /\ r.at = "modify" /\ r.form = f /\ r.copy = form[f]
    BY <2>2, AtIsRequest
  <2>4. Inserting(r) /\ Writing(r)
    BY <2>1, <2>2, <2>3 DEF Inserting, Writing
  <2>5. Becomes(p, r) /\ UNCHANGED <<form, session, mutex, registered>>
    BY <1>2 DEF Modify
  <2> HIDE DEF r
  <2> QED
    BY <2>3, <2>4, <2>5, QuietStep
<1>3. ASSUME NEW p \in Requests, NEW f \in Forms, NEW party \in Parties, NEW who \in Signers,
             Attestation(p, f, party, who)
      PROVE  IInv'
  <2> DEFINE row == Signed(form[f], party, who)
             r == At("attest", f, row, {})
  <2>1. /\ form[f] \in Row /\ form[f] # NoForm /\ Matches(form[f]) /\ MaySign(form[f].state, party)
        /\ mutex = None /\ mutex' = p /\ Becomes(p, r) /\ UNCHANGED <<form, session, registered>>
    BY <1>3 DEF Attestation, HandshakeTypeOK, RowsMatch
  <2>2. /\ row \in Row /\ Matches(row) /\ row.no = form[f].no /\ row.count = form[f].count
        /\ \A y \in Parties : form[f].signer[y] # None => row.signer[y] = form[f].signer[y]
    BY <2>1, SignedIsRow
  <2> HIDE DEF row
  <2>3. r \in Request /\ r.at = "attest" /\ r.form = f /\ r.copy = row
    BY <2>2, AtIsRequest
  <2>4. Inserting(r) /\ Writing(r)
    BY <2>1, <2>2, <2>3 DEF Inserting, Writing
  <2> HIDE DEF r
  <2> QED
    BY <2>1, <2>2, <2>3, <2>4, QuietStep
<1>4. ASSUME NEW p \in Requests, Registered(p) \/ Abort(p)
      PROVE  IInv'
  <2>1. Inserting(Idle) /\ Writing(Idle)
    BY IdleIsRequest DEF Inserting, Writing
  <2> QED
    BY <1>4, <2>1, IdleIsRequest, QuietStep DEF Registered, Abort, Answer, Unlock
<1>5. ASSUME UNCHANGED handshakeVars
      PROVE  IInv'
  <2>1. UNCHANGED form /\ UNCHANGED session /\ UNCHANGED mutex /\ UNCHANGED req /\ UNCHANGED registered
    BY <1>5 DEF handshakeVars
  <2>2. HandshakeTypeOK' /\ RowsMatch' /\ Rooted' /\ RegisteredWhole'
    BY <2>1 DEF HandshakeTypeOK, RowsMatch, Rooted, RegisteredWhole, Matches, Of
  <2>3. ASSUME NEW p \in Requests
        PROVE  (Inserting(req[p]) /\ Storing(p) /\ Writing(req[p]) /\ Attesting(p))'
    <3>1. Inserting(req[p])'
      BY <2>1 DEF Inserting
    <3>2. Storing(p)'
      BY <2>1 DEF Storing, Matches, Of
    <3>3. Writing(req[p])'
      BY <2>1 DEF Writing, Matches
    <3>4. Attesting(p)'
      BY <2>1 DEF Attesting
    <3> QED
      BY <3>1, <3>2, <3>3, <3>4
  <2> QED
    BY <2>2, <2>3
<1> QED
  BY <1>1, <1>2, <1>3, <1>4, <1>5, SaveFormHolds, SaveItemHolds, SaveHolds DEF HandshakeNext

-----------------------------------------------------------------------------
(***************************************************************************)
(* The theorems.                                                           *)
(***************************************************************************)
LEMMA Inductive ==
  HandshakeSpec => []IInv
<1>1. HandshakeInit => IInv
  BY InitHolds
<1>2. IInv /\ [HandshakeNext]_handshakeVars => IInv'
  BY StepHolds
<1> QED
  BY <1>1, <1>2, PTL DEF HandshakeSpec

\* Every reachable state of forms, sessions and requests is well typed, for
\* Register, Attestation and ModifyHandshake at once.
THEOREM HandshakeTypeCorrect ==
  HandshakeSpec => []HandshakeTypeOK
<1>1. IInv => HandshakeTypeOK
  BY DEF IInv
<1> QED
  BY <1>1, Inductive, PTL

\* A form whose Register was answered with success has all its sessions,
\* whatever other requests insert, attest or write back.
THEOREM RegistrationsAreWhole ==
  HandshakeSpec => []RegisteredWhole
<1>1. IInv => RegisteredWhole
  BY DEF IInv
<1> QED
  BY <1>1, Inductive, PTL

\* The state of a form tells who has signed it, although Attestation and
\* ModifyHandshake write whole rows they read earlier.
THEOREM StatesMatchSigners ==
  HandshakeSpec => []StateMatchesSigners
<1>1. ASSUME RowsMatch, NEW f \in Forms
      PROVE  LET signed == {y \in Parties : form[f].signer[y] # None} IN
               CASE form[f].state = "outbound_signed" -> signed = {"outbound"}
                 [] form[f].state = "arrival_signed"  -> signed = {"arrival"}
                 [] form[f].state = "authorized"      -> signed = Parties
                 [] OTHER                             -> signed = {}
  <2> DEFINE signed == {y \in Parties : form[f].signer[y] # None}
  <2>1. Matches(form[f])
    BY <1>1 DEF RowsMatch
  <2>2. form[f].state = "outbound_signed" => signed = {"outbound"}
    BY <2>1 DEF Matches, Parties
  <2>3. form[f].state = "arrival_signed" => signed = {"arrival"}
    BY <2>1 DEF Matches, Parties
  <2>4. form[f].state = "authorized" => signed = Parties
    BY <2>1 DEF Matches
  <2>5. form[f].state \notin {"outbound_signed", "arrival_signed", "authorized"} => signed = {}
    BY <2>1 DEF Matches
  <2> HIDE DEF signed
  <2>6. (CASE form[f].state = "outbound_signed" -> signed = {"outbound"}
           [] form[f].state = "arrival_signed"  -> signed = {"arrival"}
           [] form[f].state = "authorized"      -> signed = Parties
           [] OTHER                             -> signed = {})
    BY <2>2, <2>3, <2>4, <2>5
  <2> QED
    BY <2>6 DEF signed
<1>2. IInv => StateMatchesSigners
  BY <1>1 DEF IInv, StateMatchesSigners
<1> QED
  BY <1>2, Inductive, PTL

\* A stored signature is replaced by no Attestation, however many parties
\* sign at once; a ModifyHandshake that had read the draft can take it away.
THEOREM SignaturesStay ==
  HandshakeSpec => SignatureStays
<1>1. ASSUME IInv, [HandshakeNext]_handshakeVars, NEW f \in Forms, NEW y \in Parties,
             form[f].signer[y] # None, form'[f].signer[y] # form[f].signer[y]
      PROVE  \E p \in Requests : req[p].at = "modify" /\ req[p].form = f /\ req'[p] = Idle
  <2>1. form' # form
    BY <1>1
  <2>2. NoForm.signer[y] = None
    BY DEF NoForm
  <2>3. ASSUME NEW p \in Requests, NEW g \in Forms, SaveForm(p, g)
        PROVE  FALSE
    <3>1. form[g] = NoForm /\ (form' = form \/ form' = [form EXCEPT ![g] = req[p].copy])
      BY <2>3 DEF SaveForm
    <3> QED
      BY <1>1, <2>2, <3>1 DEF IInv, HandshakeTypeOK
  <2>4. ASSUME NEW p \in Requests, Save(p)
        PROVE  req[p].at = "modify" /\ req[p].form = f /\ req'[p] = Idle
    <3>1. form' = [form EXCEPT ![req[p].form] = req[p].copy] /\ req' = [req EXCEPT ![p] = Idle]
      BY <2>4 DEF Save, Answer, Becomes
    <3>2. req[p].form = f /\ form'[f] = req[p].copy /\ req'[p] = Idle
      BY <1>1, <3>1 DEF IInv, HandshakeTypeOK
    <3>3. req[p].at # "attest"
      BY <1>1, <3>2 DEF IInv, Attesting
    <3> QED
      BY <2>4, <3>2, <3>3 DEF Save
  <2>5. \E p \in Requests : (\E g \in Forms : SaveForm(p, g)) \/ Save(p)
    BY <1>1, <2>1 DEF HandshakeNext, Register, Modify, SaveItem, Registered, Attestation, Abort, handshakeVars
  <2> QED
    BY <2>3, <2>4, <2>5
<1>2. IInv /\ [HandshakeNext]_handshakeVars =>
        [\A f \in Forms, y \in Parties :
           form[f].signer[y] # None /\ form'[f].signer[y] # form[f].signer[y] =>
             \E p \in Requests : req[p].at = "modify" /\ req[p].form = f /\ req'[p] = Idle]_handshakeVars
  BY <1>1
<1> QED
  BY <1>2, Inductive, PTL DEF HandshakeSpec, SignatureStays

-----------------------------------------------------------------------------
(***************************************************************************)
(* The promise of handshakes: what it sees of a state, and what each call  *)
(* of the store is to it.                                                  *)
(***************************************************************************)
Contract(row) == [no |-> row.no, count |-> row.count, signer |-> row.signer]
Unsigned == [y \in Parties |-> None]

Contracts == [f \in Forms |-> Contract(form[f])]
Members == [f \in Forms |-> Of(f)]
Editing == {f \in Forms : \E p \in Requests : req[p].at = "modify" /\ req[p].form = f}

LEMMA PromiseSees ==
  /\ Promise!vars = <<Contracts, Members, registered, Editing>>
  /\ Promise!Unsigned = Unsigned
  /\ Promise!NoContract = Contract(NoForm)
<1>1. Promise!Unsigned = Unsigned
  BY DEF Promise!Unsigned, Unsigned
<1>2. Promise!NoContract = Contract(NoForm)
  BY DEF Promise!NoContract, Promise!Unsigned, Contract, NoForm
<1>3. Promise!vars = <<Contracts, Members, registered, Editing>>
  BY DEF Promise!vars, Contracts, Contract, Members, Of, Editing
<1> QED
  BY <1>1, <1>2, <1>3

\* The promise's Cardinality is that of the code's model.
LEMMA PromiseCounts ==
  ASSUME NEW S
  PROVE  Promise!Cardinality(S) = Cardinality(S)
BY DEF Promise!Cardinality, Cardinality

LEMMA ContractTells ==
  ASSUME NEW row \in Row
  PROVE  Contract(row) # Contract(NoForm)
<1>1. Contract(row).no # Contract(NoForm).no
  BY NothingIsNoParty DEF Contract, Row, NoForm
<1> QED
  BY <1>1

LEMMA ContractNumbers ==
  ASSUME NEW row
  PROVE  Contract(row).no = row.no
BY DEF Contract

\* The steps of the promise.
LEMMA PromiseRegisters ==
  ASSUME NEW f \in Forms, NEW no \in FormNos, Promise!Register(f, no)
  PROVE  Promise!Next
BY DEF Promise!Next

LEMMA PromiseGoesOn ==
  ASSUME NEW f \in Forms, Contracts[f] # Contract(NoForm),
         \/ \E s \in SessionNos : Promise!Store(f, s)
         \/ Promise!Complete(f)
         \/ \E signer \in [Parties -> Signers \cup {None}] : Promise!Sign(f, signer)
         \/ Promise!Edit(f)
         \/ Promise!EndEdit(f)
  PROVE  Promise!Next
<1>1. Contracts = [g \in Forms |-> [no |-> form[g].no, count |-> form[g].count, signer |-> form[g].signer]]
  BY DEF Contracts, Contract
<1> QED
  BY <1>1, PromiseSees DEF Promise!Next

LEMMA DraftIsUnsigned ==
  ASSUME NEW row \in Row, Matches(row), row.state = "draft"
  PROVE  row.signer = Unsigned
<1>1. row.signer \in [Parties -> Signers \cup {None}]
  BY DEF Row
<1>2. \A y \in Parties : row.signer[y] = None
  BY DEF Matches
<1> QED
  BY <1>1, <1>2 DEF Unsigned

\* A request that goes from one call that is no modification to another.
LEMMA EditsStay ==
  ASSUME HandshakeTypeOK, NEW p \in Requests, NEW r, Becomes(p, r),
         req[p].at # "modify", r.at # "modify"
  PROVE  Editing' = Editing
<1>1. \A q \in Requests : req'[q] = IF q = p THEN r ELSE req[q]
  BY DEF Becomes, HandshakeTypeOK
<1> QED
  BY <1>1 DEF Editing

\* A step of which the promise sees nothing.
LEMMA UnseenStep ==
  ASSUME UNCHANGED <<form, session, registered>>, Editing' = Editing
  PROVE  UNCHANGED Promise!vars
<1>1. Contracts' = Contracts
  BY DEF Contracts
<1>2. Members' = Members
  BY DEF Members, Of
<1> QED
  BY <1>1, <1>2 DEF Promise!vars, Contracts, Contract, Members, Of, Editing

\* SaveForm is the registration, or stops at a number that is taken.
LEMMA RegisterKept ==
  ASSUME IInv, NEW p \in Requests, NEW f \in Forms, SaveForm(p, f)
  PROVE  [Promise!Next]_(Promise!vars)
<1> USE DEF IInv
<1>1. CASE Taken(req[p].copy.no)
  <2>1. UNCHANGED <<form, session, registered>> /\ Becomes(p, Idle) /\ req[p].at # "modify"
    BY <1>1 DEF SaveForm, Answer
  <2>2. Editing' = Editing
    BY <2>1, IdleIsRequest, EditsStay
  <2> QED
    BY <2>1, <2>2, UnseenStep
<1>2. CASE ~Taken(req[p].copy.no)
  <2> DEFINE new == req[p].copy
             r == At("items", f, NoForm, req[p].todo)
  <2>1. /\ new \in Row /\ new.signer = Unsigned /\ form[f] = NoForm /\ req[p].at = "insert"
        /\ new.no \in FormNos /\ new.count \in 0..Cardinality(SessionNos)
    BY DraftIsUnsigned DEF SaveForm, Inserting, Row
  <2>2. form' = [form EXCEPT ![f] = new] /\ Becomes(p, r) /\ UNCHANGED <<session, registered>>
    BY <1>2 DEF SaveForm
  <2>3. r.at # "modify"
    BY DEF At
  <2>4. Editing' = Editing /\ Members' = Members
    BY <2>1, <2>2, <2>3, EditsStay DEF Members, Of
  <2>5. \A g \in Forms : form[g].no # new.no
    BY <1>2 DEF Taken
  <2> HIDE DEF new, r
  <2>6. \A g \in Forms : form'[g] = IF g = f THEN new ELSE form[g]
    BY <2>2 DEF HandshakeTypeOK
  <2>7. /\ Contracts[f] = Contract(NoForm)
        /\ \A g \in Forms : Contracts[g] = Contract(form[g])
        /\ \A g \in Forms : Contracts'[g] = Contract(form'[g])
    BY <2>1 DEF Contracts, Contract
  <2>8. \A g \in Forms : Contracts'[g].no = new.no <=> g = f
    <3>1. \A g \in Forms : Contracts'[g].no = form'[g].no
      BY <2>7, ContractNumbers
    <3>2. form'[f].no = new.no /\ \A g \in Forms : g # f => form'[g].no # new.no
      BY <2>5, <2>6
    <3> QED
      BY <3>1, <3>2
  <2>9. Contracts' = [Contracts EXCEPT ![f] = [no |-> new.no, count |-> new.count, signer |-> Unsigned]]
    <3>1. Contract(new) = [no |-> new.no, count |-> new.count, signer |-> Unsigned]
      BY <2>1 DEF Contract
    <3>2. \A g \in Forms : Contracts'[g] = IF g = f THEN Contract(new) ELSE Contracts[g]
      BY <2>6, <2>7
    <3>3. Contracts' = [Contracts EXCEPT ![f] = Contract(new)]
      <4>1. Contracts = [g \in Forms |-> Contracts[g]] /\ Contracts' = [g \in Forms |-> Contracts'[g]]
        BY DEF Contracts
      <4> QED
        BY <3>2, <4>1
    <3> QED
      BY <3>1, <3>3
  <2>10. PICK no \in FormNos : no = new.no
    BY <2>1
  <2>11. Promise!Register(f, no)
    BY <2>1, <2>10, <2>2, <2>4, <2>7, <2>8, <2>9, PromiseSees, PromiseCounts
       DEF Promise!Register, Contracts, Contract, Members, Of, Editing
  <2> QED
    BY <2>11, PromiseRegisters
<1> QED
  BY <1>1, <1>2

\* SaveItem stores a session of a form that is not complete, or stops.
LEMMA StoreKept ==
  ASSUME IInv, NEW p \in Requests, NEW s \in SessionNos, SaveItem(p, s)
  PROVE  [Promise!Next]_(Promise!vars)
<1> USE DEF IInv
<1>1. CASE session[s] # None
  <2>1. UNCHANGED <<form, session, registered>> /\ Becomes(p, Idle) /\ req[p].at # "modify"
    BY <1>1 DEF SaveItem, Answer
  <2>2. Editing' = Editing
    BY <2>1, IdleIsRequest, EditsStay
  <2> QED
    BY <2>1, <2>2, UnseenStep
<1>2. CASE session[s] = None
  <2>0. req[p].at = "items" /\ Storing(p)
    BY DEF SaveItem
  <2>1. PICK f \in Forms : f = req[p].form
    BY <2>0 DEF Storing
  <2> DEFINE r == At("items", f, NoForm, req[p].todo \ {s})
  <2>2. form[f] # NoForm /\ f \notin registered
    BY <2>0, <2>1 DEF Storing
  <2>3. session' = [session EXCEPT ![s] = f] /\ Becomes(p, r) /\ UNCHANGED <<form, registered>>
    BY <1>2, <2>1 DEF SaveItem
  <2>4. r.at # "modify"
    BY DEF At
  <2>5. Editing' = Editing /\ Contracts' = Contracts
    BY <2>0, <2>3, <2>4, EditsStay DEF Contracts
  <2> HIDE DEF r
  <2>6. Contracts[f] # Contract(NoForm)
    BY <2>2, ContractTells DEF HandshakeTypeOK, Contracts
  <2>7. \A g \in Forms : s \notin Members[g]
    BY <1>2, NothingIsNoParty DEF Members, Of
  <2>8. \A g \in Forms : Of(g)' = IF g = f THEN Of(g) \cup {s} ELSE Of(g)
    BY <1>2, <2>3, NothingIsNoParty DEF Of, HandshakeTypeOK
  <2>9. Members' = [Members EXCEPT ![f] = @ \cup {s}]
    BY <2>8 DEF Members
  <2>10. Promise!Store(f, s)
    BY <2>2, <2>3, <2>5, <2>7, <2>9
       DEF Promise!Store, Contracts, Contract, Members, Of, Editing
  <2> QED
    BY <2>6, <2>10, PromiseGoesOn
<1> QED
  BY <1>1, <1>2

\* Registered is the answer for a form that has all sessions it announced.
LEMMA CompleteKept ==
  ASSUME IInv, NEW p \in Requests, Registered(p)
  PROVE  [Promise!Next]_(Promise!vars)
<1> USE DEF IInv
<1>1. req[p].at = "items" /\ req[p].todo = {} /\ Storing(p)
  BY DEF Registered
<1>2. PICK f \in Forms : f = req[p].form
  BY <1>1 DEF Storing
<1>3. /\ form[f] # NoForm /\ form[f].count = Cardinality(Of(f)) + Cardinality({})
      /\ form[f] \in Row
  BY <1>1, <1>2 DEF Storing, HandshakeTypeOK
<1>4. registered' = registered \cup {f} /\ Becomes(p, Idle) /\ UNCHANGED <<form, session>>
  BY <1>2 DEF Registered, Answer
<1>5. Editing' = Editing /\ Contracts' = Contracts /\ Members' = Members
  BY <1>1, <1>4, IdleIsRequest, EditsStay DEF Contracts, Members, Of
<1>6. Cardinality(Members[f]) = Contracts[f].count
  <2>1. Cardinality({}) = 0 /\ IsFiniteSet(Of(f))
    BY FS_EmptySet, FS_Subset, SessionsAreFinite DEF Of
  <2>2. Cardinality(Of(f)) \in Nat
    BY <2>1, FS_CardinalityType
  <2> QED
    BY <1>3, <2>1, <2>2 DEF Members, Contracts, Contract
<1>7. Contracts[f] # Contract(NoForm)
  BY <1>3, ContractTells DEF Contracts
<1>8. Promise!Complete(f)
  BY <1>4, <1>5, <1>6, PromiseCounts DEF Promise!Complete, Contracts, Contract, Members, Of, Editing
<1> QED
  BY <1>7, <1>8, PromiseGoesOn

\* Attestation only reads the form, under the mutex.
LEMMA AttestationKept ==
  ASSUME IInv, NEW p \in Requests, NEW f \in Forms, NEW party \in Parties, NEW who \in Signers,
         Attestation(p, f, party, who)
  PROVE  UNCHANGED Promise!vars
<1> DEFINE r == At("attest", f, Signed(form[f], party, who), {})
<1>1. UNCHANGED <<form, session, registered>> /\ Becomes(p, r) /\ req[p].at # "modify"
  BY DEF Attestation
<1>2. r.at # "modify"
  BY DEF At
<1> HIDE DEF r
<1>3. Editing' = Editing
  BY <1>1, <1>2, EditsStay DEF IInv
<1> QED
  BY <1>1, <1>3, UnseenStep

\* Register only looks at the number.
LEMMA LookupKept ==
  ASSUME IInv, NEW p \in Requests, NEW no \in FormNos, NEW S \in SUBSET SessionNos,
         Register(p, no, S)
  PROVE  UNCHANGED Promise!vars
<1> DEFINE r == At("insert", None, NewForm(no, S), S)
<1>1. UNCHANGED <<form, session, registered>> /\ Becomes(p, r) /\ req[p].at # "modify"
  BY DEF Register
<1>2. r.at # "modify"
  BY DEF At
<1> HIDE DEF r
<1>3. Editing' = Editing
  BY <1>1, <1>2, EditsStay DEF IInv
<1> QED
  BY <1>1, <1>3, UnseenStep

\* Modify begins an edit of a draft, which nobody has signed.
LEMMA ModifyKept ==
  ASSUME IInv, NEW p \in Requests, NEW f \in Forms, Modify(p, f)
  PROVE  Promise!Next
<1> DEFINE r == At("modify", f, form[f], {})
<1>1. /\ UNCHANGED <<form, session, registered>> /\ Becomes(p, r)
      /\ req[p].at = "idle" /\ form[f].state = "draft"
  BY DEF Modify
<1>2. r.at = "modify" /\ r.form = f
  BY DEF At
<1> HIDE DEF r
<1>3. \A q \in Requests : req'[q] = IF q = p THEN r ELSE req[q]
  BY <1>1 DEF Becomes, IInv, HandshakeTypeOK
<1>4. Editing' = Editing \cup {f}
  BY <1>1, <1>2, <1>3 DEF Editing
<1>5. form[f] # NoForm
  BY <1>1 DEF NoForm
<1>6. form[f] \in Row /\ form[f].signer = Unsigned
  BY <1>1, <1>5, DraftIsUnsigned DEF IInv, HandshakeTypeOK, RowsMatch
<1>7. Contracts[f] # Contract(NoForm) /\ Contracts[f].signer = Unsigned
  BY <1>6, ContractTells DEF Contracts, Contract
<1>8. Contracts' = Contracts /\ Members' = Members
  BY <1>1 DEF Contracts, Members, Of
<1>9. Promise!Edit(f)
  BY <1>1, <1>4, <1>7, <1>8, PromiseSees
     DEF Promise!Edit, Contracts, Contract, Members, Of, Editing
<1> QED
  BY <1>7, <1>9, PromiseGoesOn

\* A modification that is over leaves the form to the others that edit it.
LEMMA EditEnds ==
  ASSUME HandshakeTypeOK, NEW p \in Requests, Becomes(p, Idle),
         NEW f \in Forms, req[p].form = f, req[p].at = "modify"
  PROVE  f \in Editing /\ Editing' \in {Editing, Editing \ {f}}
<1>1. \A q \in Requests : req'[q] = IF q = p THEN Idle ELSE req[q]
  BY DEF Becomes, HandshakeTypeOK
<1>2. f \in Editing
  BY DEF Editing
<1>3. CASE \E q \in Requests \ {p} : req[q].at = "modify" /\ req[q].form = f
  <2>1. Editing' = Editing
    BY <1>1, <1>3, IdleIsRequest DEF Editing
  <2> QED
    BY <1>2, <2>1
<1>4. CASE ~ \E q \in Requests \ {p} : req[q].at = "modify" /\ req[q].form = f
  <2>1. Editing' = Editing \ {f}
    BY <1>1, <1>4, IdleIsRequest DEF Editing
  <2> QED
    BY <1>2, <2>1
<1> QED
  BY <1>3, <1>4

\* A row that is written back has the number and the count of the one it replaces.
LEMMA WriteBackTells ==
  ASSUME IInv, NEW p \in Requests, NEW f \in Forms, req[p].form = f,
         req[p].at \in {"attest", "modify"},
         form' = [form EXCEPT ![f] = req[p].copy], UNCHANGED session
  PROVE  /\ Contracts[f] # Contract(NoForm) /\ Members' = Members
         /\ Contracts' = [Contracts EXCEPT ![f].signer = req[p].copy.signer]
<1> DEFINE new == req[p].copy
<1>1. /\ form[f] \in Row /\ new \in Row
      /\ form[f].no = new.no /\ form[f].count = new.count
  BY DEF IInv, HandshakeTypeOK, Writing
<1> HIDE DEF new
<1>2. \A g \in Forms : form'[g] = IF g = f THEN new ELSE form[g]
  BY DEF IInv, HandshakeTypeOK, new
<1>3. Contract(new) = [Contract(form[f]) EXCEPT !.signer = new.signer]
  BY <1>1 DEF Contract
<1>4. /\ Contracts[f] = Contract(form[f])
      /\ Contracts = [g \in Forms |-> Contracts[g]]
      /\ \A g \in Forms : Contracts[g] = Contract(form[g])
  BY DEF Contracts
<1>5. /\ Contracts' = [g \in Forms |-> Contracts'[g]]
      /\ \A g \in Forms : Contracts'[g] = Contract(form'[g])
  BY DEF Contracts, Contract
<1>6. \A g \in Forms : Contracts'[g] = IF g = f THEN Contract(new) ELSE Contracts[g]
  BY <1>2, <1>4, <1>5
<1>7. Contracts' = [Contracts EXCEPT ![f] = [@ EXCEPT !.signer = new.signer]]
  BY <1>3, <1>4, <1>5, <1>6
<1>8. Members' = Members
  BY DEF Members, Of
<1> QED
  BY <1>1, <1>4, <1>7, <1>8, ContractTells DEF new

\* Save signs, with every signature that is stored, or ends an edit.
LEMMA SaveKept ==
  ASSUME IInv, NEW p \in Requests, Save(p)
  PROVE  Promise!Next
<1>1. Writing(req[p]) /\ Attesting(p) /\ HandshakeTypeOK
  BY DEF IInv
<1>2. PICK f \in Forms : f = req[p].form
  BY <1>1 DEF Save, Writing
<1>3. PICK signer \in [Parties -> Signers \cup {None}] : signer = req[p].copy.signer
  BY <1>1 DEF Save, Writing, Row
<1>4. /\ req[p].at \in {"attest", "modify"} /\ Becomes(p, Idle)
      /\ form' = [form EXCEPT ![f] = req[p].copy] /\ UNCHANGED <<session, registered>>
  BY <1>2 DEF Save, Answer
<1>5. /\ Contracts[f] # Contract(NoForm) /\ Members' = Members
      /\ Contracts' = [Contracts EXCEPT ![f].signer = signer]
  BY <1>2, <1>3, <1>4, WriteBackTells
<1>6. CASE req[p].at = "attest"
  <2>1. Editing' = Editing
    BY <1>1, <1>4, <1>6, IdleIsRequest, EditsStay
  <2>2. \A y \in Parties : Contracts[f].signer[y] \in {None, signer[y]}
    BY <1>1, <1>2, <1>3, <1>6 DEF Attesting, Contracts, Contract
  <2>3. Promise!Sign(f, signer)
    BY <1>4, <1>5, <2>1, <2>2
       DEF Promise!Sign, Contracts, Contract, Members, Of, Editing
  <2> QED
    BY <1>5, <2>3, PromiseGoesOn
<1>7. CASE req[p].at = "modify"
  <2>1. f \in Editing /\ Editing' \in {Editing, Editing \ {f}}
    BY <1>1, <1>2, <1>4, <1>7, EditEnds
  <2>2. signer = Unsigned
    BY <1>1, <1>3, <1>7, DraftIsUnsigned DEF Writing
  <2>3. Promise!EndEdit(f)
    BY <1>4, <1>5, <2>1, <2>2, PromiseSees
       DEF Promise!EndEdit, Contracts, Contract, Members, Of, Editing
  <2> QED
    BY <1>5, <2>3, PromiseGoesOn
<1> QED
  BY <1>4, <1>6, <1>7

\* Abort gives an edit up; of any other request the promise sees nothing.
LEMMA AbortKept ==
  ASSUME IInv, NEW p \in Requests, Abort(p)
  PROVE  [Promise!Next]_(Promise!vars)
<1>1. Writing(req[p]) /\ HandshakeTypeOK
  BY DEF IInv
<1>2. Becomes(p, Idle) /\ UNCHANGED <<form, session, registered>>
  BY DEF Abort, Answer
<1>3. CASE req[p].at = "modify"
  <2>1. PICK f \in Forms : f = req[p].form
    BY <1>1, <1>3 DEF Writing
  <2>2. form[f] \in Row
    BY <1>1, <1>3, <2>1 DEF Writing, HandshakeTypeOK
  <2>3. Contracts[f] # Contract(NoForm)
    BY <2>2, ContractTells DEF Contracts
  <2>4. f \in Editing /\ Editing' \in {Editing, Editing \ {f}}
    BY <1>1, <1>2, <1>3, <2>1, EditEnds
  <2>5. Contracts' = Contracts /\ Members' = Members
    BY <1>2 DEF Contracts, Members, Of
  <2>6. Promise!EndEdit(f)
    BY <1>2, <2>4, <2>5
       DEF Promise!EndEdit, Contracts, Contract, Members, Of, Editing
  <2> QED
    BY <2>3, <2>6, PromiseGoesOn
<1>4. CASE req[p].at # "modify"
  <2>1. Editing' = Editing
    BY <1>1, <1>2, <1>4, IdleIsRequest, EditsStay
  <2> QED
    BY <1>2, <2>1, UnseenStep
<1> QED
  BY <1>3, <1>4

LEMMA PromiseStep ==
  ASSUME IInv, [HandshakeNext]_handshakeVars
  PROVE  [Promise!Next]_(Promise!vars)
<1>1. ASSUME UNCHANGED handshakeVars
      PROVE  [Promise!Next]_(Promise!vars)
  <2>1. UNCHANGED <<form, session, registered>> /\ UNCHANGED req
    BY <1>1 DEF handshakeVars
  <2>2. Editing' = Editing
    BY <2>1 DEF Editing
  <2> QED
    BY <2>1, <2>2, UnseenStep
<1>2. ASSUME NEW p \in Requests, NEW no \in FormNos, NEW S \in SUBSET SessionNos, Register(p, no, S)
      PROVE  [Promise!Next]_(Promise!vars)
  BY <1>2, LookupKept
<1>3. ASSUME NEW p \in Requests, NEW f \in Forms, SaveForm(p, f)
      PROVE  [Promise!Next]_(Promise!vars)
  BY <1>3, RegisterKept
<1>4. ASSUME NEW p \in Requests, NEW f \in Forms, Modify(p, f)
      PROVE  [Promise!Next]_(Promise!vars)
  BY <1>4, ModifyKept
<1>5. ASSUME NEW p \in Requests, NEW s \in SessionNos, SaveItem(p, s)
      PROVE  [Promise!Next]_(Promise!vars)
  BY <1>5, StoreKept
<1>6. ASSUME NEW p \in Requests, Registered(p)
      PROVE  [Promise!Next]_(Promise!vars)
  BY <1>6, CompleteKept
<1>7. ASSUME NEW p \in Requests, NEW f \in Forms, NEW party \in Parties, NEW who \in Signers,
             Attestation(p, f, party, who)
      PROVE  [Promise!Next]_(Promise!vars)
  BY <1>7, AttestationKept
<1>8. ASSUME NEW p \in Requests, Save(p)
      PROVE  [Promise!Next]_(Promise!vars)
  BY <1>8, SaveKept
<1>9. ASSUME NEW p \in Requests, Abort(p)
      PROVE  [Promise!Next]_(Promise!vars)
  BY <1>9, AbortKept
<1> QED
  BY <1>1, <1>2, <1>3, <1>4, <1>5, <1>6, <1>7, <1>8, <1>9 DEF HandshakeNext

LEMMA PromiseInit == HandshakeInit => Promise!Init
<1>1. HandshakeInit => Contracts = [f \in Forms |-> Contract(NoForm)]
  BY DEF HandshakeInit, Contracts
<1>2. HandshakeInit => Members = [f \in Forms |-> {}] /\ registered = {}
  BY NothingIsNoParty DEF HandshakeInit, Members, Of
<1>3. HandshakeInit => Editing = {}
  BY DEF HandshakeInit, Editing, Idle
<1> QED
  BY <1>1, <1>2, <1>3, PromiseSees
     DEF Promise!Init, Contracts, Contract, Members, Of, Editing

\* Whatever the requests at once, handshakes keep their promise: each step of
\* the code is a step of HandshakePromise or one it does not see.  A number is
\* of one form, since SaveForm looks again under the unique index; a complete
\* form keeps its sessions; a signature goes only with an edit of a draft.
THEOREM HandshakesKeepTheContract ==
  HandshakeSpec => ContractKept
<1>1. IInv /\ [HandshakeNext]_handshakeVars => [Promise!Next]_(Promise!vars)
  BY PromiseStep
<1> QED
  BY <1>1, PromiseInit, Inductive, PTL DEF HandshakeSpec, ContractKept, Promise!Spec
=============================================================================
