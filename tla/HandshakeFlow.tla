---------------------------- MODULE HandshakeFlow ----------------------------
(***************************************************************************)
(* Handshake forms: registration with their sessions, attestation by the   *)
(* two parties, and modification (internal/service/handshake.go and        *)
(* ModifyHandshake of internal/httpapi), over the tables handshake_forms   *)
(* and session_items.  One action is one call of the store with the code   *)
(* up to the next one.                                                     *)
(*                                                                         *)
(* Attestations exclude one another by a mutex of the process; a           *)
(* modification, which also reads a form and writes it back whole, does    *)
(* not take it.  A signer is who signed, None while the party's signed_at  *)
(* is empty.  Telemetry, audit and events, whose errors are ignored, are   *)
(* left out.                                                               *)
(***************************************************************************)
EXTENDS Nothing, Naturals, FiniteSets

CONSTANTS
  Forms,       \* ids uuid.NewString may return: bounds the forms
  FormNos,     \* form_no, chosen by clients, unique in the schema
  SessionNos,  \* session_no, chosen by clients, unique in the schema
  Signers,     \* who signs
  Requests     \* goroutines serving a request: bounds how many run at once

ASSUME NoneIsNothing == None \notin Forms \cup FormNos \cup SessionNos \cup Signers \cup Requests

\* One registration names finitely many sessions.
ASSUME SessionsAreFinite == IsFiniteSet(SessionNos)

VARIABLES
  form,        \* handshake_forms: id -> row
  session,     \* session_items: session_no -> the form it belongs to, or None
  mutex,       \* attestationMu: who holds it, or None
  req,         \* request -> its locals
  registered   \* history: the forms whose Register was answered with success

handshakeVars == <<form, session, mutex, req, registered>>

Parties == {"outbound", "arrival"}

HandshakeStates == {"draft", "outbound_signed", "arrival_signed", "authorized", "voided"}

Row == [no : FormNos, state : HandshakeStates, count : 0..Cardinality(SessionNos),
        signer : [Parties -> Signers \cup {None}]]

NoForm == [no |-> None, state |-> "absent", count |-> 0, signer |-> [y \in Parties |-> None]]

Request ==
  [at : {"idle", "insert", "items", "attest", "modify"}, form : Forms \cup {None},
   copy : Row \cup {NoForm}, todo : SUBSET SessionNos]

Idle == [at |-> "idle", form |-> None, copy |-> NoForm, todo |-> {}]

HandshakeTypeOK ==
  /\ form \in [Forms -> Row \cup {NoForm}]
  /\ session \in [SessionNos -> Forms \cup {None}]
  /\ mutex \in Requests \cup {None}
  /\ req \in [Requests -> Request]
  /\ registered \subseteq Forms

HandshakeInit ==
  /\ form = [f \in Forms |-> NoForm]
  /\ session = [s \in SessionNos |-> None]
  /\ mutex = None
  /\ req = [p \in Requests |-> Idle]
  /\ registered = {}

Unlock(p) == mutex' = IF mutex = p THEN None ELSE mutex

\* What a request goes on with.
Becomes(p, r) == req' = [req EXCEPT ![p] = r]

Answer(p) == Becomes(p, Idle)

At(where, f, row, S) == [at |-> where, form |-> f, copy |-> row, todo |-> S]

NewForm(no, S) ==
  [no |-> no, state |-> "draft", count |-> Cardinality(S), signer |-> NoForm.signer]

Taken(no) == \E f \in Forms : form[f].no = no

-----------------------------------------------------------------------------
(***************************************************************************)
(* Register: look the number up, insert the form, then each session.  When *)
(* an insert fails the request ends and what is there stays.  (A list that *)
(* names a session twice fails at the second insert, as an Abort does.)    *)
(***************************************************************************)

Register(p, no, S) ==
  /\ req[p].at = "idle" /\ ~Taken(no)
  /\ Becomes(p, At("insert", None, NewForm(no, S), S))
  /\ UNCHANGED <<form, session, mutex, registered>>

\* Defect: the insert does not look at the number again.
SaveForm_Unlooked(p, f) ==
  /\ req[p].at = "insert" /\ form[f] = NoForm
  /\ form' = [form EXCEPT ![f] = req[p].copy]
  /\ Becomes(p, At("items", f, NoForm, req[p].todo))
  /\ UNCHANGED <<session, mutex, registered>>

\* The number may have been taken since it was looked up.
SaveForm(p, f) ==
  /\ req[p].at = "insert" /\ form[f] = NoForm
  /\ IF Taken(req[p].copy.no)
     THEN Answer(p) /\ UNCHANGED form
     ELSE /\ form' = [form EXCEPT ![f] = req[p].copy]
          /\ Becomes(p, At("items", f, NoForm, req[p].todo))
  /\ UNCHANGED <<session, mutex, registered>>

\* Defect: an insert that fails is passed over.
SaveItem_Lenient(p, s) ==
  /\ req[p].at = "items" /\ s \in req[p].todo
  /\ session' = IF session[s] = None THEN [session EXCEPT ![s] = req[p].form] ELSE session
  /\ Becomes(p, At("items", req[p].form, NoForm, req[p].todo \ {s}))
  /\ UNCHANGED <<form, mutex, registered>>

SaveItem(p, s) ==
  /\ req[p].at = "items" /\ s \in req[p].todo
  /\ IF session[s] = None
     THEN /\ session' = [session EXCEPT ![s] = req[p].form]
          /\ Becomes(p, At("items", req[p].form, NoForm, req[p].todo \ {s}))
     ELSE Answer(p) /\ UNCHANGED session
  /\ UNCHANGED <<form, mutex, registered>>

Registered(p) ==
  /\ req[p].at = "items" /\ req[p].todo = {}
  /\ registered' = registered \cup {req[p].form}
  /\ Answer(p)
  /\ UNCHANGED <<form, session, mutex>>

-----------------------------------------------------------------------------
(***************************************************************************)
(* Attestation, under the mutex.                                           *)
(***************************************************************************)
HandshakeTransitions ==
  ({"draft"} \X {"outbound_signed", "arrival_signed", "voided"})
    \cup ({"outbound_signed"} \X {"arrival_signed", "authorized", "voided"})
    \cup ({"arrival_signed"} \X {"outbound_signed", "authorized", "voided"})

\* HandshakeNextStateAfterAttestation: the same state says that party may not sign.
NextState(state, party) ==
  CASE state = "draft" /\ party = "outbound"          -> "outbound_signed"
    [] state = "draft" /\ party = "arrival"           -> "arrival_signed"
    [] state = "outbound_signed" /\ party = "arrival" -> "authorized"
    [] state = "arrival_signed" /\ party = "outbound" -> "authorized"
    [] OTHER                                          -> state

MaySign(state, party) ==
  /\ state \notin {"authorized", "voided"}
  /\ NextState(state, party) # state
  /\ <<state, NextState(state, party)>> \in HandshakeTransitions

\* Defect: one party's name is written for the other.
Signed_Swapped(row, party, who) ==
  [row EXCEPT !.state = NextState(@, party),
              !.signer = [y \in Parties |-> IF y = party THEN @[y] ELSE who]]

Signed(row, party, who) ==
  [row EXCEPT !.state = NextState(@, party), !.signer[party] = who]

\* Defect: the mutex is not taken.
Attestation_Unlocked(p, f, party, who) ==
  /\ req[p].at = "idle" /\ form[f] # NoForm /\ MaySign(form[f].state, party)
  /\ Becomes(p, At("attest", f, Signed(form[f], party, who), {}))
  /\ UNCHANGED <<form, session, mutex, registered>>

Attestation(p, f, party, who) ==
  /\ req[p].at = "idle" /\ mutex = None
  /\ form[f] # NoForm /\ MaySign(form[f].state, party)
  /\ mutex' = p
  /\ Becomes(p, At("attest", f, Signed(form[f], party, who), {}))
  /\ UNCHANGED <<form, session, registered>>

\* ModifyHandshake reads a form that is a draft, without the mutex; what it
\* changes of it (products, owner) is not in the model.
Modify(p, f) ==
  /\ req[p].at = "idle" /\ form[f].state = "draft"
  /\ Becomes(p, At("modify", f, form[f], {}))
  /\ UNCHANGED <<form, session, mutex, registered>>

\* The whole row is written back.
Save(p) ==
  /\ req[p].at \in {"attest", "modify"}
  /\ form' = [form EXCEPT ![req[p].form] = req[p].copy]
  /\ Unlock(p)
  /\ Answer(p)
  /\ UNCHANGED <<session, registered>>

\* A call fails, the client is gone or the process dies.
Abort(p) ==
  /\ req[p].at # "idle"
  /\ Unlock(p)
  /\ Answer(p)
  /\ UNCHANGED <<form, session, registered>>

HandshakeNext ==
  \E p \in Requests :
    \/ \E no \in FormNos, S \in SUBSET SessionNos : Register(p, no, S)
    \/ \E f \in Forms : SaveForm(p, f) \/ Modify(p, f)
    \/ \E s \in SessionNos : SaveItem(p, s)
    \/ Registered(p)
    \/ \E f \in Forms, party \in Parties, who \in Signers : Attestation(p, f, party, who)
    \/ Save(p) \/ Abort(p)

HandshakeSpec == HandshakeInit /\ [][HandshakeNext]_handshakeVars

-----------------------------------------------------------------------------
(***************************************************************************)
(* Properties.                                                             *)
(***************************************************************************)

\* A form whose registration was answered with success has all its sessions,
\* whoever registers the same session numbers meanwhile.
RegisteredWhole ==
  \A f \in registered : Cardinality({s \in SessionNos : session[s] = f}) = form[f].count

\* The state tells who has signed, also after stale copies were written back.
StateMatchesSigners ==
  \A f \in Forms : LET signed == {y \in Parties : form[f].signer[y] # None} IN
    CASE form[f].state = "outbound_signed" -> signed = {"outbound"}
      [] form[f].state = "arrival_signed"  -> signed = {"arrival"}
      [] form[f].state = "authorized"      -> signed = Parties
      [] OTHER                             -> signed = {}

\* A signature that is stored is neither replaced nor lost by any number of
\* attestations at once; only a modification that had read the form as a
\* draft can take it away.
SignatureStays ==
  [][\A f \in Forms, y \in Parties :
       form[f].signer[y] # None /\ form'[f].signer[y] # form[f].signer[y] =>
         \E p \in Requests : req[p].at = "modify" /\ req[p].form = f /\ req'[p] = Idle]_handshakeVars

-----------------------------------------------------------------------------
Promise == INSTANCE HandshakePromise WITH
  contract <- [f \in Forms |->
                 [no |-> form[f].no, count |-> form[f].count, signer |-> form[f].signer]],
  members  <- [f \in Forms |-> {s \in SessionNos : session[s] = f}],
  complete <- registered,
  editing  <- {f \in Forms : \E p \in Requests : req[p].at = "modify" /\ req[p].form = f}

\* Register, Attestation and ModifyHandshake with their separate reads and
\* writes, the looked-up number and the mutex keep the promise: numbers are
\* unique, complete forms keep their sessions, and signatures grow.
ContractKept == Promise!Spec
=============================================================================
