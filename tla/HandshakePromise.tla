-------------------------- MODULE HandshakePromise --------------------------
(***************************************************************************)
(* What handshakes promise: a form has a number of its own and the         *)
(* sessions that were announced with it, for good once it is complete; its *)
(* signatures only grow, save by an edit begun while nobody had signed,    *)
(* which may take all of them away.                                        *)
(***************************************************************************)
EXTENDS Naturals, FiniteSets

CONSTANTS None, Forms, FormNos, SessionNos, Parties, Signers

VARIABLES
  contract,  \* form -> its number, how many sessions it announced, who signed
  members,   \* form -> its sessions
  complete,  \* the forms whose registration was answered with success
  editing    \* the forms that were unsigned when an edit of them began

vars == <<contract, members, complete, editing>>

Unsigned == [y \in Parties |-> None]

NoContract == [no |-> None, count |-> 0, signer |-> Unsigned]

Init ==
  /\ contract = [f \in Forms |-> NoContract]
  /\ members = [f \in Forms |-> {}]
  /\ complete = {} /\ editing = {}

\* The number becomes that of this form and of no other.
Register(f, no) ==
  /\ contract[f] = NoContract
  /\ \A g \in Forms : contract'[g].no = no <=> g = f
  /\ \E n \in 0..Cardinality(SessionNos) :
       contract' = [contract EXCEPT ![f] = [no |-> no, count |-> n, signer |-> Unsigned]]
  /\ UNCHANGED <<members, complete, editing>>

Store(f, s) ==
  /\ f \notin complete
  /\ \A g \in Forms : s \notin members[g]
  /\ members' = [members EXCEPT ![f] = @ \cup {s}]
  /\ UNCHANGED <<contract, complete, editing>>

Complete(f) ==
  /\ Cardinality(members[f]) = contract[f].count
  /\ complete' = complete \cup {f}
  /\ UNCHANGED <<contract, members, editing>>

\* One signature or more are added: those that an edit took away meanwhile may
\* come back with a new one.
Sign(f, signer) ==
  /\ \A y \in Parties : contract[f].signer[y] \in {None, signer[y]}
  /\ contract' = [contract EXCEPT ![f].signer = signer]
  /\ UNCHANGED <<members, complete, editing>>

Edit(f) ==
  /\ contract[f].signer = Unsigned
  /\ editing' = editing \cup {f}
  /\ UNCHANGED <<contract, members, complete>>

\* Others may go on editing the form; an edit may be given up.
EndEdit(f) ==
  /\ f \in editing /\ editing' \in {editing, editing \ {f}}
  /\ contract' \in {contract, [contract EXCEPT ![f].signer = Unsigned]}
  /\ UNCHANGED <<members, complete>>

Next ==
  \E f \in Forms :
    \/ \E no \in FormNos : Register(f, no)
    \/ /\ contract[f] # NoContract
       /\ \/ \E s \in SessionNos : Store(f, s)
          \/ Complete(f)
          \/ \E signer \in [Parties -> Signers \cup {None}] : Sign(f, signer)
          \/ Edit(f) \/ EndEdit(f)

Spec == Init /\ [][Next]_vars
=============================================================================
