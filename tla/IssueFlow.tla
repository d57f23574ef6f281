------------------------------ MODULE IssueFlow ------------------------------
(***************************************************************************)
(* Certification issues and the login sessions that guard them: auth and   *)
(* charging of internal/, over the tables auth_sessions and                *)
(* charging_issues.  One action is one call of the store, or one critical  *)
(* section of the login service's mutex, with the code up to the next one. *)
(*                                                                         *)
(* A session is kept twice, in the table and in the memory of the process, *)
(* which answers first.  A request proves its role once, reads the issue,  *)
(* and writes it with an update that compares the version it has read.     *)
(***************************************************************************)
EXTENDS Nothing, Naturals

CONSTANTS
  Users,       \* rows of auth_users
  RoleOf,      \* user -> role
  Tokens,      \* tokens randomToken may draw: bounds the logins
  OwnerOf,     \* token -> the user it will be drawn for
  ShortLived,  \* tokens that expire while we look: bounds the passing of time
  Vendors,     \* ids a client names as vendor: bounds its inputs
  Issues,      \* ids clients report issues under
  Requests,    \* goroutines serving a request: bounds how many run at once
  MaxVersion   \* bounds the updates of an issue

\* None is the empty string.

Roles == {"auditor", "labreviewer", "vendorengineer", "testengineer"}

ASSUME RolesKnown == RoleOf \in [Users -> Roles]
ASSUME OwnersKnown == OwnerOf \in [Tokens -> Users]
ASSUME BoundsKnown == ShortLived \subseteq Tokens /\ Vendors \subseteq Users
ASSUME NoneIsNobody == None \notin Users \cup Tokens \cup Issues
ASSUME VersionsBounded == MaxVersion \in Nat \ {0}

VARIABLES
  mem,      \* Service.sessions: token -> "absent", "active" or "revoked"
  table,    \* auth_sessions: the same, as stored
  expired,  \* the tokens whose expires_at is past
  product,  \* is there a product to report issues of?
  issue,    \* charging_issues: id -> row
  req       \* request -> its locals

vars == <<mem, table, expired, product, issue, req>>

SessionStatus == {"absent", "active", "revoked"}

IssueStates == {"open", "assigned", "mitigated", "certified", "retest_required"}

Row == [state : IssueStates, assignee : Users \cup {None},
        evidence : Users \cup {None}, version : 1..MaxVersion]

NoRow == [state |-> "absent", assignee |-> None, evidence |-> None, version |-> 0]

Ops == {"logout", "product", "report", "assign", "mitigate", "certify"}

Request ==
  [at : {"idle", "login", "find", "ready", "locked", "update"}, op : Ops \cup {None},
   token : Tokens \cup {None}, issue : Issues \cup {None}, version : 0..MaxVersion,
   state : IssueStates \cup {None}, assignee : Users \cup {None}, evidence : Users \cup {None}]

Idle ==
  [at |-> "idle", op |-> None, token |-> None, issue |-> None, version |-> 0,
   state |-> None, assignee |-> None, evidence |-> None]

TypeOK ==
  /\ mem \in [Tokens -> SessionStatus]
  /\ table \in [Tokens -> SessionStatus]
  /\ expired \subseteq Tokens
  /\ product \in BOOLEAN
  /\ issue \in [Issues -> Row \cup {NoRow}]
  /\ req \in [Requests -> Request]

Init ==
  /\ mem = [t \in Tokens |-> "absent"]
  /\ table = [t \in Tokens |-> "absent"]
  /\ expired = {}
  /\ product = FALSE
  /\ issue = [i \in Issues |-> NoRow]
  /\ req = [p \in Requests |-> Idle]

User(p) == OwnerOf[req[p].token]

Answer(p) == req' = [req EXCEPT ![p] = Idle]

\* While a logout is between the table and the memory it holds the mutex.
Locked == \E p \in Requests : req[p].at = "locked"

-----------------------------------------------------------------------------
(***************************************************************************)
(* Login and the passing of time.                                          *)
(***************************************************************************)
Login(p, t) ==
  /\ req[p].at = "idle" /\ ~Locked
  /\ mem[t] = "absent" /\ table[t] = "absent"
  /\ mem' = [mem EXCEPT ![t] = "active"]
  /\ req' = [req EXCEPT ![p].at = "login", ![p].token = t]
  /\ UNCHANGED <<table, expired, product, issue>>

\* The client learns its token once the row is there.
SaveSession(p) ==
  /\ req[p].at = "login"
  /\ table' = [table EXCEPT ![req[p].token] = "active"]
  /\ Answer(p)
  /\ UNCHANGED <<mem, expired, product, issue>>

Expire(t) ==
  /\ t \in ShortLived \ expired /\ table[t] = "active"
  /\ expired' = expired \cup {t}
  /\ UNCHANGED <<mem, table, product, issue, req>>

-----------------------------------------------------------------------------
(***************************************************************************)
(* Authenticate and RequireRole: the memory is asked first, the table when *)
(* it does not know the token.                                             *)
(***************************************************************************)
Allowed(op) ==
  CASE op = "logout"               -> Roles
    [] op \in {"product", "assign"} -> {"labreviewer", "auditor"}
    [] op = "report"               -> {"testengineer", "auditor"}
    [] op = "mitigate"             -> {"vendorengineer"}
    [] op = "certify"              -> {"testengineer", "labreviewer"}

\* Only active sessions of the right role go on; others are answered.
Check(p, status, t, op) ==
  req' = [req EXCEPT ![p] =
            IF status = "active" /\ t \notin expired /\ RoleOf[OwnerOf[t]] \in Allowed(op)
            THEN [Idle EXCEPT !.at = "ready", !.op = op, !.token = t]
            ELSE Idle]

\* Defect: the memory is read without the mutex.
Authenticate_Unlocked(p, t, op) ==
  /\ req[p].at = "idle" /\ table[t] # "absent"
  /\ IF mem[t] = "absent"
     THEN req' = [req EXCEPT ![p].at = "find", ![p].token = t]
     ELSE Check(p, mem[t], t, op)
  /\ UNCHANGED <<mem, table, expired, product, issue>>

Authenticate(p, t, op) ==
  /\ req[p].at = "idle" /\ table[t] # "absent" /\ ~Locked
  /\ IF mem[t] = "absent"
     THEN req' = [req EXCEPT ![p].at = "find", ![p].token = t]
     ELSE Check(p, mem[t], t, op)
  /\ UNCHANGED <<mem, table, expired, product, issue>>

\* What the request is for matters from here on.
FindSession(p, op) ==
  /\ req[p].at = "find"
  /\ Check(p, table[req[p].token], req[p].token, op)
  /\ UNCHANGED <<mem, table, expired, product, issue>>

-----------------------------------------------------------------------------
(***************************************************************************)
(* Logout: under the mutex the row is revoked, if nobody has done so, then *)
(* the memory.                                                             *)
(***************************************************************************)
Revoke(p) ==
  LET t == req[p].token
  IN  /\ req[p].at = "ready" /\ req[p].op = "logout" /\ ~Locked
      /\ IF table[t] = "active"
         THEN /\ table' = [table EXCEPT ![t] = "revoked"]
              /\ req' = [req EXCEPT ![p].at = "locked"]
         ELSE /\ Answer(p)
              /\ UNCHANGED table
      /\ UNCHANGED <<mem, expired, product, issue>>

Forget(p) ==
  /\ req[p].at = "locked"
  /\ mem' = [mem EXCEPT ![req[p].token] = "revoked"]
  /\ Answer(p)
  /\ UNCHANGED <<table, expired, product, issue>>

-----------------------------------------------------------------------------
(***************************************************************************)
(* Products and issues.                                                    *)
(***************************************************************************)
CreateProduct(p) ==
  /\ req[p].at = "ready" /\ req[p].op = "product"
  /\ product' = TRUE
  /\ Answer(p)
  /\ UNCHANGED <<mem, table, expired, issue>>

\* ReportIssue: the client's record is inserted with its state, author and
\* version replaced, so that assignee and evidence are whatever it sent.
ReportIssue(p, i, assignee, evidence) ==
  /\ req[p].at = "ready" /\ req[p].op = "report" /\ evidence \in {None, User(p)}
  /\ product /\ issue[i] = NoRow
  /\ issue' = [issue EXCEPT ![i] = [state |-> "open", assignee |-> assignee,
                                    evidence |-> evidence, version |-> 1]]
  /\ Answer(p)
  /\ UNCHANGED <<mem, table, expired, product>>

IssueTransitions ==
  {<<"open", "assigned">>, <<"assigned", "mitigated">>, <<"mitigated", "certified">>,
   <<"mitigated", "retest_required">>, <<"retest_required", "assigned">>}

\* Staying put is always accepted.
CanTransition(from, to) == from = to \/ <<from, to>> \in IssueTransitions

\* The issue is read and judged; the update that follows carries its version.
Read(p, i, next, assignee, evidence) ==
  /\ req[p].at = "ready" /\ issue[i] # NoRow
  /\ CanTransition(issue[i].state, next)
  /\ req' = [req EXCEPT ![p] = [Idle EXCEPT !.at = "update", !.issue = i,
                !.version = issue[i].version, !.state = next,
                !.assignee = assignee, !.evidence = evidence]]
  /\ UNCHANGED <<mem, table, expired, product, issue>>

AssignIssue(p, i, vendor) ==
  req[p].op = "assign" /\ Read(p, i, "assigned", vendor, None)

\* Defect: whose issue it is does not matter.
MitigateIssue_Anyone(p, i) ==
  req[p].op = "mitigate" /\ Read(p, i, "mitigated", User(p), User(p))

MitigateIssue(p, i) ==
  /\ req[p].op = "mitigate"
  /\ issue[i].assignee \in {None, User(p)}
  /\ Read(p, i, "mitigated", User(p), User(p))

\* Defect: evidence and reviewer's judgement are not recorded.
CertifyIssue_Silent(p, i) ==
  req[p].op = "certify" /\ Read(p, i, "certified", None, None)

CertifyIssue(p, i) ==
  req[p].op = "certify" /\ Read(p, i, "certified", None, User(p))

\* An empty string keeps what is there.
Keep(old, new) == IF new = None THEN old ELSE new

Updated(row, r) ==
  [state |-> r.state, assignee |-> Keep(row.assignee, r.assignee),
   evidence |-> Keep(row.evidence, r.evidence), version |-> row.version + 1]

\* Defect: the version is not compared.
TransitionIssue_Blind(p) ==
  LET r == req[p] IN
  /\ r.at = "update" /\ issue[r.issue].version < MaxVersion
  /\ issue' = [issue EXCEPT ![r.issue] = Updated(@, r)]
  /\ Answer(p)
  /\ UNCHANGED <<mem, table, expired, product>>

\* The row is updated where id and version match; no match is a conflict.
TransitionIssue(p) ==
  LET r == req[p] IN
  /\ r.at = "update" /\ issue[r.issue].version < MaxVersion
  /\ issue' = IF issue[r.issue].version = r.version
              THEN [issue EXCEPT ![r.issue] = Updated(@, r)]
              ELSE issue
  /\ Answer(p)
  /\ UNCHANGED <<mem, table, expired, product>>

-----------------------------------------------------------------------------
(***************************************************************************)
(* A call fails, a check refuses, or the client is gone.  A logout that    *)
(* has revoked the row makes no further call that could fail.  An update   *)
(* that fails has changed nothing: that a single statement is committed    *)
(* and still reported as failed is not represented.                        *)
(***************************************************************************)
Abort(p) ==
  /\ req[p].at \notin {"idle", "locked"}
  /\ Answer(p)
  /\ UNCHANGED <<mem, table, expired, product, issue>>

\* The process dies and is started again: tables stay.
Restart ==
  /\ mem' = [t \in Tokens |-> "absent"]
  /\ req' = [p \in Requests |-> Idle]
  /\ UNCHANGED <<table, expired, product, issue>>

Next ==
  \/ \E p \in Requests :
       \/ \E t \in Tokens : Login(p, t) \/ (\E op \in Ops : Authenticate(p, t, op))
       \/ \E op \in Ops : FindSession(p, op)
       \/ SaveSession(p) \/ Revoke(p) \/ Forget(p)
       \/ CreateProduct(p) \/ TransitionIssue(p) \/ Abort(p)
       \/ \E i \in Issues :
            \/ \E u \in Vendors \cup {None}, v \in Users \cup {None} : ReportIssue(p, i, u, v)
            \/ \E u \in Vendors \cup {None} : AssignIssue(p, i, u)
            \/ MitigateIssue(p, i)
            \/ CertifyIssue(p, i)
  \/ \E t \in Tokens : Expire(t)
  \/ Restart

Spec == Init /\ [][Next]_vars

-----------------------------------------------------------------------------
(***************************************************************************)
(* Properties.                                                             *)
(***************************************************************************)

\* "Revoked at once": whoever passes Authenticate holds a session that is
\* active in the table at that moment, although the memory is asked first,
\* logins and logouts overlap, and the process restarts.
AcceptedIsActive ==
  [][\A p \in Requests : req[p].at \in {"idle", "find"} /\ req'[p].at = "ready" =>
       table[req'[p].token] = "active" /\ req'[p].token \notin expired]_vars

\* An issue moves along its state machine only, in particular it never leaves
\* "certified", whatever copies the writers have read.
LegalSteps ==
  [][\A i \in Issues : issue[i] # NoRow =>
       CanTransition(issue[i].state, issue'[i].state)]_vars

\* Nobody mitigates an issue that at that moment is assigned to somebody else.
AssigneeMitigates ==
  [][\A i \in Issues : issue[i].state # "mitigated" /\ issue'[i].state = "mitigated" =>
       issue[i].assignee \in {None, issue'[i].assignee}]_vars

MitigatedByVendor(row) ==
  /\ row.assignee \in Users
  /\ RoleOf[row.assignee] = "vendorengineer"

\* Four eyes: what is certified was mitigated by a vendor's engineer, and its
\* evidence is by a tester or a reviewer; what is mitigated carries the
\* evidence of its assignee.
FourEyes ==
  \A i \in Issues :
    /\ issue[i].state = "mitigated" =>
         MitigatedByVendor(issue[i]) /\ issue[i].evidence = issue[i].assignee
    /\ issue[i].state = "certified" =>
         /\ MitigatedByVendor(issue[i])
         /\ issue[i].evidence \in Users
         /\ RoleOf[issue[i].evidence] \in {"testengineer", "labreviewer"}
=============================================================================
