---------------------------- MODULE IssueProofs ----------------------------
(***************************************************************************)
(* Proofs about IssueFlow, for any users, tokens, issues and requests.     *)
(*                                                                         *)
(* IssueBase is inductive: each request carries a proved role or a         *)
(* judgement on an issue that holds while the issue keeps its version.     *)
(***************************************************************************)
EXTENDS IssueInv, TLAPS

\* A request that is done carries nothing.
LEMMA IdleIsFine == Idle \in Request /\ RequestOK(Idle) /\ UpdateOK(Idle)
BY VersionsBounded DEF Idle, Request, RequestOK, UpdateOK

\* What a request that starts idle and is given a place, an operation and a
\* token looks like.
LEMMA ReadyRecord ==
  ASSUME NEW t \in Tokens, NEW op \in Ops
  PROVE  LET r == [Idle EXCEPT !.at = "ready", !.op = op, !.token = t]
         IN  r \in Request /\ r.at = "ready" /\ r.token = t /\ r.op = op
<1> DEFINE r == [Idle EXCEPT !.at = "ready", !.op = op, !.token = t]
<1>1. r \in Request
  BY IdleIsFine DEF Request
<1>2. r.at = "ready" /\ r.token = t /\ r.op = op
  BY IdleIsFine DEF Request
<1> QED
  BY <1>1, <1>2

\* At the start nobody has a session and no request carries anything.
LEMMA InitBase == Init => IssueBase
<1> SUFFICES ASSUME Init PROVE IssueBase
  OBVIOUS
<1>1. TypeOK
  BY IdleIsFine DEF Init, TypeOK, SessionStatus
<1>2. CacheAgrees
  BY DEF Init, CacheAgrees
<1>3. \A p \in Requests : RequestOK(req[p]) /\ UpdateOK(req[p])
  BY IdleIsFine DEF Init
<1> QED
  BY <1>1, <1>2, <1>3 DEF IssueBase

\* A step of one request that leaves tables, memory and mutex alone.
LEMMA QuietStep ==
  ASSUME IssueBase, NEW p \in Requests, NEW r \in Request,
         req' = [req EXCEPT ![p] = r],
         req[p].at # "locked",
         RequestOK(r), UpdateOK(r),
         UNCHANGED <<mem, table, expired, issue>>, product' \in BOOLEAN
  PROVE  IssueBase'
<1>1. TypeOK'
  BY DEF IssueBase, TypeOK
<1>2. \A q \in Requests : req'[q] = IF q = p THEN r ELSE req[q]
  BY DEF IssueBase, TypeOK
<1>3. CacheAgrees'
  <2> SUFFICES ASSUME NEW t \in Tokens, mem[t] = "active", table[t] # "absent"
               PROVE  table[t] = "active" \/ \E q \in Requests :
                        req'[q].at = "locked" /\ req'[q].token = t
    BY DEF CacheAgrees
  <2> QED
    BY <1>2 DEF IssueBase, CacheAgrees
<1>4. \A q \in Requests : RequestOK(req'[q]) /\ UpdateOK(req'[q])
  BY <1>2 DEF IssueBase
<1>5. \A q \in Requests : (RequestOK(req[q]) /\ UpdateOK(req[q]))'
  BY <1>4 DEF RequestOK, UpdateOK
<1> QED
  BY <1>1, <1>3, <1>5 DEF IssueBase

\* Same, for a request that is answered.
LEMMA AnswerStep ==
  ASSUME IssueBase, NEW p \in Requests, Answer(p), req[p].at # "locked",
         UNCHANGED <<mem, table, expired, issue>>, product' \in BOOLEAN
  PROVE  IssueBase'
BY IdleIsFine, QuietStep DEF Answer

\* Whoever passes the check has proved its role.
LEMMA CheckStep ==
  ASSUME IssueBase, NEW p \in Requests, NEW t \in Tokens, NEW op \in Ops, NEW status,
         Check(p, status, t, op), req[p].at # "locked",
         UNCHANGED <<mem, table, expired, product, issue>>
  PROVE  IssueBase'
<1> DEFINE r == [Idle EXCEPT !.at = "ready", !.op = op, !.token = t]
<1>0. product' \in BOOLEAN
  BY DEF IssueBase, TypeOK
<1>1. CASE status = "active" /\ t \notin expired /\ RoleOf[OwnerOf[t]] \in Allowed(op)
  <2>1. req' = [req EXCEPT ![p] = r]
    BY <1>1 DEF Check
  <2>2. r \in Request /\ r.at = "ready" /\ r.token = t /\ r.op = op
    BY ReadyRecord
  <2> HIDE DEF r
  <2>3. RequestOK(r) /\ UpdateOK(r)
    BY <1>1, <2>2 DEF RequestOK, UpdateOK
  <2> QED
    BY <1>0, <2>1, <2>2, <2>3, QuietStep
<1>2. CASE ~(status = "active" /\ t \notin expired /\ RoleOf[OwnerOf[t]] \in Allowed(op))
  <2>1. Answer(p)
    BY <1>2 DEF Check, Answer
  <2> QED
    BY <1>0, <2>1, AnswerStep
<1> QED
  BY <1>1, <1>2

\* Whoever reads an issue carries a judgement that holds for it as read.
LEMMA ReadStep ==
  ASSUME IssueBase, NEW p \in Requests, NEW i \in Issues,
         NEW next \in {"assigned", "mitigated", "certified"},
         NEW a \in Users \cup {None}, NEW e \in Users \cup {None},
         Read(p, i, next, a, e),
         next = "mitigated" => /\ a \in Users /\ e = a /\ RoleOf[a] = "vendorengineer"
                               /\ issue[i].assignee \in {None, a},
         next = "certified" => /\ a = None /\ e \in Users
                               /\ RoleOf[e] \in {"testengineer", "labreviewer"}
  PROVE  IssueBase'
<1> DEFINE r == [Idle EXCEPT !.at = "update", !.issue = i, !.version = issue[i].version,
                   !.state = next, !.assignee = a, !.evidence = e]
<1>0. product' \in BOOLEAN
  BY DEF IssueBase, TypeOK, Read
<1>1. req' = [req EXCEPT ![p] = r] /\ req[p].at = "ready"
      /\ UNCHANGED <<mem, table, expired, issue>>
  BY DEF Read
<1>2. issue[i] \in Row
  BY DEF Read, IssueBase, TypeOK
<1>3. issue[i].version \in 1 .. MaxVersion
  BY <1>2 DEF Row
<1>4. /\ r.at = "update" /\ r.issue = i /\ r.version = issue[i].version
      /\ r.state = next /\ r.assignee = a /\ r.evidence = e
  BY DEF Idle
<1>5. r \in Request
  <2>1. issue[i].version \in 0 .. MaxVersion /\ next \in IssueStates
    BY <1>3, VersionsBounded DEF IssueStates
  <2> QED
    BY <2>1, IdleIsFine DEF Request
<1> HIDE DEF r
<1>6. RequestOK(r)
  BY <1>4 DEF RequestOK
<1>7. Fresh(issue[i], r)
  BY <1>4 DEF Read, Fresh
<1>8. UpdateOK(r)
  BY <1>3, <1>4, <1>7, VersionsBounded DEF UpdateOK, MitigatedByVendor
<1> QED
  BY <1>0, <1>1, <1>5, <1>6, <1>8, QuietStep

-----------------------------------------------------------------------------
\* Sessions: what the memory says of a token stays backed by the table, or by
\* the logout that is about to correct it.

\* A login makes the memory active and is about to write the row.
LEMMA LoginBase ==
  ASSUME IssueBase, NEW p \in Requests, NEW t \in Tokens, Login(p, t)
  PROVE  IssueBase'
<1> DEFINE r == [req[p] EXCEPT !.at = "login", !.token = t]
<1>1. req[p] \in Request /\ req' = [req EXCEPT ![p] = r]
  BY DEF Login, IssueBase, TypeOK
<1>2. r \in Request /\ r.at = "login" /\ r.token = t
  BY <1>1 DEF Request
<1> HIDE DEF r
<1>3. \A q \in Requests : req'[q] = IF q = p THEN r ELSE req[q]
  BY <1>1 DEF IssueBase, TypeOK
<1>4. TypeOK'
  BY <1>1, <1>2 DEF Login, IssueBase, TypeOK, SessionStatus
<1>5. CacheAgrees'
  <2> SUFFICES ASSUME NEW u \in Tokens, mem'[u] = "active", table'[u] # "absent"
               PROVE  table'[u] = "active" \/ \E q \in Requests :
                        req'[q].at = "locked" /\ req'[q].token = u
    BY DEF CacheAgrees
  <2>1. u # t /\ mem[u] = "active" /\ table' = table
    BY DEF Login, IssueBase, TypeOK
  <2>2. req[p].at = "idle"
    BY DEF Login
  <2> QED
    BY <1>3, <2>1, <2>2 DEF IssueBase, CacheAgrees
<1>6. \A q \in Requests : RequestOK(req'[q]) /\ UpdateOK(req'[q])
  BY <1>2, <1>3 DEF IssueBase, RequestOK, UpdateOK
<1>7. \A q \in Requests : (RequestOK(req[q]) /\ UpdateOK(req[q]))'
  BY <1>6 DEF RequestOK, UpdateOK, Login
<1> QED
  BY <1>4, <1>5, <1>7 DEF IssueBase

\* The row a login writes agrees with the memory, which knows of it already.
LEMMA SaveSessionBase ==
  ASSUME IssueBase, NEW p \in Requests, SaveSession(p)
  PROVE  IssueBase'
<1>1. req[p].token \in Tokens
  BY DEF SaveSession, IssueBase, RequestOK
<1>2. \A q \in Requests : req'[q] = IF q = p THEN Idle ELSE req[q]
  BY DEF SaveSession, Answer, IssueBase, TypeOK
<1>3. TypeOK'
  BY <1>1, IdleIsFine DEF SaveSession, Answer, IssueBase, TypeOK, SessionStatus
<1>4. CacheAgrees'
  <2> SUFFICES ASSUME NEW u \in Tokens, mem'[u] = "active", table'[u] # "absent",
                      table'[u] # "active"
               PROVE  \E q \in Requests : req'[q].at = "locked" /\ req'[q].token = u
    BY DEF CacheAgrees
  <2>1. u # req[p].token /\ mem[u] = "active" /\ table'[u] = table[u]
    BY <1>1 DEF SaveSession, IssueBase, TypeOK
  <2>2. req[p].at = "login"
    BY DEF SaveSession
  <2> QED
    BY <1>2, <2>1, <2>2 DEF IssueBase, CacheAgrees
<1>5. \A q \in Requests : RequestOK(req'[q]) /\ UpdateOK(req'[q])
  BY <1>2, IdleIsFine DEF IssueBase
<1>6. \A q \in Requests : (RequestOK(req[q]) /\ UpdateOK(req[q]))'
  BY <1>5 DEF RequestOK, UpdateOK, SaveSession
<1> QED
  BY <1>3, <1>4, <1>6 DEF IssueBase

\* A logout revokes the row and holds the mutex until the memory knows it.
LEMMA RevokeBase ==
  ASSUME IssueBase, NEW p \in Requests, Revoke(p)
  PROVE  IssueBase'
<1> DEFINE t == req[p].token
           r == [req[p] EXCEPT !.at = "locked"]
<1>0. t \in Tokens /\ req[p].at = "ready" /\ req[p] \in Request
  BY DEF Revoke, IssueBase, RequestOK, TypeOK
<1>1. CASE table[t] = "active"
  <2>1. req' = [req EXCEPT ![p] = r] /\ table' = [table EXCEPT ![t] = "revoked"]
        /\ UNCHANGED <<mem, expired, product, issue>>
    BY <1>1 DEF Revoke
  <2>2. r \in Request /\ r.at = "locked" /\ r.token = t
    BY <1>0 DEF Request
  <2> HIDE DEF r, t
  <2>3. \A q \in Requests : req'[q] = IF q = p THEN r ELSE req[q]
    BY <2>1 DEF IssueBase, TypeOK
  <2>4. TypeOK'
    BY <1>0, <2>1, <2>2 DEF IssueBase, TypeOK, SessionStatus
  <2>5. CacheAgrees'
    <3> SUFFICES ASSUME NEW u \in Tokens, mem'[u] = "active", table'[u] # "absent"
                 PROVE  table'[u] = "active" \/ \E q \in Requests :
                          req'[q].at = "locked" /\ req'[q].token = u
      BY DEF CacheAgrees
    <3>1. CASE u = t
      BY <2>2, <2>3, <3>1
    <3>2. CASE u # t
      <4>1. table'[u] = table[u] /\ mem[u] = "active"
        BY <2>1, <3>2 DEF IssueBase, TypeOK
      <4> QED
        BY <1>0, <2>3, <4>1 DEF IssueBase, CacheAgrees
    <3> QED
      BY <3>1, <3>2
  <2>6. \A q \in Requests : RequestOK(req'[q]) /\ UpdateOK(req'[q])
    BY <1>0, <2>2, <2>3 DEF IssueBase, RequestOK, UpdateOK
  <2>7. \A q \in Requests : (RequestOK(req[q]) /\ UpdateOK(req[q]))'
    BY <2>1, <2>6 DEF RequestOK, UpdateOK
  <2> QED
    BY <2>4, <2>5, <2>7 DEF IssueBase
<1>2. CASE table[t] # "active"
  <2>1. Answer(p) /\ UNCHANGED <<mem, table, expired, issue>> /\ product' \in BOOLEAN
    BY <1>2 DEF Revoke, IssueBase, TypeOK
  <2> QED
    BY <1>0, <2>1, AnswerStep
<1> QED
  BY <1>1, <1>2

\* The end of a logout brings the memory back in line with the table.
LEMMA ForgetBase ==
  ASSUME IssueBase, NEW p \in Requests, Forget(p)
  PROVE  IssueBase'
<1>1. req[p].token \in Tokens
  BY DEF Forget, IssueBase, RequestOK
<1>2. \A q \in Requests : req'[q] = IF q = p THEN Idle ELSE req[q]
  BY DEF Forget, Answer, IssueBase, TypeOK
<1>3. TypeOK'
  BY <1>1, IdleIsFine DEF Forget, Answer, IssueBase, TypeOK, SessionStatus
<1>4. CacheAgrees'
  <2> SUFFICES ASSUME NEW u \in Tokens, mem'[u] = "active", table'[u] # "absent",
                      table'[u] # "active"
               PROVE  \E q \in Requests : req'[q].at = "locked" /\ req'[q].token = u
    BY DEF CacheAgrees
  <2>1. u # req[p].token /\ mem[u] = "active" /\ table' = table
    BY <1>1 DEF Forget, IssueBase, TypeOK
  <2> QED
    BY <1>2, <2>1 DEF IssueBase, CacheAgrees
<1>5. \A q \in Requests : RequestOK(req'[q]) /\ UpdateOK(req'[q])
  BY <1>2, IdleIsFine DEF IssueBase
<1>6. \A q \in Requests : (RequestOK(req[q]) /\ UpdateOK(req[q]))'
  BY <1>5 DEF RequestOK, UpdateOK, Forget
<1> QED
  BY <1>3, <1>4, <1>6 DEF IssueBase

\* Time passes over a token: table and memory stay as they are.
LEMMA ExpireBase ==
  ASSUME IssueBase, NEW t \in Tokens, Expire(t)
  PROVE  IssueBase'
<1>1. TypeOK'
  BY DEF Expire, IssueBase, TypeOK
<1>2. CacheAgrees'
  BY DEF Expire, IssueBase, CacheAgrees
<1>3. \A q \in Requests : (RequestOK(req[q]) /\ UpdateOK(req[q]))'
  BY DEF Expire, IssueBase, RequestOK, UpdateOK
<1> QED
  BY <1>1, <1>2, <1>3 DEF IssueBase

\* A restart empties the memory and ends every request.
LEMMA RestartBase ==
  ASSUME IssueBase, Restart
  PROVE  IssueBase'
<1>1. TypeOK'
  BY IdleIsFine DEF Restart, IssueBase, TypeOK, SessionStatus
<1>2. CacheAgrees'
  BY DEF Restart, CacheAgrees
<1>3. \A q \in Requests : req'[q] = Idle
  BY DEF Restart
<1>4. \A q \in Requests : (RequestOK(req[q]) /\ UpdateOK(req[q]))'
  BY <1>3 DEF RequestOK, UpdateOK, Idle
<1> QED
  BY <1>1, <1>2, <1>4 DEF IssueBase

-----------------------------------------------------------------------------
\* Issues: a write of one row leaves the judgements of the others' requests
\* alone, and those on the same row are now of an older version.

\* A write of one row by the request that carries its judgement keeps IssueBase.
LEMMA IssueStep ==
  ASSUME IssueBase, NEW p \in Requests, NEW i \in Issues, NEW row \in Row,
         Answer(p), req[p].at # "locked",
         issue' = [issue EXCEPT ![i] = row], row.version > issue[i].version,
         UNCHANGED <<mem, table, expired, product>>
  PROVE  IssueBase'
<1>1. \A q \in Requests : req'[q] = IF q = p THEN Idle ELSE req[q]
  BY DEF Answer, IssueBase, TypeOK
<1>2. TypeOK'
  BY IdleIsFine DEF Answer, IssueBase, TypeOK
<1>3. CacheAgrees'
  BY <1>1 DEF IssueBase, CacheAgrees
<1>4. ASSUME NEW q \in Requests
      PROVE  (RequestOK(req[q]) /\ UpdateOK(req[q]))'
  <2>1. CASE q = p
    BY <1>1, <2>1 DEF Idle, RequestOK, UpdateOK
  <2>2. CASE q # p
    <3>1. req'[q] = req[q] /\ RequestOK(req[q]) /\ UpdateOK(req[q])
      BY <1>1, <2>2 DEF IssueBase
    <3>2. RequestOK(req[q])'
      BY <3>1 DEF RequestOK
    <3>3. UpdateOK(req[q])'
      <4>1. CASE req[q].at # "update"
        BY <3>1, <4>1 DEF UpdateOK
      <4>2. CASE req[q].at = "update" /\ req[q].issue # i
        <5>1. issue'[req[q].issue] = issue[req[q].issue]
          BY <3>1, <4>2 DEF UpdateOK, IssueBase, TypeOK
        <5> QED
          BY <3>1, <5>1 DEF UpdateOK
      <4>3. CASE req[q].at = "update" /\ req[q].issue = i
        <5>1. issue'[i] = row
          BY DEF IssueBase, TypeOK
        <5>2. req[q].version \in Nat /\ issue[i].version \in Nat /\ row.version \in Nat
          BY VersionsBounded DEF IssueBase, TypeOK, Request, Row, NoRow
        <5>3. req[q].version <= issue[i].version
          BY <3>1, <4>3 DEF UpdateOK
        <5>4. req[q].version < row.version
          BY <5>2, <5>3
        <5> QED
          BY <3>1, <4>3, <5>1, <5>2, <5>4 DEF UpdateOK
      <4> QED
        BY <4>1, <4>2, <4>3
    <3> QED
      BY <3>2, <3>3
  <2> QED
    BY <2>1, <2>2
<1> QED
  BY <1>2, <1>3, <1>4 DEF IssueBase

\* The row an update writes is well typed and of a later version.
LEMMA UpdatedRow ==
  ASSUME IssueBase, NEW p \in Requests, req[p].at = "update",
         issue[req[p].issue].version < MaxVersion
  PROVE  /\ req[p].issue \in Issues /\ issue[req[p].issue] \in Row
         /\ Updated(issue[req[p].issue], req[p]) \in Row
         /\ Updated(issue[req[p].issue], req[p]).version > issue[req[p].issue].version
<1> DEFINE i == req[p].issue
           row == Updated(issue[i], req[p])
<1>1. UpdateOK(req[p]) /\ req[p] \in Request
  BY DEF IssueBase, TypeOK
<1>2. i \in Issues /\ 1 <= req[p].version /\ req[p].version <= issue[i].version
      /\ req[p].state \in IssueStates
  BY <1>1 DEF UpdateOK, IssueStates
<1>3. issue[i] \in Row \cup {NoRow} /\ req[p].version \in Nat
  BY <1>1, <1>2, VersionsBounded DEF IssueBase, TypeOK, Request
<1>4. issue[i] \in Row
  BY <1>2, <1>3 DEF NoRow
<1>5. issue[i].version \in 1 .. MaxVersion /\ issue[i].version + 1 \in 1 .. MaxVersion
  BY <1>4, VersionsBounded DEF Row
<1>6. Keep(issue[i].assignee, req[p].assignee) \in Users \cup {None}
      /\ Keep(issue[i].evidence, req[p].evidence) \in Users \cup {None}
  BY <1>1, <1>4 DEF Keep, Row, Request
<1>7. row \in Row
  BY <1>2, <1>5, <1>6 DEF Updated, Row
<1>8. row.version > issue[i].version
  BY <1>5, VersionsBounded DEF Updated
<1> QED
  BY <1>2, <1>4, <1>7, <1>8

\* An update where id and version match keeps IssueBase.
LEMMA TransitionBase ==
  ASSUME IssueBase, NEW p \in Requests, TransitionIssue(p)
  PROVE  IssueBase'
<1> DEFINE i == req[p].issue
           row == Updated(issue[i], req[p])
<1>1. req[p].at = "update" /\ issue[i].version < MaxVersion /\ Answer(p)
      /\ UNCHANGED <<mem, table, expired, product>>
  BY DEF TransitionIssue
<1>2. i \in Issues /\ row \in Row /\ row.version > issue[i].version
  BY <1>1, UpdatedRow
<1>3. CASE issue[i].version = req[p].version
  <2>1. issue' = [issue EXCEPT ![i] = row]
    BY <1>3 DEF TransitionIssue
  <2> HIDE DEF i, row
  <2> QED
    BY <1>1, <1>2, <2>1, IssueStep
<1>4. CASE issue[i].version # req[p].version
  <2>1. issue' = issue /\ product' \in BOOLEAN
    BY <1>4 DEF TransitionIssue, IssueBase, TypeOK
  <2> QED
    BY <1>1, <2>1, AnswerStep
<1> QED
  BY <1>3, <1>4

\* An issue that is reported appears as open at its first version.
LEMMA ReportBase ==
  ASSUME IssueBase, NEW p \in Requests, NEW i \in Issues,
         NEW u \in Vendors \cup {None}, NEW v \in Users \cup {None},
         ReportIssue(p, i, u, v)
  PROVE  IssueBase'
<1> DEFINE row == [state |-> "open", assignee |-> u, evidence |-> v, version |-> 1]
<1>1. row \in Row
  BY BoundsKnown, VersionsBounded DEF Row, IssueStates
<1>2. row.version > issue[i].version
  BY DEF ReportIssue, NoRow
<1>3. issue' = [issue EXCEPT ![i] = row] /\ Answer(p) /\ req[p].at # "locked"
      /\ UNCHANGED <<mem, table, expired, product>>
  BY DEF ReportIssue
<1> HIDE DEF row
<1> QED
  BY <1>1, <1>2, <1>3, IssueStep

\* Whoever judges a copy carries a judgement that holds for the row it read.
LEMMA JudgeBase ==
  ASSUME IssueBase, NEW p \in Requests, NEW i \in Issues,
         \/ \E u \in Vendors \cup {None} : AssignIssue(p, i, u)
         \/ MitigateIssue(p, i)
         \/ CertifyIssue(p, i)
  PROVE  IssueBase'
<1>1. ASSUME NEW u \in Vendors \cup {None}, AssignIssue(p, i, u)
      PROVE  IssueBase'
  BY <1>1, ReadStep, BoundsKnown DEF AssignIssue
<1>2. ASSUME req[p].at = "ready"
      PROVE  User(p) \in Users /\ RoleOf[User(p)] \in Allowed(req[p].op)
  BY <1>2, OwnersKnown DEF IssueBase, RequestOK, User
<1>3. CASE MitigateIssue(p, i)
  <2>1. req[p].at = "ready" /\ req[p].op = "mitigate"
        /\ Read(p, i, "mitigated", User(p), User(p))
        /\ issue[i].assignee \in {None, User(p)}
    BY <1>3 DEF MitigateIssue, Read
  <2>2. Allowed("mitigate") = {"vendorengineer"}
    BY DEF Allowed
  <2>3. User(p) \in Users /\ RoleOf[User(p)] = "vendorengineer"
    BY <1>2, <2>1, <2>2
  <2> QED
    BY <2>1, <2>3, ReadStep
<1>4. CASE CertifyIssue(p, i)
  <2>1. req[p].at = "ready" /\ req[p].op = "certify"
        /\ Read(p, i, "certified", None, User(p))
    BY <1>4 DEF CertifyIssue, Read
  <2>2. Allowed("certify") = {"testengineer", "labreviewer"}
    BY DEF Allowed
  <2>3. User(p) \in Users /\ RoleOf[User(p)] \in {"testengineer", "labreviewer"}
    BY <1>2, <2>1, <2>2
  <2> QED
    BY <2>1, <2>3, ReadStep
<1> QED
  BY <1>1, <1>3, <1>4

\* IssueBase is inductive: one step per operation.
LEMMA NextBase == IssueBase /\ [Next]_vars => IssueBase'
<1> SUFFICES ASSUME IssueBase, [Next]_vars PROVE IssueBase'
  OBVIOUS
<1>0. product \in BOOLEAN
  BY DEF IssueBase, TypeOK
<1>1. ASSUME NEW p \in Requests, NEW t \in Tokens, Login(p, t) PROVE IssueBase'
  BY <1>1, LoginBase
<1>2. ASSUME NEW p \in Requests, NEW t \in Tokens, NEW op \in Ops, Authenticate(p, t, op)
      PROVE  IssueBase'
  <2>1. CASE mem[t] = "absent"
    <3> DEFINE r == [req[p] EXCEPT !.at = "find", !.token = t]
    <3>1. req' = [req EXCEPT ![p] = r] /\ req[p].at = "idle" /\ req[p] \in Request
          /\ UNCHANGED <<mem, table, expired, product, issue>>
      BY <1>2, <2>1 DEF Authenticate, IssueBase, TypeOK
    <3>2. r \in Request /\ r.at = "find" /\ r.token = t
      BY <3>1 DEF Request
    <3> HIDE DEF r
    <3>3. RequestOK(r) /\ UpdateOK(r)
      BY <3>2 DEF RequestOK, UpdateOK
    <3> QED
      BY <1>0, <3>1, <3>2, <3>3, QuietStep
  <2>2. CASE mem[t] # "absent"
    <3>1. Check(p, mem[t], t, op) /\ req[p].at = "idle"
          /\ UNCHANGED <<mem, table, expired, product, issue>>
      BY <1>2, <2>2 DEF Authenticate
    <3> QED
      BY <3>1, CheckStep
  <2> QED
    BY <2>1, <2>2
<1>3. ASSUME NEW p \in Requests, NEW op \in Ops, FindSession(p, op) PROVE IssueBase'
  <2>1. req[p].token \in Tokens
    BY <1>3 DEF FindSession, IssueBase, RequestOK
  <2>2. Check(p, table[req[p].token], req[p].token, op) /\ req[p].at = "find"
        /\ UNCHANGED <<mem, table, expired, product, issue>>
    BY <1>3 DEF FindSession
  <2> QED
    BY <2>1, <2>2, CheckStep
<1>4. ASSUME NEW p \in Requests, SaveSession(p) \/ Revoke(p) \/ Forget(p) PROVE IssueBase'
  BY <1>4, SaveSessionBase, RevokeBase, ForgetBase
<1>5. ASSUME NEW p \in Requests, CreateProduct(p) \/ Abort(p) PROVE IssueBase'
  <2>1. Answer(p) /\ req[p].at # "locked" /\ UNCHANGED <<mem, table, expired, issue>>
        /\ product' \in BOOLEAN
    BY <1>0, <1>5 DEF CreateProduct, Abort
  <2> QED
    BY <2>1, AnswerStep
<1>6. ASSUME NEW p \in Requests, TransitionIssue(p) PROVE IssueBase'
  BY <1>6, TransitionBase
<1>7. ASSUME NEW p \in Requests, NEW i \in Issues, NEW u \in Vendors \cup {None},
             NEW v \in Users \cup {None}, ReportIssue(p, i, u, v)
      PROVE  IssueBase'
  BY <1>7, ReportBase
<1>8. ASSUME NEW p \in Requests, NEW i \in Issues,
             (\E u \in Vendors \cup {None} : AssignIssue(p, i, u))
               \/ MitigateIssue(p, i) \/ CertifyIssue(p, i)
      PROVE  IssueBase'
  BY <1>8, JudgeBase
<1>9. ASSUME NEW t \in Tokens, Expire(t) PROVE IssueBase'
  BY <1>9, ExpireBase
<1>10. CASE Restart
  BY <1>10, RestartBase
<1>11. CASE UNCHANGED vars
  <2>1. TypeOK' /\ CacheAgrees'
    BY <1>11 DEF vars, IssueBase, TypeOK, CacheAgrees
  <2>2. \A q \in Requests : (RequestOK(req[q]) /\ UpdateOK(req[q]))'
    BY <1>11 DEF vars, IssueBase, RequestOK, UpdateOK
  <2> QED
    BY <2>1, <2>2 DEF IssueBase
<1> QED
  BY <1>1, <1>2, <1>3, <1>4, <1>5, <1>6, <1>7, <1>8, <1>9, <1>10, <1>11 DEF Next

\* IssueBase holds in every reachable state.
LEMMA BaseAlways == Spec => []IssueBase
BY InitBase, NextBase, PTL DEF Spec

\* Who may do what to an issue: it appears as open, or one request updates it
\* at the version it has read.
LEMMA IssueChanges ==
  ASSUME IssueBase, [Next]_vars, NEW i \in Issues, issue'[i] # issue[i]
  PROVE  \/ issue[i] = NoRow /\ issue'[i].state = "open"
         \/ \E p \in Requests :
              /\ req[p].at = "update" /\ req[p].issue = i
              /\ req[p].version = issue[i].version
              /\ issue[i] \in Row /\ issue'[i] = Updated(issue[i], req[p])
<1>1. issue' # issue
  OBVIOUS
<1>2. PICK p \in Requests :
        \/ \E j \in Issues, u \in Vendors \cup {None}, v \in Users \cup {None} :
             ReportIssue(p, j, u, v)
        \/ TransitionIssue(p)
  BY <1>1 DEF Next, vars, Login, SaveSession, Expire, Authenticate, FindSession, Revoke,
     Forget, CreateProduct, AssignIssue, MitigateIssue, CertifyIssue, Read, Abort, Restart
<1>3. ASSUME NEW j \in Issues, NEW u \in Vendors \cup {None}, NEW v \in Users \cup {None},
             ReportIssue(p, j, u, v)
      PROVE  issue[i] = NoRow /\ issue'[i].state = "open"
  BY <1>3 DEF ReportIssue, IssueBase, TypeOK
<1>4. CASE TransitionIssue(p)
  <2> DEFINE j == req[p].issue
  <2>1. req[p].at = "update" /\ issue[j].version = req[p].version
        /\ issue[j].version < MaxVersion
        /\ issue' = [issue EXCEPT ![j] = Updated(issue[j], req[p])]
    BY <1>1, <1>4 DEF TransitionIssue
  <2>2. j \in Issues /\ issue[j] \in Row
    BY <2>1, UpdatedRow
  <2>3. i = j
    BY <2>1 DEF IssueBase, TypeOK
  <2> HIDE DEF j
  <2>4. issue'[j] = Updated(issue[j], req[p])
    BY <2>1, <2>2 DEF IssueBase, TypeOK
  <2> QED
    BY <2>1, <2>2, <2>3, <2>4 DEF j
<1> QED
  BY <1>2, <1>3, <1>4
-----------------------------------------------------------------------------
(***************************************************************************)
(* Theorems.                                                               *)
(***************************************************************************)

\* Every reachable state of the login sessions and issues is well typed.
THEOREM IssueTypeCorrect == Spec => []TypeOK
<1>1. IssueBase => TypeOK
  BY DEF IssueBase
<1> QED
  BY <1>1, BaseAlways, PTL

\* Authenticate lets in active sessions only, although it asks the memory first
\* and logouts, logins and restarts come in between.
THEOREM RevokedAtOnce == Spec => AcceptedIsActive
<1>1. ASSUME IssueBase, [Next]_vars, NEW p \in Requests,
             req[p].at \in {"idle", "find"}, req'[p].at = "ready"
      PROVE  table[req'[p].token] = "active" /\ req'[p].token \notin expired
  <2>1. req'[p] # req[p]
    BY <1>1
  <2>2. ASSUME NEW q \in Requests, Answer(q) PROVE FALSE
    <3>1. req'[p] = Idle \/ req'[p] = req[p]
      BY <1>1, <2>2 DEF Answer, IssueBase, TypeOK
    <3> QED
      BY <1>1, <2>1, <3>1 DEF Idle
  <2>3. ASSUME NEW q \in Requests, NEW t \in Tokens, NEW op \in Ops, NEW status,
               Check(q, status, t, op)
        PROVE  p = q /\ status = "active" /\ t \notin expired /\ req'[p].token = t
    <3> DEFINE r == [Idle EXCEPT !.at = "ready", !.op = op, !.token = t]
    <3>1. status = "active" /\ t \notin expired /\ req' = [req EXCEPT ![q] = r]
      BY <2>2, <2>3 DEF Check, Answer
    <3>2. r.token = t
      BY ReadyRecord
    <3> HIDE DEF r
    <3>3. p = q /\ req'[p] = r
      BY <1>1, <2>1, <3>1 DEF IssueBase, TypeOK
    <3> QED
      BY <3>1, <3>2, <3>3
  <2>4. ASSUME NEW q \in Requests, NEW t \in Tokens, NEW op \in Ops, Authenticate(q, t, op)
        PROVE  table[req'[p].token] = "active" /\ req'[p].token \notin expired
    <3>1. CASE mem[t] = "absent"
      <4> DEFINE r == [req[q] EXCEPT !.at = "find", !.token = t]
      <4>1. req' = [req EXCEPT ![q] = r] /\ req[q] \in Request
        BY <1>1, <2>4, <3>1 DEF Authenticate, IssueBase, TypeOK
      <4>2. r.at = "find"
        BY <4>1 DEF Request
      <4> HIDE DEF r
      <4>3. req'[p] = r \/ req'[p] = req[p]
        BY <1>1, <4>1 DEF IssueBase, TypeOK
      <4> QED
        BY <1>1, <2>1, <4>2, <4>3
    <3>2. CASE mem[t] # "absent"
      <4>1. Check(q, mem[t], t, op) /\ table[t] # "absent" /\ ~Locked
        BY <2>4, <3>2 DEF Authenticate
      <4>2. mem[t] = "active" /\ t \notin expired /\ req'[p].token = t
        BY <2>3, <4>1
      <4>3. table[t] = "active"
        BY <1>1, <4>1, <4>2 DEF IssueBase, CacheAgrees, Locked
      <4> QED
        BY <4>2, <4>3
    <3> QED
      BY <3>1, <3>2
  <2>5. ASSUME NEW q \in Requests, NEW op \in Ops, FindSession(q, op)
        PROVE  table[req'[p].token] = "active" /\ req'[p].token \notin expired
    <3>1. req[q].token \in Tokens /\ Check(q, table[req[q].token], req[q].token, op)
      BY <1>1, <2>5 DEF FindSession, IssueBase, RequestOK
    <3> QED
      BY <2>3, <3>1
  <2>6. ASSUME NEW q \in Requests, NEW t \in Tokens, Login(q, t) PROVE FALSE
    <3> DEFINE r == [req[q] EXCEPT !.at = "login", !.token = t]
    <3>1. req' = [req EXCEPT ![q] = r] /\ req[q] \in Request
      BY <1>1, <2>6 DEF Login, IssueBase, TypeOK
    <3>2. r.at = "login"
      BY <3>1 DEF Request
    <3> HIDE DEF r
    <3>3. req'[p] = r \/ req'[p] = req[p]
      BY <1>1, <3>1 DEF IssueBase, TypeOK
    <3> QED
      BY <1>1, <2>1, <3>2, <3>3
  <2>7. ASSUME NEW q \in Requests, Revoke(q) PROVE FALSE
    <3>1. CASE table[req[q].token] = "active"
      <4> DEFINE r == [req[q] EXCEPT !.at = "locked"]
      <4>1. req' = [req EXCEPT ![q] = r] /\ req[q] \in Request
        BY <1>1, <2>7, <3>1 DEF Revoke, IssueBase, TypeOK
      <4>2. r.at = "locked"
        BY <4>1 DEF Request
      <4> HIDE DEF r
      <4>3. req'[p] = r \/ req'[p] = req[p]
        BY <1>1, <4>1 DEF IssueBase, TypeOK
      <4> QED
        BY <1>1, <2>1, <4>2, <4>3
    <3>2. CASE table[req[q].token] # "active"
      BY <2>2, <2>7, <3>2 DEF Revoke
    <3> QED
      BY <3>1, <3>2
  <2>8. ASSUME NEW q \in Requests, NEW i \in Issues, NEW next, NEW a, NEW e,
               Read(q, i, next, a, e)
        PROVE  FALSE
    <3>1. p # q
      BY <1>1, <2>8 DEF Read
    <3> QED
      BY <1>1, <2>1, <2>8, <3>1 DEF Read, IssueBase, TypeOK
  <2>9. ASSUME NEW q \in Requests, SaveSession(q) \/ Forget(q) \/ CreateProduct(q)
                 \/ TransitionIssue(q) \/ Abort(q)
                 \/ \E i \in Issues, u \in Vendors \cup {None}, v \in Users \cup {None} :
                      ReportIssue(q, i, u, v)
        PROVE  FALSE
    BY <2>2, <2>9 DEF SaveSession, Forget, CreateProduct, TransitionIssue, Abort, ReportIssue
  <2>10. CASE Restart
    <3>1. req'[p] = Idle
      BY <2>10 DEF Restart
    <3> QED
      BY <1>1, <3>1 DEF Idle
  <2>11. CASE (\E t \in Tokens : Expire(t)) \/ UNCHANGED vars
    BY <2>1, <2>11 DEF Expire, vars
  <2> QED
    BY <1>1, <2>4, <2>5, <2>6, <2>7, <2>8, <2>9, <2>10, <2>11
    DEF Next, AssignIssue, MitigateIssue, CertifyIssue
<1>2. IssueBase /\ [Next]_vars =>
        [\A p \in Requests : req[p].at \in {"idle", "find"} /\ req'[p].at = "ready" =>
           table[req'[p].token] = "active" /\ req'[p].token \notin expired]_vars
  BY <1>1
<1> QED
  BY <1>2, BaseAlways, PTL DEF Spec, AcceptedIsActive

\* An issue follows its state machine whatever copies the writers have read.
THEOREM IssuesStepLegally == Spec => LegalSteps
<1>1. ASSUME IssueBase, [Next]_vars, NEW i \in Issues, issue[i] # NoRow
      PROVE  CanTransition(issue[i].state, issue'[i].state)
  <2>1. CASE issue'[i] = issue[i]
    BY <2>1 DEF CanTransition
  <2>2. CASE issue'[i] # issue[i]
    <3>1. PICK p \in Requests :
            /\ req[p].at = "update" /\ req[p].issue = i
            /\ req[p].version = issue[i].version
            /\ issue[i] \in Row /\ issue'[i] = Updated(issue[i], req[p])
      BY <1>1, <2>2, IssueChanges
    <3>2. Fresh(issue[i], req[p])
      BY <1>1, <3>1 DEF IssueBase, UpdateOK
    <3> QED
      BY <3>1, <3>2 DEF Fresh, Updated
  <2> QED
    BY <2>1, <2>2
<1>2. IssueBase /\ [Next]_vars =>
        [\A i \in Issues : issue[i] # NoRow =>
           CanTransition(issue[i].state, issue'[i].state)]_vars
  BY <1>1
<1> QED
  BY <1>2, BaseAlways, PTL DEF Spec, LegalSteps

\* Nobody mitigates an issue that is assigned to somebody else.
THEOREM OnlyTheAssigneeMitigates == Spec => AssigneeMitigates
<1>1. ASSUME IssueBase, [Next]_vars, NEW i \in Issues,
             issue[i].state # "mitigated", issue'[i].state = "mitigated"
      PROVE  issue[i].assignee \in {None, issue'[i].assignee}
  <2>1. PICK p \in Requests :
          /\ req[p].at = "update" /\ req[p].issue = i
          /\ req[p].version = issue[i].version
          /\ issue[i] \in Row /\ issue'[i] = Updated(issue[i], req[p])
    BY <1>1, IssueChanges
  <2>2. Fresh(issue[i], req[p]) /\ UpdateOK(req[p])
    BY <1>1, <2>1 DEF IssueBase, UpdateOK
  <2>3. req[p].state = "mitigated" /\ issue'[i].assignee = Keep(issue[i].assignee, req[p].assignee)
    BY <1>1, <2>1 DEF Updated
  <2>4. req[p].assignee \in Users /\ issue[i].assignee \in {None, req[p].assignee}
    BY <2>1, <2>2, <2>3 DEF Fresh, UpdateOK, MitigatedByVendor
  <2> QED
    BY <2>3, <2>4, NoneIsNobody DEF Keep
<1>2. IssueBase /\ [Next]_vars =>
        [\A i \in Issues : issue[i].state # "mitigated" /\ issue'[i].state = "mitigated" =>
           issue[i].assignee \in {None, issue'[i].assignee}]_vars
  BY <1>1
<1> QED
  BY <1>2, BaseAlways, PTL DEF Spec, AssigneeMitigates

\* What is certified was mitigated by a vendor's engineer, with evidence of a
\* tester or a reviewer, however requests interleave.
THEOREM CertifiedByFourEyes == Spec => []FourEyes
<1> DEFINE Good(row) ==
      /\ row.state = "mitigated" => MitigatedByVendor(row) /\ row.evidence = row.assignee
      /\ row.state = "certified" =>
           /\ MitigatedByVendor(row) /\ row.evidence \in Users
           /\ RoleOf[row.evidence] \in {"testengineer", "labreviewer"}
<1>1. Init => FourEyes
  BY DEF Init, FourEyes, NoRow
<1>2. ASSUME IssueBase, [Next]_vars, FourEyes PROVE FourEyes'
  <2>1. ASSUME NEW i \in Issues PROVE Good(issue'[i])
    <3>1. Good(issue[i])
      BY <1>2 DEF FourEyes
    <3>2. CASE issue'[i] = issue[i]
      BY <3>1, <3>2
    <3>3. CASE issue'[i].state = "open"
      BY <3>3
    <3>4. CASE issue'[i] # issue[i] /\ issue'[i].state # "open"
      <4>1. PICK p \in Requests :
              /\ req[p].at = "update" /\ req[p].issue = i
              /\ req[p].version = issue[i].version
              /\ issue[i] \in Row /\ issue'[i] = Updated(issue[i], req[p])
        BY <1>2, <3>4, IssueChanges
      <4> DEFINE r == req[p]
                 row == issue'[i]
      <4>2. UpdateOK(r) /\ Fresh(issue[i], r)
        BY <1>2, <4>1 DEF IssueBase, UpdateOK
      <4>3. /\ row.state = r.state
            /\ row.assignee = Keep(issue[i].assignee, r.assignee)
            /\ row.evidence = Keep(issue[i].evidence, r.evidence)
        BY <4>1 DEF Updated
      <4>4. CASE r.state = "mitigated"
        <5>1. r.assignee \in Users /\ RoleOf[r.assignee] = "vendorengineer"
              /\ r.evidence = r.assignee
          BY <4>1, <4>2, <4>4 DEF UpdateOK, MitigatedByVendor
        <5>2. row.assignee = r.assignee /\ row.evidence = r.assignee
          BY <4>3, <5>1, NoneIsNobody DEF Keep
        <5> QED
          BY <4>3, <4>4, <5>1, <5>2 DEF MitigatedByVendor
      <4>5. CASE r.state = "certified"
        <5>1. issue[i].state \in {"mitigated", "certified"}
          BY <4>2, <4>5 DEF Fresh, CanTransition, IssueTransitions
        <5>2. MitigatedByVendor(issue[i])
          BY <3>1, <5>1
        <5>3. r.assignee = None /\ r.evidence \in Users
              /\ RoleOf[r.evidence] \in {"testengineer", "labreviewer"}
          BY <4>1, <4>2, <4>5 DEF UpdateOK
        <5>4. row.assignee = issue[i].assignee /\ row.evidence = r.evidence
          BY <4>3, <5>3, NoneIsNobody DEF Keep
        <5> QED
          BY <4>3, <4>5, <5>2, <5>3, <5>4 DEF MitigatedByVendor
      <4>6. CASE r.state = "assigned"
        BY <4>3, <4>6
      <4> QED
        BY <4>1, <4>2, <4>4, <4>5, <4>6 DEF UpdateOK
    <3> QED
      BY <3>2, <3>3, <3>4
  <2> QED
    BY <2>1 DEF FourEyes, MitigatedByVendor
<1> QED
  BY <1>1, <1>2, BaseAlways, PTL DEF Spec
=============================================================================
