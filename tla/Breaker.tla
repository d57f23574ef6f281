------------------------------- MODULE Breaker -------------------------------
(***************************************************************************)
(* The circuit breaker in front of MitigationService.Execute               *)
(* (internal/circuit/breaker.go).  The state machine is gobreaker's and    *)
(* external; when it trips, and on what, is this code's.                   *)
(*                                                                         *)
(* A change of state begins a new generation with counts at zero; a call   *)
(* that ends in a later generation than it began in counts for nothing.    *)
(***************************************************************************)
EXTENDS Naturals

CONSTANTS
  Calls,             \* goroutines in Execute: bounds how many run at once
  MaxRequests,       \* trial calls that close it again
  FailureThreshold,  \* consecutive failures that open it
  Percent,           \* FailureRatio, in percent
  MaxCounted         \* bound on the calls counted while it is closed

VARIABLES
  breaker,  \* "closed", "open" or "half_open"
  counts,   \* of the present generation
  call,     \* call -> "none", or whether its generation is the present one
  healthy   \* do calls succeed at present?

vars == <<breaker, counts, call, healthy>>

Counts == [requests : Nat, failures : Nat, successes : Nat, consecutive : Nat]

NoCounts == [requests |-> 0, failures |-> 0, successes |-> 0, consecutive |-> 0]

TypeOK ==
  /\ breaker \in {"closed", "open", "half_open"}
  /\ counts \in Counts
  /\ call \in [Calls -> {"none", "present", "past"}]
  /\ healthy \in BOOLEAN

Init ==
  /\ breaker = "closed"
  /\ counts = NoCounts
  /\ call = [c \in Calls |-> "none"]
  /\ healthy \in BOOLEAN

-----------------------------------------------------------------------------
\* External: setState begins a generation.
Become(state) ==
  /\ breaker' = state
  /\ counts' = NoCounts

Past == [c \in Calls |-> IF call[c] = "none" THEN "none" ELSE "past"]

\* ReadyToTrip: five failures in a row, or 60 % of more than five calls; calls
\* are counted as they begin, failures as they end.
ReadyToTrip(n) ==
  \/ n.consecutive >= FailureThreshold
  \/ n.requests > 5 /\ 100 * n.failures >= Percent * n.requests

\* External: beforeRequest.  An open breaker, or one with enough trials under
\* way, refuses, and nothing changes.
Begin(c) ==
  /\ call[c] = "none"
  /\ \/ breaker = "closed" /\ counts.requests < MaxCounted
     \/ breaker = "half_open" /\ counts.requests < MaxRequests
  /\ call' = [call EXCEPT ![c] = "present"]
  /\ counts' = [counts EXCEPT !.requests = @ + 1]
  /\ UNCHANGED <<breaker, healthy>>

\* External: afterRequest, for a call of an earlier generation.
EndLate(c) ==
  /\ call[c] = "past"
  /\ call' = [call EXCEPT ![c] = "none"]
  /\ UNCHANGED <<breaker, counts, healthy>>

Succeeded ==
  [requests |-> counts.requests, failures |-> counts.failures,
   successes |-> counts.successes + 1, consecutive |-> 0]

\* External: only trials that succeed are counted in a half-open generation.
Closes(n) == n.successes >= MaxRequests

\* Defect: the breaker is not told how a call ended.
Succeed_Untold(c) ==
  /\ healthy /\ call[c] = "present"
  /\ call' = [call EXCEPT ![c] = "none"]
  /\ UNCHANGED <<breaker, counts, healthy>>

Succeed(c) ==
  /\ healthy /\ call[c] = "present"
  /\ IF breaker = "half_open" /\ Closes(Succeeded)
     THEN Become("closed") /\ call' = [Past EXCEPT ![c] = "none"]
     ELSE /\ counts' = Succeeded
          /\ call' = [call EXCEPT ![c] = "none"]
          /\ UNCHANGED breaker
  /\ UNCHANGED healthy

Failed ==
  [requests |-> counts.requests, failures |-> counts.failures + 1,
   successes |-> counts.successes, consecutive |-> counts.consecutive + 1]

\* Every error of executeInternal is a failure, the client's mistakes too.
Fail(c) ==
  /\ ~healthy /\ call[c] = "present"
  /\ IF breaker = "half_open" \/ ReadyToTrip(Failed)
     THEN Become("open") /\ call' = [Past EXCEPT ![c] = "none"]
     ELSE /\ counts' = Failed
          /\ call' = [call EXCEPT ![c] = "none"]
          /\ UNCHANGED breaker
  /\ UNCHANGED healthy

\* External: the timeout of an open breaker is over.
HalfOpen ==
  /\ breaker = "open"
  /\ Become("half_open")
  /\ call' = Past
  /\ UNCHANGED healthy

\* External: what the calls depend on fails, or works again.
Change ==
  /\ healthy' = ~healthy
  /\ UNCHANGED <<breaker, counts, call>>

End(c) == EndLate(c) \/ Succeed(c) \/ Fail(c)

Next ==
  \/ \E c \in Calls : Begin(c) \/ End(c)
  \/ HalfOpen \/ Change

Spec == Init /\ [][Next]_vars

\* A call that was begun ends, and the timeout passes.
Fairness == WF_vars(HalfOpen) /\ \A c \in Calls : WF_vars(End(c))

FairSpec == Spec /\ Fairness

-----------------------------------------------------------------------------
\* While clients go on calling and calls succeed from some time on, an open
\* breaker closes again: trials that fail late, calls of earlier generations
\* that end meanwhile and refused calls never leave it half open for good.
Recovers ==
  WF_vars(\E c \in Calls : Begin(c)) /\ <>[]healthy =>
    ((breaker = "open") ~> (breaker = "closed"))
=============================================================================
