----------------------------- MODULE MCLiveness -----------------------------
(***************************************************************************)
(* What must eventually happen, in the components that share no state with *)
(* one another: batches, the event stream, the scheduler and the breaker.  *)
(* The first state chooses the component that a behaviour is about; the    *)
(* others stay in their first states.                                      *)
(***************************************************************************)
EXTENDS BatchFlow, EventStream, SchedulerLoop

CONSTANTS Calls, MaxRequests, FailureThreshold, Percent, MaxCounted  \* of Breaker

VARIABLES
  part,  \* the component this behaviour is about
  breaker, counts, call, healthy  \* of Breaker

Brk == INSTANCE Breaker

breakerVars == <<breaker, counts, call, healthy>>

allVars == <<part, vars, streamVars, schedulerVars, breakerVars>>

ChosenInit ==
  /\ part \in {"batch", "stream", "scheduler", "breaker"}
  /\ Init /\ (part # "batch" => \A s \in Sessions : session[s].state = "negotiating")
  /\ StreamInit
  /\ SchedulerInit
  /\ Brk!Init /\ (part # "breaker" => healthy)

ChosenNext ==
  /\ UNCHANGED part
  /\ \/ part = "batch" /\ Next /\ UNCHANGED <<streamVars, schedulerVars, breakerVars>>
     \/ part = "stream" /\ StreamNext /\ UNCHANGED <<vars, schedulerVars, breakerVars>>
     \/ part = "scheduler" /\ SchedulerNext /\ UNCHANGED <<vars, streamVars, breakerVars>>
     \/ part = "breaker" /\ Brk!Next /\ UNCHANGED <<vars, streamVars, schedulerVars>>

\* The fairness each component states for itself, of the component chosen: TLC
\* then looks no further at the others.
BatchFairness == \A p \in Attempts : WF_vars(part = "batch" /\ Step(p))

BusFairness ==
  /\ \A p \in Publishers : WF_streamVars(part = "stream" /\ PublisherStep(p))
  /\ \A c \in Connections : WF_streamVars(part = "stream" /\ HandlerStep(c))

LoopFairness ==
  /\ WF_schedulerVars(part = "scheduler" /\ (StartLoops \/ Launched))
  /\ WF_schedulerVars(part = "scheduler" /\ MainStep)
  /\ \A t \in Tasks :
       /\ WF_schedulerVars(part = "scheduler" /\ Launch(t))
       /\ WF_schedulerVars(part = "scheduler" /\ LoopStep(t))
       /\ SF_schedulerVars(part = "scheduler" /\ Leave(t))

BreakerFairness ==
  /\ WF_breakerVars(part = "breaker" /\ Brk!HalfOpen)
  /\ \A c \in Calls : WF_breakerVars(part = "breaker" /\ Brk!End(c))

ChosenSpec ==
  /\ ChosenInit /\ [][ChosenNext]_allVars
  /\ BatchFairness /\ BusFairness /\ LoopFairness /\ BreakerFairness

\* The breaker closes again once calls succeed (ReadyToTrip, gobreaker).
Recovers == Brk!Recovers
=============================================================================
