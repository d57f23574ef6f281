--------------------------- MODULE SchedulerProofs ---------------------------
(***************************************************************************)
(* Theorems of SchedulerLoop for any finite set of tasks and any MaxRetry: *)
(* type correctness, no run beside the closing of the store, and no record *)
(* of a failure that a shutdown caused.                                    *)
(***************************************************************************)
EXTENDS SchedulerLoop, TLAPS

(***************************************************************************)
(* The inductive invariant.                                                *)
(***************************************************************************)

\* Before main has stopped the scheduler: is the flag set once Start has run,
\* and does a stop without a signal find a scheduler that was started?
BeforeStop ==
  /\ main = "serving" => ~signalled
  /\ main = "stop" => signalled \/ starter = "done"
  /\ main \in {"serving", "stop"} => (running <=> starter # "before")

\* Once main has stopped the scheduler the loops' context is done, and from the
\* moment it waits no longer no loop is within a tick, although it may still be
\* launched and take one.
AfterStop ==
  /\ main \in {"wait", "http", "close", "closed"} => Done
  /\ main \in {"http", "close", "closed"} =>
       \A t \in Tasks : loop[t] \in {"off", "wait", "check"}

\* Nothing is launched before Start.
LaunchedByStart == starter = "before" => \A t \in Tasks : loop[t] = "off"

\* Another attempt follows a backoff.
BacksOffToRetry == \A t \in Tasks : loop[t] = "backoff" => attempt[t] < MaxRetry

\* Until the context is done every attempt that ended was a failure of its own.
CountsOwn ==
  ~Done => \A t \in Tasks :
    /\ loop[t] \in {"check", "run"} => genuine[t] = attempt[t]
    /\ loop[t] = "backoff" => genuine[t] = attempt[t] + 1
    /\ loop[t] = "record" => genuine[t] = MaxRetry + 1

\* A record stays with a loop that is between two ticks or has left.
RecordedRests ==
  \A t \in recorded : loop[t] \in {"off", "wait"} /\ genuine[t] = MaxRetry + 1

IInv ==
  /\ SchedulerTypeOK
  /\ BeforeStop /\ AfterStop /\ LaunchedByStart
  /\ BacksOffToRetry /\ CountsOwn /\ RecordedRests

(***************************************************************************)
(* Preservation, group by group.                                           *)
(***************************************************************************)

LEMMA InitIInv == SchedulerInit => IInv
<1> SUFFICES ASSUME SchedulerInit PROVE IInv
  OBVIOUS
<1>1. SchedulerTypeOK
  <2>1. {signalled, cancelled, running} \subseteq BOOLEAN
    BY Zenon DEF SchedulerInit
  <2>2. QED
    BY <2>1, MaxRetryIsNat DEF SchedulerInit, SchedulerTypeOK
<1>2. BeforeStop /\ AfterStop
  BY DEF SchedulerInit, BeforeStop, AfterStop
<1>3. LaunchedByStart /\ BacksOffToRetry /\ CountsOwn /\ RecordedRests
  BY DEF SchedulerInit, LaunchedByStart, BacksOffToRetry, CountsOwn, RecordedRests
<1>4. QED
  BY <1>1, <1>2, <1>3 DEF IInv

\* Steps that leave loops and their counts alone: main's, and Start's own.
LEMMA QuietKeeps ==
  ASSUME IInv, UNCHANGED <<loop, attempt, genuine, recorded>>, Done => Done',
         SchedulerTypeOK', BeforeStop', AfterStop', LaunchedByStart'
  PROVE  IInv'
  BY DEF IInv, BacksOffToRetry, CountsOwn, RecordedRests

LEMMA StarterKeeps == ASSUME IInv, StartLoops \/ Launched PROVE IInv'
<1>1. SchedulerTypeOK'
  BY DEF IInv, SchedulerTypeOK, StartLoops, Launched
<1>2. BeforeStop' /\ AfterStop' /\ LaunchedByStart'
  BY DEF IInv, BeforeStop, AfterStop, LaunchedByStart, Done, StartLoops, Launched
<1>3. QED
  BY <1>1, <1>2, QuietKeeps DEF StartLoops, Launched, Done

LEMMA MainKeeps ==
  ASSUME IInv, (\E signal \in BOOLEAN : Interrupt(signal)) \/ MainStep \/ ServerFails
  PROVE  IInv'
<1>1. SchedulerTypeOK'
  BY DEF IInv, SchedulerTypeOK, Interrupt, MainStep, StopLoops, WaitForLoops, StopServing, CloseStore,
         Exit, ServerFails, ShutdownStep
<1>2. UNCHANGED <<starter, spawn, loop, attempt, genuine, recorded>>
  BY DEF Interrupt, MainStep, StopLoops, WaitForLoops, StopServing, CloseStore,
         Exit, ServerFails, ShutdownStep
<1>3. Done => Done'
  BY DEF IInv, SchedulerTypeOK, BeforeStop, Done, Interrupt, MainStep, StopLoops, WaitForLoops,
         StopServing, CloseStore, Exit, ServerFails, ShutdownStep
<1>4. BeforeStop'
  BY <1>2 DEF IInv, SchedulerTypeOK, BeforeStop, Interrupt, MainStep, StopLoops, WaitForLoops, StopServing,
         CloseStore, Exit, ServerFails, ShutdownStep
<1>5. AfterStop'
  <2>1. CASE StopLoops
    <3>1. CASE running
      BY <2>1, <3>1 DEF StopLoops, AfterStop, Done
    <3>2. CASE ~running
      <4>1. signalled /\ \A t \in Tasks : loop[t] = "off"
        BY <2>1, <3>2 DEF StopLoops, IInv, BeforeStop, LaunchedByStart
      <4>2. QED
        BY <2>1, <3>2, <4>1, <1>2 DEF StopLoops, AfterStop, Done
    <3>3. QED
      BY <3>1, <3>2
  <2>2. CASE ~StopLoops
    BY <1>2, <2>2 DEF IInv, AfterStop, Done, Interrupt, MainStep, WaitForLoops, StopServing,
           CloseStore, Exit, ServerFails, ShutdownStep
  <2>3. QED
    BY <2>1, <2>2
<1>6. LaunchedByStart'
  BY <1>2 DEF IInv, LaunchedByStart
<1>7. QED
  BY <1>1, <1>2, <1>3, <1>4, <1>5, <1>6, QuietKeeps

\* Of a loop's own step only that loop matters.
LEMMA LoopKeeps ==
  ASSUME NEW t \in Tasks, IInv, Launch(t) \/ Tick(t) \/ LoopStep(t)
  PROVE  IInv'
<1> USE MaxRetryIsNat
<1> DEFINE u == loop'[t]
<1>1. /\ UNCHANGED <<main, signalled, cancelled, running, starter>>
      /\ Up /\ loop' = [loop EXCEPT ![t] = u]
  BY DEF IInv, SchedulerTypeOK, Launch, Tick, LoopStep, Goto, Leave, Check, RunSucceeds, FailRun, BackOff,
         LeaveBackOff, Record
<1>2. Done' <=> Done
  BY <1>1 DEF Done
<1>3. \A k \in Tasks : k # t => loop'[k] = loop[k]
  BY <1>1 DEF IInv, SchedulerTypeOK
<1>4. \A k \in Tasks : k # t => attempt'[k] = attempt[k] /\ genuine'[k] = genuine[k]
  BY DEF IInv, SchedulerTypeOK, Launch, Tick, LoopStep, Goto, Leave, Check, RunSucceeds, FailRun, BackOff,
         LeaveBackOff, Record
<1>5. recorded' \subseteq recorded \cup {t}
  BY DEF Launch, Tick, LoopStep, Goto, Leave, Check, RunSucceeds, FailRun, BackOff, LeaveBackOff, Record
<1>6. SchedulerTypeOK'
  <2>1. CASE Launch(t)
    BY <2>1 DEF Launch, IInv, SchedulerTypeOK, Alive
  <2>2. CASE Tick(t)
    BY <2>2 DEF Tick, Goto, IInv, SchedulerTypeOK, Alive
  <2>3. CASE Leave(t) \/ Check(t) \/ RunSucceeds(t) \/ LeaveBackOff(t)
    BY <2>3 DEF Leave, Check, RunSucceeds, LeaveBackOff, Goto, IInv, SchedulerTypeOK, Alive
  <2>4. CASE FailRun(t)
    <3>1. ~Done => genuine[t] + 1 \in 0..MaxRetry + 1
      BY <2>4 DEF FailRun, Goto, IInv, SchedulerTypeOK, CountsOwn
    <3>2. QED
      BY <2>4, <3>1 DEF FailRun, Goto, IInv, SchedulerTypeOK, Alive
  <2>5. CASE BackOff(t)
    <3>1. attempt[t] + 1 \in 0..MaxRetry
      BY <2>5 DEF BackOff, Goto, IInv, SchedulerTypeOK, BacksOffToRetry
    <3>2. QED
      BY <2>5, <3>1 DEF BackOff, Goto, IInv, SchedulerTypeOK, Alive
  <2>6. CASE Record(t)
    BY <2>6 DEF Record, Goto, IInv, SchedulerTypeOK, Alive
  <2>7. QED
    BY <2>1, <2>2, <2>3, <2>4, <2>5, <2>6 DEF LoopStep
<1>7. BeforeStop'
  BY <1>1 DEF IInv, BeforeStop
<1>8. AfterStop'
  <2>1. main \in {"http", "close", "closed"} => u \in {"off", "wait", "check"}
    BY DEF IInv, SchedulerTypeOK, AfterStop, Launch, Tick, LoopStep, Goto, Leave, Check, RunSucceeds,
           FailRun, BackOff, LeaveBackOff, Record
  <2>2. QED
    BY <1>1, <1>2, <1>3, <2>1 DEF IInv, AfterStop
<1>9. LaunchedByStart'
  BY <1>1 DEF IInv, SchedulerTypeOK, LaunchedByStart, Launch, Tick, LoopStep, Goto, Leave, Check,
         RunSucceeds, FailRun, BackOff, LeaveBackOff, Record
<1>10. BacksOffToRetry'
  <2>1. u = "backoff" => attempt'[t] < MaxRetry
    BY DEF IInv, SchedulerTypeOK, Launch, Tick, LoopStep, Goto, Leave, Check, RunSucceeds, FailRun,
           BackOff, LeaveBackOff, Record
  <2>2. QED
    BY <1>3, <1>4, <2>1 DEF IInv, BacksOffToRetry
<1>11. CountsOwn'
  <2>1. ~Done =>
          /\ u \in {"check", "run"} => genuine'[t] = attempt'[t]
          /\ u = "backoff" => genuine'[t] = attempt'[t] + 1
          /\ u = "record" => genuine'[t] = MaxRetry + 1
    <3>1. CASE Launch(t) \/ Leave(t) \/ RunSucceeds(t) \/ LeaveBackOff(t) \/ Record(t)
      BY <3>1 DEF IInv, SchedulerTypeOK, Launch, Leave, RunSucceeds, LeaveBackOff, Record, Goto
    <3>2. CASE Tick(t) \/ Check(t)
      BY <3>2 DEF IInv, SchedulerTypeOK, CountsOwn, Tick, Check, Goto
    <3>3. CASE FailRun(t)
      BY <3>3 DEF IInv, SchedulerTypeOK, CountsOwn, FailRun, Goto
    <3>4. CASE BackOff(t)
      BY <3>4 DEF IInv, SchedulerTypeOK, CountsOwn, BackOff, Goto
    <3>5. QED
      BY <3>1, <3>2, <3>3, <3>4 DEF LoopStep
  <2>2. QED
    BY <1>2, <1>3, <1>4, <2>1 DEF IInv, CountsOwn
<1>12. RecordedRests'
  <2>1. t \in recorded' => u \in {"off", "wait"} /\ genuine'[t] = MaxRetry + 1
    <3>1. CASE Record(t)
      BY <3>1 DEF IInv, SchedulerTypeOK, RecordedRests, CountsOwn, Record, Goto
    <3>2. CASE ~Record(t)
      BY <3>2 DEF IInv, SchedulerTypeOK, RecordedRests, Launch, Tick, LoopStep, Goto, Leave, Check,
             RunSucceeds, FailRun, BackOff, LeaveBackOff
    <3>3. QED
      BY <3>1, <3>2
  <2>2. QED
    BY <1>3, <1>4, <1>5, <2>1 DEF IInv, SchedulerTypeOK, RecordedRests
<1>13. QED
  BY <1>6, <1>7, <1>8, <1>9, <1>10, <1>11, <1>12 DEF IInv

LEMMA StutterKeeps == ASSUME IInv, UNCHANGED schedulerVars PROVE IInv'
  BY DEF schedulerVars, IInv, SchedulerTypeOK, BeforeStop, AfterStop, LaunchedByStart, BacksOffToRetry,
         CountsOwn, RecordedRests, Done

LEMMA InvariantHolds == SchedulerSpec => []IInv
<1>1. IInv /\ [SchedulerNext]_schedulerVars => IInv'
  BY StarterKeeps, MainKeeps, LoopKeeps, StutterKeeps DEF SchedulerNext
<1>2. QED
  BY InitIInv, <1>1, PTL DEF SchedulerSpec

-----------------------------------------------------------------------------
\* Every reachable state of the scheduler and of its shutdown is well typed; in
\* particular no run is tried more than MaxRetry + 1 times (runWithRetry).
THEOREM SchedulerTypeCorrect == SchedulerSpec => []SchedulerTypeOK
<1>1. IInv => SchedulerTypeOK
  BY DEF IInv
<1>2. QED
  BY <1>1, InvariantHolds, PTL

\* No task is in a run while App.Shutdown closes the store or has closed it,
\* wherever Start was when the signal came.
THEOREM StoreOutlivesRuns == SchedulerSpec => []NoRunAfterClose
<1>1. IInv => NoRunAfterClose
  BY DEF IInv, AfterStop, NoRunAfterClose
<1>2. QED
  BY <1>1, InvariantHolds, PTL

\* What recordPermanentFailure stores failed MaxRetry + 1 times by itself.
THEOREM ShutdownRecordsNothing == SchedulerSpec => []RecordedFailedAlone
<1>1. IInv => RecordedFailedAlone
  BY DEF IInv, RecordedRests, RecordedFailedAlone
<1>2. QED
  BY <1>1, InvariantHolds, PTL
=============================================================================
