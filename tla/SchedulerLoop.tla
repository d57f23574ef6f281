---------------------------- MODULE SchedulerLoop ----------------------------
(***************************************************************************)
(* The background tasks: internal/scheduler/scheduler.go, started by       *)
(* App.Start in a goroutine of its own and stopped by App.Shutdown, which  *)
(* then closes the store (internal/app, cmd/voltforge).                    *)
(*                                                                         *)
(* Each task has a loop: wait for a tick, run, and on an error run again   *)
(* after a backoff, at most MaxRetry times; then a permanent failure is    *)
(* recorded.  A task's run (a RunFunc of tasks.go) is calls of the store,  *)
(* which may fail, and do once the loop's context is cancelled.            *)
(***************************************************************************)
EXTENDS Naturals, FiniteSets

CONSTANTS
  Tasks,     \* the tasks that AddTask has registered
  MaxRetry   \* how often a run is tried again

ASSUME TasksAreFinite == IsFiniteSet(Tasks)
ASSUME MaxRetryIsNat == MaxRetry \in Nat

VARIABLES
  main,     \* where the goroutine that shuts down is
  signalled,\* is the context given to Start cancelled?
  cancelled,\* has Stop cancelled the loops' context?
  running,  \* the flag under the scheduler's mutex
  starter,  \* where Start is
  spawn,    \* the tasks Start has still to launch
  loop,     \* task -> where its loop is
  attempt,  \* task -> the attempt its loop is at
  genuine,  \* history: task -> attempts of this tick that failed before any stop
  recorded  \* history: tasks whose newest tick ended in a recorded failure

schedulerVars == <<main, signalled, cancelled, running, starter, spawn, loop, attempt, genuine, recorded>>

Alive == {"wait", "check", "run", "backoff", "record"}

SchedulerTypeOK ==
  /\ main \in {"serving", "stop", "wait", "http", "close", "closed", "exited"}
  /\ {signalled, cancelled, running} \subseteq BOOLEAN
  /\ starter \in {"before", "launching", "done"}
  /\ spawn \subseteq Tasks
  /\ loop \in [Tasks -> Alive \cup {"off"}]
  /\ attempt \in [Tasks -> 0..MaxRetry]
  /\ genuine \in [Tasks -> 0..MaxRetry + 1]
  /\ recorded \subseteq Tasks

SchedulerInit ==
  /\ main = "serving"
  /\ signalled = FALSE /\ cancelled = FALSE /\ running = FALSE
  /\ starter = "before" /\ spawn = {}
  /\ loop = [t \in Tasks |-> "off"]
  /\ attempt = [t \in Tasks |-> 0]
  /\ genuine = [t \in Tasks |-> 0]
  /\ recorded = {}

\* The loops' context is a child of the one given to Start.
Done == signalled \/ cancelled

\* Nothing runs once the process has exited.
Up == main # "exited"

-----------------------------------------------------------------------------
(***************************************************************************)
(* Start: the flag is set under the mutex; the loops are launched after it *)
(* was given back, and each is counted by the WaitGroup as it is launched. *)
(***************************************************************************)
StartLoops ==
  /\ Up /\ starter = "before"
  /\ running' = TRUE
  /\ starter' = "launching"
  /\ spawn' = Tasks
  /\ UNCHANGED <<main, signalled, cancelled, loop, attempt, genuine, recorded>>

Launch(t) ==
  /\ Up /\ starter = "launching" /\ t \in spawn
  /\ spawn' = spawn \ {t}
  /\ loop' = [loop EXCEPT ![t] = "wait"]
  /\ UNCHANGED <<main, signalled, cancelled, running, starter, attempt, genuine, recorded>>

Launched ==
  /\ Up /\ starter = "launching" /\ spawn = {}
  /\ starter' = "done"
  /\ UNCHANGED <<main, signalled, cancelled, running, spawn, loop, attempt, genuine, recorded>>

-----------------------------------------------------------------------------
(***************************************************************************)
(* One loop.  A select with both cases ready takes either, so a tick may   *)
(* win over a context that is done, and so may the end of a backoff; the   *)
(* context is asked once more before every run.                            *)
(***************************************************************************)
Goto(t, from, to) ==
  /\ Up /\ loop[t] = from
  /\ loop' = [loop EXCEPT ![t] = to]
  /\ UNCHANGED <<main, signalled, cancelled, running, starter, spawn>>

Tick(t) ==
  /\ Goto(t, "wait", "check")
  /\ attempt' = [attempt EXCEPT ![t] = 0]
  /\ genuine' = [genuine EXCEPT ![t] = 0]
  /\ recorded' = recorded \ {t}

Leave(t) ==
  /\ Done
  /\ Goto(t, "wait", "off")
  /\ UNCHANGED <<attempt, genuine, recorded>>

Check(t) ==
  /\ Goto(t, "check", IF Done THEN "wait" ELSE "run")
  /\ UNCHANGED <<attempt, genuine, recorded>>

RunSucceeds(t) ==
  /\ Goto(t, "run", "wait")
  /\ UNCHANGED <<attempt, genuine, recorded>>

FailRun(t) ==
  /\ Goto(t, "run", IF attempt[t] < MaxRetry THEN "backoff" ELSE "record")
  /\ genuine' = [genuine EXCEPT ![t] = IF Done THEN @ ELSE @ + 1]
  /\ UNCHANGED <<attempt, recorded>>

BackOff(t) ==
  /\ Goto(t, "backoff", "check")
  /\ attempt' = [attempt EXCEPT ![t] = @ + 1]
  /\ UNCHANGED <<genuine, recorded>>

LeaveBackOff(t) ==
  /\ Done
  /\ Goto(t, "backoff", "wait")
  /\ UNCHANGED <<attempt, genuine, recorded>>

\* Defect: the failure is saved with a context that outlives the loop.
Record_Detached(t) ==
  /\ Goto(t, "record", "wait")
  /\ recorded' = recorded \cup {t}
  /\ UNCHANGED <<attempt, genuine>>

\* recordPermanentFailure: the insert is refused once the context is done, and
\* may fail otherwise; either way the loop goes on.
Record(t) ==
  /\ Goto(t, "record", "wait")
  /\ recorded' \in {recorded} \cup IF Done THEN {} ELSE {recorded \cup {t}}
  /\ UNCHANGED <<attempt, genuine>>

LoopStep(t) ==
  \/ Leave(t) \/ Check(t) \/ RunSucceeds(t) \/ FailRun(t)
  \/ BackOff(t) \/ LeaveBackOff(t) \/ Record(t)

-----------------------------------------------------------------------------
(***************************************************************************)
(* Shutting down.  main waits for the signal, which may come before        *)
(* App.Start has run; an owner that stops a scheduler it has started (the  *)
(* server under test) sends none.                                          *)
(***************************************************************************)
Interrupt(signal) ==
  /\ main = "serving"
  /\ signal \/ starter = "done"
  /\ signalled' = signal
  /\ main' = "stop"
  /\ UNCHANGED <<cancelled, running, starter, spawn, loop, attempt, genuine, recorded>>

\* Defect: the loops' context is not cancelled.
StopLoops_NoCancel ==
  /\ main = "stop"
  /\ main' = IF running THEN "wait" ELSE "http"
  /\ running' = FALSE
  /\ UNCHANGED <<signalled, cancelled, starter, spawn, loop, attempt, genuine, recorded>>

\* Stop: without a running scheduler it returns at once.
StopLoops ==
  /\ main = "stop"
  /\ main' = IF running THEN "wait" ELSE "http"
  /\ cancelled' = (cancelled \/ running)
  /\ running' = FALSE
  /\ UNCHANGED <<signalled, starter, spawn, loop, attempt, genuine, recorded>>

ShutdownStep(from, to) ==
  /\ main = from
  /\ main' = to
  /\ UNCHANGED <<signalled, cancelled, running, starter, spawn, loop, attempt, genuine, recorded>>

\* Defect: Stop does not wait for the loops.
WaitForLoops_Not == ShutdownStep("wait", "http")

\* wg.Wait: no loop that was launched is still alive.
WaitForLoops ==
  /\ \A t \in Tasks : loop[t] = "off"
  /\ ShutdownStep("wait", "http")

\* External: http.Server.Shutdown returns when its requests have, or after 30 s.
StopServing == ShutdownStep("http", "close")

CloseStore == ShutdownStep("close", "closed")

Exit == ShutdownStep("closed", "exited")

\* The HTTP server ends by itself, and main exits without a shutdown.
ServerFails ==
  /\ starter = "done"
  /\ ShutdownStep("serving", "exited")

MainStep == StopLoops \/ WaitForLoops \/ StopServing \/ CloseStore \/ Exit

SchedulerNext ==
  \/ StartLoops \/ Launched
  \/ \E t \in Tasks : Launch(t) \/ Tick(t) \/ LoopStep(t)
  \/ \E signal \in BOOLEAN : Interrupt(signal)
  \/ MainStep \/ ServerFails

SchedulerSpec == SchedulerInit /\ [][SchedulerNext]_schedulerVars

(***************************************************************************)
(* Goroutines that can go on do, and a run of a task returns.  A select    *)
(* takes one of its ready cases at random, so a loop that finds its        *)
(* context done again and again leaves by it.  Nobody is bound to send a   *)
(* signal, and ticks are due only now and then.                            *)
(***************************************************************************)
SchedulerFairness ==
  /\ WF_schedulerVars(StartLoops \/ Launched) /\ WF_schedulerVars(MainStep)
  /\ \A t \in Tasks : WF_schedulerVars(Launch(t)) /\ WF_schedulerVars(LoopStep(t)) /\ SF_schedulerVars(Leave(t))

SchedulerFairSpec == SchedulerSpec /\ SchedulerFairness

-----------------------------------------------------------------------------
(***************************************************************************)
(* Properties.                                                             *)
(***************************************************************************)

\* No task is in a run while the store is being closed or is closed, although a
\* signal may come before or within Start, when Stop finds no loop to wait for.
NoRunAfterClose ==
  main \in {"close", "closed"} => \A t \in Tasks : loop[t] # "run"

\* A failure is recorded only of a task that failed MaxRetry + 1 times by
\* itself: a shutdown, which makes every run fail, records none.
RecordedFailedAlone ==
  \A t \in recorded : genuine[t] = MaxRetry + 1

\* A shutdown ends, whatever the loops are at when it begins.
ShutdownEnds == (main = "stop") ~> (main = "exited")
=============================================================================
