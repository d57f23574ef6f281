# VoltForge in TLA+

VoltForge is a Go service that certifies and supervises the fast charging of
phones: charge sessions, the handshakes between device and charger, the
mitigations that protect a session, batches of sessions, and a stream of events
about all of them.  It is one process over one SQLite database, which it opens
with a single connection.  This directory holds models of the parts whose
correctness depends on the order of events, the TLC instances that check them,
and TLAPS proofs.  All paths below are relative to `src/internal/` unless they
start with `src/`.

One fact of the code decides the grain of every model: the store has **one
connection** (`storage/sqlite.go`), so a statement or a transaction is atomic,
but between two calls of the store any other goroutine may run.  An action of a
model is therefore one call of the store (or one critical section of a mutex)
together with the code up to the next one.

## 1. Inventory

| component | state | operations | works with |
|---|---|---|---|
| mitigation workflow (`service/mitigation.go`, `storage/sqlite_disposition.go`) | `mitigation_requests`, the index `active_mitigations`, the session's row | Submit, Review, Withdraw, Execute | session rows, telemetry, audit, event bus, breaker |
| batch processing (`service/batch.go`, `storage/sqlite_batch_ledger.go`) | `batch_records`, `batch_items`, session rows | CreateBatch, ProcessBatch, and the task that re-opens batches | session rows, scheduler, event bus |
| event bus and streams (`service/eventbus.go`, `service/subscription.go`, `storage/sqlite_event_sub.go`) | table `events`, the bus's map, a channel and a Done channel per connection, `subscriber_checkpoints` | Publish, Register, Unregister, HandleSSE, Prune | every service publishes |
| rate limiter (`ratelimit/limiter.go`) | connections and tokens per subscriber | Acquire, Release, Allow | HandleSSE, HTTP |
| rollback ledger (`storage/rollbackledger_*.go`) | a cache and its durable copy | Put, Get | tests only |
| handshakes (`service/handshake.go`, `httpapi/handler_handshake_mitigation.go`) | forms and attestations | Register, Attestation (under a process mutex), ModifyHandshake (not under it) | sessions, ledger |
| shard files and recovery (`storage/shard.go`, `storage/recovery.go`, `service/import_maintenance.go`) | append-only files beside the database, their checksums | append after commit, replay, Certify | every Save |
| scheduler and shutdown (`scheduler/`, `app/app.go`, `src/cmd/voltforge/main.go`) | tickers, the running flag, loops counted by a WaitGroup, failure records | Start, Stop, runTask with retries, RetryFailures; start and shutdown of the process | store, HTTP server, batches, pruner, attestations |
| breaker (`circuit/breaker.go`) | closed, open, half-open, counters of a generation | Execute | MitigationService.Execute |
| port power (`power/allocation.go`) | allocations, ports | Allocate, Release | tests only |
| login (`auth/service.go`, `storage/sqlite_auth.go`) | sessions with expiry and revocation, in a table and in memory | Login, Authenticate, RequireRole, Logout | HTTP, charging issues |
| charging issues (`charging/`, `storage/sqlite_charging.go`) | products, issues with a version | CreateProduct, ReportIssue, AssignIssue, MitigateIssue, CertifyIssue | login, HTTP |
| decision rules (`protocol/`, `thermal/`, `cable/`, `certification/`, `sla/`) | none | Negotiate, Decide, Verify, Evaluate, Classify | tests; Classify also by the overdue query |
| import, queries, HTTP, configuration | none of their own | decode, call, encode | everything |

**How they interact.**  Services call repositories; nearly every service reads a
row, decides, and writes the *whole row* back with an upsert that compares no
version (the one statement that does, `UpdateStateTx`, is called by tests only).
So components meet in shared rows, above all in the session row, which the
mitigation workflow and batch processing both read and overwrite.  After their
commit they publish: the bus stores the event and offers it to the channels of
the connected subscribers.

**What is hard.**  Stale copies written back; requests that stop between two
commits because the client is gone (its context cancels every later call) or the
process dies; compensation that itself stops; reconnecting subscribers, of which
the bus knows the newest by id while the older handlers still run; eviction
decided under a read lock and carried out under a write lock; replay racing with
live events; ignored write errors; files written after the commit; a signal that
arrives before or within Start; results of calls that outlast the breaker's
generation they began in.

**What makes each part correct.**
- *Mitigations*: a session has at most one open mitigation, and the index says
  which; nothing acts without an approval or after being closed; what completes
  has acted; what telemetry and events say did happen.
- *Batches*: all sessions of a batch charge or none does; a completed batch
  stays so (it does not, see section 6); a retry skips what succeeded; an attempt ends.
- *Streams*: no channel is closed twice; no handler is left waiting on a channel
  nobody serves; a client has no gap in what it received, or its stream ends;
  publishing never blocks; slots of the limiter are returned.
- *Rollback ledger*: a failed Put leaves what Get answers alone.
- *Handshakes*: one form per number, a registration that succeeded is whole, the
  state tells who signed, attestations lose no signature.
- *Recovery*: the file repeats the commits in order; a rebuild restores what the
  file holds and harms no current row.
- *Login and issues*: a revoked session is refused at once; an issue follows its
  machine; what is certified was mitigated by the vendor's engineer in charge.
- *Certify*: a shard it passes by checksum has rows as new as its file.
- *Scheduler*: no task runs while the store closes, wherever Start was when the
  signal came; a shutdown ends, and is not recorded as a failure of a task.
- *Breaker*: it recovers once calls succeed.
- *Sessions under both* batches and mitigations: a session that names a mitigation
  is in the state it asked for; a completed batch charges unless mitigated.
- *Power*: watts add up, and the sum stays within the budget and each port's limit.
- *Rules*: the best deal is struck; time and heat only tighten.

`PROJECT.json` lists every hazard at the line where it bites, with the
properties that watch it or the reason that none does.

## 2. Plan

All of the plan is done.  In the order it was written:
1. `Domain`, `MitigationFlow` with the promise `MitigationSlot`, its inductive
   invariants `MitigationInv` and the proofs `MitigationProofs`.
2. `EventStream`: bus, stream handlers, pruner and connection limit together,
   because every property of one needs the others; proofs in `StreamProofs`.
3. `BatchFlow` with the promise `BatchPromise`; its inductive invariants, and those of
   `ChargeControl`, in `BatchInv`; the proofs of both in `BatchProofs`.
4. `RollbackLedger`.
5. `IssueFlow`: login sessions and charging issues together, because the role
   check and the version check are two halves of one guard; proofs in `IssueProofs`
   over `IssueInv`.
6. `ShardRecovery`: commit, append, torn line, crash, lost database, replay, the
   stored checksum and Certify; proofs in `ShardProofs`.
7. `HandshakeFlow` with the promise `HandshakePromise`: check-then-insert, attestation,
   ModifyHandshake; proofs in `HandshakeProofs`.
8. `ChargeControl`: `BatchFlow` and `MitigationFlow` over one table of sessions.
9. `SchedulerLoop`: start, loops with retries, shutdown; proofs in `SchedulerProofs`.
10. `Breaker` and `PowerBudget`.
11. `DecisionRules`: the rules as operators, against reference definitions; the proofs
    about these three in `PolicyProofs`.
`Nothing` declares the one value `None` that stands for a missing id, name or time, for
the components that are composed.

What could still be added: the token bucket.

## 3. Modules and code

### MitigationFlow (states and machines in Domain)
A *request* is a goroutine in one of the four operations of `MitigationService`.
`mit`, `active`, `session` are the tables; `at[p]`, `row[p]`, `copy[p]` are the
request's program counter and its variables `disp` and `session`.

| action | code |
|---|---|
| `StartSubmit`, `SubmitTx` | Submit: read the session and draw an id; then one transaction counts claims and inserts the row as pending or lost |
| `StartReview`, `StartWithdraw`, then `Save` | Get and Validate on the copy; SaveTx of the whole copy |
| `StartExecute`, `SaveExecuting`, `GetSession`, `SaveSession`, `SaveCompleted` | Execute, one call of the store each |
| `Record` | telemetry, audit and event after the commit; their errors are ignored |
| `Abort` | any call fails or the process dies: what is committed stays |

`SaveTx` is `mitigationRepo.SaveTx`: upsert plus `INSERT OR IGNORE` into, or a
delete naming this mitigation from, `active_mitigations`.  `told`, `approved` and
`applied` are history.  `MitigationSlot` is the promise: each session has one slot,
a mitigation holds it while open, acts only when approved and only while it holds
the slot.  The mapping reads stage, owner and actor off the rows.

The constant `Overlap` separates two worlds.  With `TRUE` two requests may work
on one mitigation.  With `FALSE` a request begins on a mitigation only when no
other request is between its read and its last write of that row; requests on
*different* mitigations of one session still interleave, and any of them may stop
anywhere.  The code enforces no such exclusion; it is the assumption
under which the stronger properties hold, and `MitigationTwoOpen` shows one fails
without it.

### EventStream
A *connection* is one run of `HandleSSE` with the channel it registers.  `reg` is
the bus's map, `conn` the locals of handlers, `pub` those of `Publish`, `slots` the
limiter, `last`/`pruned` the table of events as an interval of ids.

| action | code |
|---|---|
| `Store`, `FanOut`, `Send`, `FanOutDone`, `Evict` | Publish: insert; non-blocking send to every channel under the read lock; removal of the slow under the write lock |
| `Admit`, `NotFound` | Acquire of the limiter; the subscriber is read, or is not there.  The stream starts after its checkpoint or after any later id the client names (`Headers`) |
| `Register` | the write lock: Done of the connection replaced is closed |
| `Replay`, `CutReplay` | ListAfter and writing the backlog, to the end or not |
| `Deliver`, `Evicted`, `Cancel` | the three cases of select |
| `Unregister`, `Release` | the two deferred calls |
| `Prune` | EventPrunerTask |

A send is one action per subscriber, so handlers drain their channels while a
fan-out runs.  `closes` counts closings of Done: the second one panics in Go.  The
cursor never moves: `UpdateCheckpoint` is called only when the context is done, and
with that context, so `database/sql` refuses it.

### BatchFlow
An *attempt* is one run of `ProcessBatch`; `run[p]` holds its program counter, its
list of items, the items it succeeded with (`processedThisAttempt`), the current
item and the copy of its session.

| action | code |
|---|---|
| `Create`, `AddItem`, `GiveUp` | CreateBatch: record, items, or an early return that leaves them |
| `Start`, `Begin`, `ListItems` | Get and Validate; save as processing; list |
| `Inspect`, `Charge` or `RefuseItem`, `Mark` or `Fail` | processItem and saving the item |
| `RefuseAttempt` | saving as processing or listing the items fails: the attempt returns |
| `ItemsDone`, `Succeed`, `Complete` | the end when all succeeded |
| `InspectUndo`, `Uncharge`, `Unmark`, `RollBack` | compensation, newest list only |
| `Stop` | context cancelled, process gone, or a panic: compensation writes to the nil item of a failed GetItem (`service/batch.go:126`) |
| `ListPending`, `Reset` | BatchProcessorTask: list, then save each as pending |
| `Ready` | what moves a session from requested to negotiating (outside batches) |

`Written(old, new)` is a write whose error the code ignores: with the fault "drop"
the old value may stay.  `BatchPromise` is all-or-nothing: a batch ends with all of
its sessions charging or with none, and touches only its own while it works.
What can fail is a set of faults, "stop" (an attempt ends between two calls),
"refuse" (a call fails whose error the code acts on) and "drop" (a call fails whose
error it ignores, so that a write is lost unseen); `FaultSets` lists the sets an execution may choose from, once and for all.

Items are known by their session, so a request that names one session twice (the code
inserts two items for it) is not represented.  `Overlap = FALSE` means that one call at a
time works on a batch (`InUse` in `Start` and `ListPending`) and that batches share no
session (`Create`): an assumption about the callers that the code does not enforce.  In particular the task's list is never
stale then; `BatchTakenBack` shows what a stale one does.

### IssueFlow
`mem` and `table` are the two copies of the login sessions, `issue` the table of
issues with their versions, `req[p]` the locals of a request.

| action | code |
|---|---|
| `Login`, `SaveSession` | Login: the memory under the mutex, then the row |
| `Authenticate`, `FindSession` | Authenticate and RequireRole: the memory under the read lock, else the table; revoked, expired and wrong roles are answered |
| `Revoke`, `Forget` | Logout under the mutex: the row where it is not revoked yet, then the memory |
| `CreateProduct`, `ReportIssue` | inserts; the record's assignee and evidence are the client's |
| `AssignIssue`, `MitigateIssue`, `CertifyIssue` | GetIssue and the judgement on the copy |
| `TransitionIssue` | the update where id and version match; an empty string keeps a column |
| `Expire`, `Restart`, `Abort` | time, the process, a failing call |

A statement that fails has changed nothing.  A revocation that was committed and is
reported as failed all the same (`auth/service.go:147`) is therefore not represented: it
would leave the token accepted from memory until a restart.

Evidence is modelled by who wrote it.  The session a request proves its role with
is not looked at again, so `ready` requests outlive logouts, as in the code.

### ShardRecovery
`row` and `saves` are the tables, `file`, `open` and `exists` the shard's file (which an
append that fails may leave empty), `write[w]` what
a writer has committed and not appended, `replay` what a rebuild has read.  A row
or a line is the number of the save it comes from; a row's *head* (state, version,
links) is what a replay renews, its *body* what it leaves.

| action | code |
|---|---|
| `Commit`, then `AppendLine`, `Skip` or `Tear` | persistWithShard: transaction, then an append that works, fails unseen or ends early |
| `SubmitTx` | Submit's SaveTx, which appends nothing |
| `ReadShard`, then `Replay` or `GiveUp` | recoverShard: ReadFile, then one transaction over all lines |
| `Crash`, `Lose` | the process dies; the database is lost with it |

A line appended to one without its newline makes a single line that does not parse
(`Garbage`), which costs both records.  `Replayed` has the code's four cases,
including that of handshakes, whose statement always fails.

`meta` is the checksum in the shard's row of `shard_meta`: a save makes the row with an
empty checksum (`MetaEnsured`), a rebuild stores that of what it read, a lost
database takes the row with it.  `Certified` is what `Certify` makes of it; it reads
only and is an operator, not an action.

### HandshakeFlow
`form` and `session` are the tables, `mutex` is `attestationMu`, `registered` history.

| action | code |
|---|---|
| `Register`, `SaveForm`, `SaveItem`, `Registered` | Register: GetByFormNo, the insert of the form, one insert per session, the answer |
| `Attestation`, `Save` | AttestationWithLock: lock, Get and checks; Save of the whole row, unlock |
| `Modify`, `Save` | ModifyHandshake: Get and the check for a draft; Save of the whole row |
| `Abort` | a call fails: what is committed stays, the mutex is released |

`HandshakePromise` is what clients may rely on, without requests, copies or the mutex: a
form has a number no other form has, sessions, which it keeps, as many as announced once
it is complete, and signatures, which grow.  The exception is the code's: an edit begun
while nobody had signed may end by taking every signature away, and those may come back
with the next one (an attestation that was under way writes them again).
`Promise == INSTANCE HandshakePromise WITH` maps `contract` to the rows without their
state, `members` to the sessions that name a form, `complete` to `registered` and
`editing` to the forms some request is at "modify" for.  `SaveForm` is `Register`,
`SaveItem` `Store`, `Registered` `Complete`, `Modify` `Edit`; `Save` is `Sign` or
`EndEdit`; the rest stutters, or gives an edit up.

### ChargeControl
EXTENDS `BatchFlow` and instantiates `MitigationFlow`; both act on the one variable
`session`, the rows of `session_items` that `processItem`, `compensateItem` and
`Execute` read and later write back whole.

### SchedulerLoop
`main` is where the goroutine that shuts down is, `starter` where the one that runs
`App.Start` is, `loop[t]` where a task's loop is.  `signalled` and `cancelled` make up
the loops' context (`Done`); `genuine` and `recorded` are history.

| action | code |
|---|---|
| `StartLoops`, `Launch`, `Launched` | Scheduler.Start: the flag under the mutex, then one `wg.Add` and goroutine per task |
| `Tick`, `Leave` | the select of runTask: both cases may be ready |
| `Check`, `RunSucceeds`, `FailRun` | executeWithRetry: the context is asked, then the task runs |
| `BackOff`, `LeaveBackOff` | the select between two attempts |
| `Record` | recordPermanentFailure, whose insert is refused when the context is done |
| `Interrupt` | main's select sees the signal; or an owner without a signal calls Shutdown |
| `StopLoops`, `WaitForLoops` | Scheduler.Stop: flag and cancel under the mutex, then `wg.Wait` |
| `StopServing`, `CloseStore`, `Exit` | the rest of Shutdown and of main |
| `ServerFails` | ListenAndServe returns: main exits without a shutdown |

### Breaker
gobreaker's machine (external) with this code's `ReadyToTrip` and configuration:
`Begin` is its admission, `Succeed`, `Fail` and `EndLate` the end of a call of this or of an
earlier generation, `HalfOpen` its timeout.  `healthy` says whether calls succeed.

### PowerBudget
`Allocate` and `Release` are the methods, each under the mutex throughout.  A refused
or repeated call changes nothing and is no step.  `initial` are the watts a port was
registered with (`InUse`), which nothing compares with its limit; the library's `SumFunctionOnSet`
is `usedWatts`.

### DecisionRules
`Negotiate`, `Multiplier` (Decide), `Verify`, `Evaluate` and `Classify` are functions of a
question; a behaviour asks one of the bounded `Questions` and gets the answer.
The stable sort of `Negotiate` and the loop after it are the order `Before` (more power, or as
much and listed earlier) and the first usable candidate in it (`Foremost`); its index
is above 0 exactly when some candidate comes before it.  Of a protocol that the charger lists
twice the later entry counts (`Power`), stronger or weaker.  `Deals` knows nothing of that:
it holds every pair of certified entries of one name, and `NegotiatesBest` claims the best
of them where each protocol is offered once (`OffersOnce`), and no more than one of them
elsewhere.

### RollbackLedger
`Put` writes the memory, then the durable copy, which may fail.

### Instances
`MCMitigation`, `MCBatch`, `MCCharge` and `MCShard` instantiate one module.
`MCServer`, `MCSafety` and `MCLiveness` check several components that share no state in one run:
the variable `part`, chosen in the first state, says which component a behaviour is
about, and the others stay in their first state.  Their state spaces are therefore
added, not multiplied, and each component behaves exactly as in its own module.
They EXTEND the components they check, whose names are kept distinct for it, so that a
property of a run is the very definition that a theorem of section 5 states;
`Breaker`, which shares names with `BatchFlow`, is an instance in `MCLiveness`.

## 4. Runs

Ids, events and batches are never reused or freed, so every system here runs out
of them: the cfg files with such constants say `CHECK_DEADLOCK FALSE`, and progress
is stated as liveness instead.

| run | shows |
|---|---|
| `MitigationOverlap` | two requests anywhere, also on one mitigation, each stopping anywhere: the index never names a closed or foreign mitigation, nothing acts unapproved or completes without acting, a submission is lost only to an open mitigation, announcements are true |
| `MitigationSerial` | without overlap on one mitigation: the index is exact, closed stays closed, and the workflow implements `MitigationSlot` |
| `MitigationTwoOpen` (violation) | a review writing back a stale copy reopens a withdrawn mitigation beside a second open one |
| `ChargeControl` | a batch and a mitigation over the same sessions, with attempts that stop and writes that are refused or dropped: the name of a mitigation and the state of the session agree; a completed batch charges unless mitigated; a retry never applies a stored success again; where nothing is refused or dropped, no session charges whose item a rolled-back batch reports as failed or rolled back |
| `ChargeUnthrottled` (violation) | a batch that read a session before Execute throttled it writes "charging" over it |
| `BatchHalfUndone` (violation) | a retry after a stopped attempt rolls back only its own items; a session of a rolled-back batch stays charging |
| `BatchTakenBack` (violation) | the scheduler's task saves a stale list: a batch completed meanwhile is pending again |
| `ServerSafe` | *Login and issues*: logins, logouts, expiry and restarts beside the work on an issue; whoever is let in has an active session in the table, legal steps only, the assignee mitigates, four eyes on what is certified. *Streams*: two connections of one subscriber, one publisher, backlog within one read, any Last-Event-ID; Done closed at most once, the bus holds exactly the open connections, slots exact, no gaps |
| `CertifyAlarm` (violation) | an intact shard is reported as damaged after a rebuild and one more save |
| `RollbackVisible` (violation) | a failed Put is visible to Get |
| `ComponentsSafe` | *shards*: torn and lost lines, crashes, a lost database; the file is the history in order, a rebuild restores every record whose last save the file holds (handshakes excepted) and leaves current rows alone, what Certify passes by checksum is current. *Handshakes*: two requests of every kind; registrations are whole, the state matches the signers, only a modification loses a signature, and the whole implements `HandshakePromise` (`ContractKept`). *Power*: the watts add up and keep the limits. *Rules*: only certified deals, and the best one where each protocol is offered once; time and heat only tighten |
| `ComponentsLive` | under fairness. *Batches*: all or nothing, and attempts end. *Streams*: events reach open streams or these end; replaced and evicted handlers end. *Scheduler*: no run while the store closes, a shutdown ends and records no failure. *Breaker*: it closes again once calls succeed |

**Bounds.**  Two requests are enough for a stale copy (one reads, the other
writes); two sessions tell own claims from foreign ones, and where everything is
about one session's slot the serial run has one session with three mitigations,
one open, one refused and one more after the slot is free.  Two connections of one
subscriber give an old handler and its replacement, in either order of leaving;
longer chains, two publishers and larger buffers are covered by the proofs of
section 5, `NoGap` excepted.  `Headers` in `ServerSafe` are ids that are stored before,
after or never; in `ComponentsLive` it is empty and streams start from the checkpoint, because
where a stream starts does not bear on whether it goes on.  `Buffer = 1` makes every second event find a full channel; three events
give a delivered, a missing and a later one.  `ChargeControl` has a batch of one or two
sessions, a retry, and a mitigation of either session that can come at every point
between a read and a write; larger batches are in `ComponentsLive` (two batches, two
sessions, two attempts), and `BatchProofs` covers any.  `ServerSafe` has one user of
each kind who acts differently (a vendor's engineer, an auditor who reports and
assigns, a tester who certifies) with one login each, one of which expires
(`ShortLived`); clients may name the vendor's engineer or a wrong user as vendor
(`Vendors`); `MaxVersion = 4` is one version past the path to certification, so that a
writer can be late at each step.  The shard has one record of each kind, two saves of
those that are saved again (a stale and a last one) and two writers; two forms,
numbers, sessions, signers and requests are enough for each pair to collide.  The
allocator has two ports whose limits together exceed the budget, each registered with no
or one watt (`InUse`), and three ids, so that one can be repeated, one released and one
refused.  Every question to the rules is
asked, with up to two capabilities a side and thresholds that differ between the
sensors.  Two tasks with `MaxRetry = 2` (the code has 3, and the proofs any) let one loop be launched,
ticking or recording at every stage of the shutdown of the other.  The breaker has
the configuration of `App.New`; `MaxCounted = 10` calls in a closed generation exceed
both thresholds, and two concurrent calls give one that ends late.  Symmetry is used for
ids in the runs without liveness.

**Fairness.**  `EventStream`: weak fairness of a publisher's steps and of a
handler's steps.  Go schedules runnable goroutines, the read-write lock is granted
to its waiters, the fan-out never waits on a subscriber, and a ready `select` case
is taken.  Nothing forces an event, a connection, a cancellation or a pruning.
`BatchFlow`: weak fairness of an attempt's own steps; nobody must start one, and
refusing a write stays a free choice.  `SchedulerLoop`: weak fairness of the steps of main,
of Start and of each loop, and strong fairness of `Leave`: a `select` whose ticker and
context are both ready picks at random, so a loop may take a tick after the stop, but
not every time; weak fairness would not do, because the loop leaves the `select` in
between.  No tick and no signal is forced.  `Breaker`: calls end and the timeout passes;
`Recovers` supposes, in its own premise, that clients go on calling.  `MitigationFlow` has
none: nothing obliges a client to go on.

**Conditions on what holds.**  `NoGap` needs one publisher (`Publishers` has one
element: ids are drawn before the fan-out, so with two the larger may arrive first
and the smaller is then skipped as already sent) and `MaxEvents <= Limit` (a longer
backlog is cut at 500 events and the rest is never sent).  The code justifies neither: every
request publishes, and the table of events grows.  `NoGap` says what replay, eviction and
pruning do under them, fails without either, and is not claimed as a theorem.  The properties of
`BatchFlow` need attempts that do not overlap on one batch and batches that share
no session (`Overlap = FALSE`); the code enforces neither, and `CompletedStays`, checked without that
assumption, fails.  `AllOrNothing` moreover
needs attempts that are not cut short: one that stops between releasing a session
and marking its item leaves the item succeeded, the retry skips it, and the batch
completes with a session that does not charge.  `EffectMatchesName` says something of
the mitigation types the code knows only: one of another type keeps whatever state it read.
The shard properties need saves of one record that do not overlap (again `Overlap =
FALSE`): otherwise commits and appends may be in different orders.

## 5. Proofs

Eight proof modules prove safety for every value of the constants, from the named
assumptions on them only (`None` is no id, sizes are positive, types are known).
The assumptions stand in the module that declares the constants, and TLC evaluates
them on every run of it; `Breaker`, which `MCLiveness` instantiates, has them as the
hypothesis `Parameters` of its theorems.  The allocator's are what `NewAllocator` demands (limits and
budget above 0) and what a Go map is (finitely many ports).

`MitigationProofs`, over `MitigationInv`:
- `TypeCorrect`: the invariant `Base` is needed because a request writes back what
  it carries: it says the copy has the state its next call needs (`RequestOK`),
  that rows are stored under their own id, and that a copy agrees with its row on
  the session, while the id of a submission is nobody else's (`CopyOK`).
- `IndexIsSound`: `Base` and `IndexSound` are inductive together, because every
  write of a row is a `SaveTx` of a copy with the row's own session.
- `ApprovalComesFirst`: strengthened by "whoever is issued or executing, in the
  table or in a request's hands, was approved" (`ApprovalInv`).
- `CompletionComesLast`: strengthened by "whoever is about to save completed has
  saved its effect" (`CompletionInv`).
- `IndexIsExact`, `OneOpenMitigation`, for `Overlap = FALSE`: no two requests hold
  the same mitigation (`Exclusive`), so a copy about to be written in an open state
  comes from an open row (`NotStale`), so writing it never takes a claim anew.
- `AnnouncementsAreTrue`: what a request is about to record is still what it
  committed.  For an approval and an effect that is history; for a refusal it needs
  that nobody who is yet to write holds a copy of a refused row, because no
  transition leads out of "lost" (`TellInv`).
- `RefusalHasAReason`: the claim `SubmitTx` counts belongs to an open mitigation by
  `IndexSound`, and not to the one submitted, which has no row yet.
- `ClosedIsFinal`, `WorkflowKeepsTheSlot`, for `Overlap = FALSE`: the row is where the
  request read it, so the transition that `Validate` accepted on the copy is the one
  that the write makes, an execution that saves a session finds its mitigation
  executing, and the session still names that mitigation when it completes
  (`Current`).  The last holds because by `IndexExact` no other mitigation of the
  session is open, hence none executes, meanwhile.  Each call of the store is then
  one step of `MitigationSlot` or a stutter: `SubmitTx` enters or is refused,
  `SaveSession` acts, the saves move, approve, drop, start or finish.

`StreamProofs`:
- `StreamTypeCorrect`, `NothingClosedTwice`, `BusIsExact` from one invariant
  `BusInv`: a handler has a subscriber once admitted and an unclosed Done before
  it registers; a publisher inside its fan-out only meets subscribers that are in
  the map (nobody changes it under the read lock); `ClosedOnce`; `BusHoldsTheOpen`.
  `BusHoldsTheOpen` is what makes `ClosedOnce` inductive: whoever closes a Done
  found the connection in the map, hence with Done not closed yet.
- `SlotsAreExact`, when the handlers are finitely many: the set of handlers that
  run for a subscriber gains one element in `Admit`, loses one in `Release` and is
  otherwise unchanged.

`IssueProofs`, over `IssueInv`:
- `IssueTypeCorrect`: `IssueBase` is inductive.  Beside the types it says that the
  memory calls a session active only if the row is, or a logout that is about to
  correct it holds the mutex (`CacheAgrees`); that a request past the check has a
  role its operation allows (`RequestOK`); and that what it is about to write was
  judged on a copy, a judgement that holds while the row has the copy's version
  (`UpdateOK`).
- `RevokedAtOnce`: from `CacheAgrees`, because nobody reads the memory while a
  logout holds the mutex.
- `IssuesStepLegally`, `OnlyTheAssigneeMitigates`: from `UpdateOK` and a lemma that
  lists who changes an issue (`IssueChanges`): the update hits only the version
  the judgement was made of.
- `CertifiedByFourEyes`: `FourEyes` with `IssueBase`, since a certified row keeps the
  assignee and evidence of its mitigation until the certifier replaces them.

`SchedulerProofs`:
- `StoreOutlivesRuns`: `AfterStop` says that once main no longer waits, the context is
  done and loops are off, waiting or about to ask the context.  It needs
  `BeforeStop`: a stop that finds the flag unset was made by a signal, which has
  cancelled the context that a later Start derives its own from.
- `ShutdownRecordsNothing`: `CountsOwn`, attempts and failures agree until the context
  is done, and a record is only written before.

`ShardProofs`, for saves of one record that do not overlap:
- `FileKeepsHistory`: a line that is yet to be appended is newer than all lines of its
  record in the file, and no two such lines are of one record (`PendingIsNewest`).
- `CertifyIsRight`: rows are at least as new as what the last rebuild read (`RowsCover`).
- `RebuildIsComplete`, `RebuildIsHarmless`: from a lemma on `Replayed` and the same history
  of what was read, whose last line of a record is then its newest.

`HandshakeProofs`, whatever overlaps:
- `StatesMatchSigners`: in rows and in every copy that may be written back.
- `RegistrationsAreWhole`: a form that is being filled belongs to one request, and its
  sessions with those still to insert are as many as it counts (`Storing`).
- `SignaturesStay`: who attests holds the mutex and its copy has every signature that
  the row has (`Attesting`).
- `HandshakesKeepTheContract`: `PromiseStep` maps each action to a step of the promise or a
  stutter, from the same invariant.  A number is new because `SaveForm` looks again
  (the unique index); `Storing` gives the sessions of `Complete`; `Writing` knows that a
  copy has the number and the count of the row it replaces, so that a `Save` changes
  signatures only; `Attesting` makes that a `Sign`, and a copy that was modified is an
  unsigned draft, which makes it an `EndEdit`.

`BatchProofs`, over `BatchInv`, without overlap on one batch unless said otherwise:
- `SuccessIsNotRepeated`: an attempt has its batch to itself, which
  is not completed (`Owns`), what it has still to charge is not stored as succeeded
  (`Skips`), and what the task's list holds is still rolled back (`ResetIsDue`).
- `MemberInv`, for the rest: no session is in two batches (`Apart`), so what an attempt
  writes to a session concerns its own batch alone; items come after the record; and
  what an attempt has in hand are items of its batch (`HandsOn`).
- `RollbackUncharges`: the property says nothing of items that are yet to be tried, so it
  is not inductive.  `OpenIsUndone` adds them, and `Settles` says that during an attempt the
  only sessions that may charge without a succeeded item are those still on its list,
  charged by an attempt that stopped; the list is worked through before compensation.
- `BatchesAreAtomic`, with refused writes and no stops: the batch, its items and its
  sessions are written one by one, and `OutcomeOf` maps what is stored to the outcome of
  `BatchPromise`.  Ending well needs that every session charges (`HasCharged`), ending badly
  that none does: a charging session has a succeeded item or is about to
  (`ChargesForItem`), and compensation has every succeeded item on its list
  (`SuccessRemembered`).  It also shows that a session is touched only by the batch that
  works.
- Of `ChargeControl`, from an instance of `MitigationProofs` for the other half:
  `NamesAreTrue`, whatever attempts overlap: whoever is about to write a row back has one
  whose state agrees with the name on it (`NamedInv`); `processItem` charges only what it
  found negotiating or charging, and no effect leads there.
  `CompletedBatchesCharge` lets a mitigation account for a session that no longer charges
  (`Charged`); `RollbackUnchargesBeside` and `SuccessIsNotRepeatedBeside` add the steps of
  MitigationFlow to the proofs above.  `RollbackUnchargesBeside` needs `Submitted \subseteq
  MitigationTypes`: Execute writes back the state it read for a type without an effect, and
  that may be a "charging" which a rollback has undone since.  The others allow a
  type "other" that the code does not know.

`PolicyProofs`:
- `HalfOpenDecides`, on which `Recovers` rests: in a half-open generation the
  counted calls are those under way and those that succeeded (`TrialsCount`), and the
  latter are not yet enough, so one is under way or one more is let through.
- `RulesOnlyTighten`: the answer is that of the question (`Answered`); then each rule by
  itself, from `ThresholdsRise`, which `NewController` demands, for heat.
- `PowerTypeCorrect`, `BudgetIsKept`, from the invariant `PowerInv`: finitely many
  allocations are active on a port (`FinitelyMany`: ids may be infinite, each step adds
  at most one), and `BudgetKept` itself.  A step changes one port and one id, so each sum gains
  or loses one term, and `Release` never meets its clamp at zero because the port's
  watts contain those of the allocation.  The lemmas on sums behind it (`SumStep`, `SumIsNat`,
  `SumTakes`, `SumAgrees`, `SumWith`, `SumChanges`) need an induction over finite sets; each
  takes instead a smallest set for which it fails (`SmallestSubset`, from the library's
  theorem that strict inclusion of finite sets is well-founded) and contradicts it.
- `NegotiationIsBest`: some candidate is `Before` all others (`LeastExists` and
  `GreatestExists`: most power, then first listed; `ForemostIs`).  Usable candidates are the stable deals,
  because the cable and the watts asked for are positive, so the foremost of them has the
  best watts, and whatever comes before it has more power and was not usable.  That the
candidates are the deals needs `OffersOnce` (`DealIsCandidate`); that each is one does not
(`CandidateIsDeal`).

Only model-checked: all liveness (`ShutdownEnds`, `Recovers`, `AttemptsEnd`, `ReachesAll`,
`StoppedEnds`), because the prover does not treat fairness, and `NoGap`, which holds under
bounds the code does not keep.  Every other invariant and action
property of the passing runs is proved, and so are the three refinements.  The types of the
components are in no run: they hold by the theorems whose names end in `TypeCorrect`.
`AllOrNothing` is proved where writes are refused at most, which is what its run has.

## 6. Where code and documents disagree

The violation runs: stale reviews (`service/mitigation.go:126` against
`domain/state.go:15` and `service/mitigation_test.go:77`), half-undone batches
(`service/batch.go:124` against `service/batch_test.go:54`), failed writes visible
in the cache (`storage/rollbackledger_service.go:16` against
`storage/voltforge_30_test.go:11`), a throttled session that charges again
(`service/batch.go:162` against `domain/entities.go:28`), false alarms of Certify
(`service/import_maintenance.go:175` against `src/cmd/voltforgectl/main.go:153`), and a completed
batch that the scheduler's stale list makes pending again (`scheduler/tasks.go:84` against
`domain/entities.go:147` and `domain/state_machine_test.go:90`).  Met while modelling, without a run of their
own: the subscription cursor never advances (`src/README.md:12` says it does);
`ErrStaleCheckpoint` is declared and never returned, so a client may resume after
pruned events without being told; a retry that overlaps a running attempt applies
items again; a client that reconnects may be told "slow consumer" although no
event found its channel full (`service/subscription.go:99`); a rebuild reports every
handshake as an error, because its statement has 20 placeholders for 19 columns
(`storage/recovery.go:173`), and does not rebuild `active_mitigations`; a shard that
was never rebuilt has no checksum and passes Certify whatever happened to its file;
failures are recorded as permanent while RetryFailures lists pending and retrying
ones (`scheduler/scheduler.go:143`), so nothing is ever retried; a client's errors
count as failures of the breaker (`circuit/breaker.go:53`); an SSE stream that goes on
keeps the HTTP server's Shutdown waiting until its 30 s are over; an auditor
cannot certify (`charging/service.go:127`) although `src/README.md:16` says auditors
manage certification; a charger that lists a protocol twice, the weaker entry last, is offered less than both
sides certify (`protocol/negotiation.go:71`); `retest_required` is in the machine of issues and no call
reaches it; a modification of a handshake may erase a signature
(`httpapi/handler_handshake_mitigation.go:73`).

## 7. Not modelled

Decoding, routing, formatting, configuration, logging and the command-line client have
no state of their own.  Imports are loops of independent registrations, exports and
ledger queries read only, and `BatchCertifyChargeSessions` repairs rows no code writes.
The token bucket and, to the other services, the breaker are refusals that change
nothing.  `RetryFailures` finds an empty list.  SLA rules have a life (draft, active,
deprecated) but no production code adds one; a rule is part of the question to
`Classify`.  Counters of a batch (`SucceededCount`, `FailedCount`) are written and never
read by code.  Timestamps appear only where they order something, and the length of a
backoff or timeout not at all.  `UpdateStateTx`, `SweepIdle` and `CreateChargeTest` are
called by no production code.
