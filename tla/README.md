# bbfactory: message dispatch and workspaces of threads, in TLA+

bbfactory runs coding agents. A *thread* is a conversation with one agent: it
has an environment (a workspace on a host), a provider session in it, and at
most one running *turn*. Users, other threads and plugins send it messages at
any time. The server decides for each message whether it can go to the agent
now or has to wait in a queue, and for what. That decision, and everything that
can happen while it is being taken, is what the first group of modules is about.
The second is about the workspaces: how a thread comes by one, how two threads
keep off each other's, and how one that nobody lives in goes away.

Paths below are relative to `src/`. `T` is `apps/server/src/services/threads`,
`Q` is `packages/db/src/data/queued-thread-messages.ts`, `E` is
`apps/server/src/services/environments/environment-engine.ts` and `R` the rows
below it, `packages/db/src/data/environments.ts`.

## 1. Inventory

### 1.1 The parts of the system

| Part | State | Operations | What makes it correct |
| --- | --- | --- | --- |
| Thread lifecycle table, `packages/domain/src/thread-lifecycle.ts` | none: a table | evaluate an event against (status, archived, deleted) | late events of archived threads are refused; no event revives a thread it does not concern |
| Queue store, `Q` | rows: order key, wait, failure, claim token, group edge | create, claim, release, requeue, group, consume, delete, sweep | a row is consumed once, by its claimant; groups are chains of neighbours; claims do not outlive their owner |
| Dispatch, `T/queued-messages.ts`, `queued-message-dispatch.ts`, `dispatch-attempt.ts`, `thread-send.ts` | attempts in flight, deferred wakes, drain deduplication (memory) | send, queue, send now, drain, walk on a wake, first admission | no message is lost, doubled or sent against the user's will; every wait ends |
| Thread runs, `T/thread-lifecycle.ts`, `thread-archive.ts`, `thread-provisioning*.ts` | thread row, interruptions in the event log, in-flight RPC guards (memory) | start, submit, stop, settle, finalise, archive, reconcile, provision | a stopped or archived thread stays so; a stopping thread settles |
| Host sessions and live commands, `internal/session-owner-side-effects.ts`, `services/hosts/*`, `ws/hub.ts` | connection, grace timers, RPC waiters (memory) | disconnect, grace, new session, undelivered command | what ran during an outage is neither run twice nor forgotten |
| Event ingestion, `internal/events.ts`, `turn-completed-events.ts` | event log | turn/started, turn/completed and their effects | an event acts on the run it belongs to |
| Host daemon, `apps/host-daemon/src` | per-thread lanes, runtimes, buffered events | thread.start, turn.submit, thread.stop | one turn at a time, commands of a thread in order |
| Pending interactions, `services/interactions/pending-interactions.ts` | open interactions | ask, answer, interrupt | whoever waits for one is woken when it ends |
| Environment lifecycle table, `packages/domain/src/environment-lifecycle.ts` | none: a table | evaluate an event against (status, path on record) | a row that is lived in is not destroyed |
| Environment engine, `E`, `R`, `environment-provisioning-cancellation.ts`, `cleanup-concurrency.ts`, `path-admission.ts`, `T/thread-environment-placement.ts` | environment rows (owner, attempt, path, claim, teardown, retirement), startup contexts in thread rows, one operation per row and the cleanup slots (memory) | reserve, create (claim, bind, adopt), attach, set up, cancel, retire, remove, reopen | one row and one claim per path; an old attempt never overwrites a newer one; a workspace is neither lost nor taken from under a turn; starts, stops and removals end |
| Terminals, server move, machines, plugin runtime, agent runtime, event pruning, factory, automations, account pool, limits and retries, host watcher, user interfaces | | | not modelled; `PROJECT.json` has the reason of each |

### 1.2 How they interact

The server is one Node process over one SQLite database. Code between two
`await`s is atomic, and so is a transaction; everything else interleaves. The
parts share the database and call each other directly. What they must do later
they put on a queue of deferred work in memory (the *wakes* of
`QueuedMessageDispatchWake`). The daemon of a host is reached over a websocket:
commands go out and are answered, events come in. A connection that goes down
rejects every command in flight, whether the daemon runs it or not. The daemon
buffers its events while it is offline and reports its live threads when it is
back.

A thread's startup goes through the engine by its row: the request is kept in the
thread row (the startup context), the engine advances it when an operation ends,
when the thread is rechecked and in the periodic sweep. Providers are plugins: the
engine asks one to create or to remove a workspace and lets it claim a path before
it touches it. The daemon is asked to attach (look at the workspace, run its setup
hook) and to cancel that.

### 1.3 What is hard

* An attempt reads the thread, awaits hooks, hosts and providers, and commits
  much later. The thread may be stopped, started, archived or lost by then.
* Several attempts run at once: requests of users, one idle drain per thread,
  walks for different wakes. They race for rows, for groups and for the thread.
* A row may be deleted or its group changed while an attempt holds its claim.
* Wakes and attempts die with the process. Rows, claims and the thread do not.
* Results and events of the daemon come late, about runs that have been stopped.
* An outage is noticed at different moments by the server and by the daemon.
* An environment row is written by the creation, the cancellation, the attachment,
  the setup's result, the sweep and the removal, each of which awaited something
  since it read the row; two threads can want the same row or path.
* Removals are retried for ever, operations die with the process, and what a
  provider made is known only from the rows.

The `hazards` of `PROJECT.json` list these at the lines where they bite, with
the properties that would catch each.

## 2. Plan

1. `ThreadLifecycle`, `MessageQueue`, `MessageDispatch`: the core. *Done.*
2. `MessageLedger`, the promise to a message's author, and the refinement. *Done.*
3. Proofs of the type invariant and of the safety properties of the dispatch.
   *Done for* `TypeOK`, `SentOnce`, `ClaimsHaveOwners`, `InlineHeld`,
   `Promise`, `ArchivedNeverRuns`, `StopHolds`, `PauseHolds`, `NoCompetingTurn`,
   `InteractionWakes`, `HostWakes`, `FirstInFirstOut`: all its invariants and all
   its action properties.
4. `EnvironmentLifecycle` (the second table) and `EnvironmentEngine`: path
   claims, preparation, retirement and removal with retries and restarts;
   `WorkspaceUse`, the promise about workspaces on a host, and the refinement.
   *Done*, with proofs of all its invariants: the types, the exclusive claims,
   rows and owners, the creations in memory, what becomes of reserved rows, and
   that every workspace is found again. MessageDispatch's `setup` is what all of
   this looks like from outside.
5. `EventIngestion`: batches stored and applied in two steps, sent again after a
   lost answer; each event is to take effect as if it had come once.
6. `MessageQueue`: reordering and editing of rows, and the group lemmas
   (`GroupOf` partitions the live rows; `Remove` never joins two groups).
7. Proofs of `NobodyIsEvicted` and `ClaimOutlivesWorkspace`, and of the refinement
   of `WorkspaceUse`. *Done*, for a provider that makes what it answers, archived
   threads that stay archived and, the second one, a host that does not drop (section 6).
8. The account pool's leases, or the factory's executions.

## 3. The modules

| Module | Models |
| --- | --- |
| `ThreadLifecycle` | the status table, by column: the statuses an event leaves and the one it leads to |
| `MessageQueue` | the queue's variables and one operator per write of `Q`; no behaviour of its own |
| `MessageDispatch` | extends both: workers, wakes, the daemon, the host's connection, and every action |
| `MessageLedger` | the abstract specification: what becomes of a message |
| `DispatchProperties` | all properties, each with the code it is about |
| `MCMessageDispatch` | budgets and symmetry for TLC |
| `EnvironmentLifecycle` | the status table of environments, by column |
| `EnvironmentEngine` | extends both tables: rows, threads, operations, the host's disk, and every action |
| `WorkspaceUse` | the abstract specification: turns in workspaces that come and go |
| `EnvironmentProperties` | its properties |
| `MCEnvironmentEngine` | starts, limits and symmetry for TLC |
| `MessageDispatch_proofs` | what the queue's operators preserve and change; the type invariant |
| `DispatchClaims_proofs` | claims, rows and attempts: the inductive invariant `HoldingInv`; the refinement of `MessageLedger` |
| `DispatchRun_proofs` | archived, stopped and paused threads; turns that do not compete |
| `DispatchWaits_proofs` | rows that wait for an interaction or a host; the order of those that wait for the turn |
| `EnvironmentEngine_proofs` | the type invariant, and facts about the effects several actions share |
| `EnvironmentClaims_proofs` | owners, claims, paths and attempts: the inductive invariant `ClaimsInv`; what was made is found again: `LeaksInv` |
| `EnvironmentOwners_proofs` | whose a reserved row is: `OwnersInv`, which adds the threads to `ClaimsInv` |
| `EnvironmentUse_proofs` | where nobody can live, and what was made where: `UseInv`; the refinement of `WorkspaceUse` |

### 3.1 State of the dispatch

* *The queue*: `place` says where each message is (not written, in the hands of
  its request, a row, sent, deleted, refused); `wait`, `failed`, `token`, `key`
  and `edge` are columns of its row (`waiting_on`, `failure_reason`,
  `claim_token`, `order_key`, `group_with_next`). The token `Orphan` is that of a
  process that is gone.
* *The thread*: `status` and `archived`; `setup` is its environment id and its
  provider session; `turn` is the root turn the log has open, a "ghost" being one
  that the status ignores; `mark` sums up the end of the event log as the queries
  for the pause of the queue and for stops before a start read it; `asking` is an
  open interaction.
* *The host*: `hostUp`, the `lane` of commands the daemon has yet to run, the
  turn it is `running`, a turn that ended unheard (`done`), an answer to a stop on
  its way (`stopAck`).
* *The server's memory*: `wakes`, and per worker a `job`. A job's `pc` is the
  await it is at: `fast` (the short way of `sendClaimedQueuedMessageForIdle-
  ProviderThread`), `check` (the awaits before the checkpoint of
  `runDispatchAttempt`), `send` and `admit` (the awaits before its transactions),
  `walk` (between two rows of a wake). `snap` is the thread as the attempt read it.
* *History and bounds*: `sent` counts deliveries; `left` is what is left of `Budget`.

### 3.2 Actions of the dispatch

* *User*: `UserSends`, `UserQueues`, `UserDeletes`, `UserGroups`, `UserSendsNow`,
  `UserStops`, `UserArchives`, `UserUnarchives`, `Answered`.
* *Dispatch*: `Drain` and `DrainJoins` (thread-ready), `StartWalk` and `WalkOn`
  (the other wakes), `InteractionSettled`, `PluginRechecks`, `Sweep`. A checkpoint
  ends in one of `CheckWaits`, `CheckPasses`, `CheckMoved`, `CheckArchived`,
  `PluginHolds`; a transaction in one of `FastSend`, `SendStart`, `SendJoin`,
  `Admit`, `CommitMoved`, `CommitFails`. `AttemptFails` is an await that throws.
  `GiveUp` is the common end of what fails: it releases the claims and records
  the failure as the caller of the attempt does, which differs between drains,
  walks and send-now.
* *Run*: `EnvironmentAttaches`, `ProvisionSucceeds`, `ProvisionFails`,
  `StopSettled`, `StopFails`, `SweepArchived`. *Daemon*: `CommandAccepted`,
  `CommandRejected`, `TurnStarted`, `TurnSteered`, `TurnCompleted`,
  `TurnEndsUnheard`, `LateCompletion`, `Asks`, `DaemonStops`, `DaemonDies`.
* *Host*: `HostDisconnects`, `CommandUndelivered`, `GraceExpires`,
  `InteractionGraceExpires`, `HostReturns` (with `Reconcile`), `Crash`.

Operators whose comment begins with "Mutant of" are altered forms of the one
that follows them. No action uses them: they are plausible mistakes, one per
property, with which TLC must find that property violated.

### 3.3 Abstractions of the dispatch

* One thread. Messages are alike: one envelope, no attachments, one input.
* Left out: deletion of threads, scheduled sends (`time` waits), system notices,
  steer and start modes, retrying and editing sent messages, reordering and
  editing rows, manual compaction and context clear, pauses of machines, the
  freeze of a server move, reprovisioning an environment that was retired,
  release-intent stops, the pacing of requeued dispatches.
* An event batch is stored and applied in one step. While connected, the daemon
  posts its events at once; while it is offline at most one turn ends unheard,
  and the start of an accepted turn is heard only when it is back.
* The daemon takes a thread's commands in order (its write lane). Joins and stops
  wait for an accepted turn to start; the timeouts of these waits are left out.
* Which turn a joining message was meant for is not tracked; when its command
  fails, the run fails or, as if that turn had completed by then, nothing happens.
* Of a command in flight when the connection or the server goes down only that it
  may still reach the daemon is kept (a "stray"). A stop that was in flight then
  is dropped, which `Reconcile` has to make up for.
* A stop that a host must first confirm by cancelling the provisioning goes
  through the lane like any stop.
* Wakes of one kind for the thread are merged. A daemon dies only while it is
  disconnected: the connection goes first, if only by an instant.

### 3.4 The environment engine

*State.* `env[e]` is a row: `status`, `owner` (`ownerThreadId`), `attempt`, `path`,
`claim` (`claimPath`), `td` (`teardownStatus`) and `retire` (`retireAt`: none, not
yet, reached). `thr[t]` is a thread with its startup context: `intent` and `attached`
say whether it still asks its provider or has its row, `start` stands for the
`provisioningId`; `adv` is the row a suspended call of `advanceEnvironmentProvisioning`
is about to attach. `op[e]` is the operation in memory: a creation (`asked`, then
`made` when the provider has answered and the transaction has not run), a setup
(`sent`, or `done` while its cancellation is awaited) or a removal (waiting for the
`slot`, for the setup `hook`, or `busy` at the provider). `made` is the disk: each
workspace with the row it was made for.

*Actions.* Threads: `CreateIn`, `StartFirst`, `Restart`, `StartTurnInPlace`,
`StartReprovisioning`, `Stop`, `StopAgain`, `TurnEnds`, `Archive`, `Unarchive`.
Placement (`prepareProviderEnvironment`): `Reserve`, `Reject`. Creation (`runCreate`):
`StartCreate`, `CreateClaims`, then `CreateMakes`, `CreateFinds` or `CreateFails`, then
`CreateBinds`, `CreateAdopts` or `CreateRefused`. Attachment: `Attach`, or `AttachLater`
and `AttachNow` around the await for the branch of a ready workspace, `StartFails`,
`StartTurn`. Setup: `SendSetup`, `InterruptSetup`, `SetupSucceeds`, `SetupFails`,
`CancelSetup`, `SetupCancelled`, `CancelFails`, `HostGrace`. Removal: `DeleteEnv`,
`Sweep`, then `SlotSpares`, `SlotWaits` or `SlotBegins`, `HookStopped` or `HookUnknown`,
`RemoveSucceeds` or `RemoveFails`; `RetireDue` is the clock. `HostDrops`, `HostReturns`,
`Crash`.

*Abstractions.*

* One host and one project; every environment has a provider, which owns its path, and
  providers differ in their policy alone. So the refusals for a foreign project, another
  provider or a plugin that is gone, and a selection that changes between attempts, are
  left out, and so is the deletion of threads (with `releaseFinishedEnvironmentPreparationOwners`).
* The provider claims a path no other row has to do with (its names come from the
  row's path key) and makes the workspace there; or, with `Adopts`, it answers with
  the path of an existing row, which it may have claimed before (`Eligible`,
  `CreateFinds`). The shipped project-checkout does that:
  `plugins/environment-project-checkout/server.ts:185-188`.
* The rows of `Lasting` are those whose provider has a `retireGraceMs` of null, which
  "keeps the environment indefinitely" (`packages/plugin-sdk/src/environment-provider.ts:99`). Such a row is not retired
  when the last thread leaves it (`SlotWaits`, `RefreshedRetirement`; `E:780-786`,
  `E:875-879`); it is removed when its preparation was cancelled or somebody deletes it.
* A removal takes away what was made for the row and what is at its path. That of
  project-checkout, which works in the user's own directory, takes nothing away
  (`server.ts:255`) and is not modelled: the directory outlives its rows, and properties
  that speak of a workspace that stays behind are not about it. The daemon finds a
  workspace or does not (`Present`).
* An identifier of a row nobody remembers may serve again (`Forgotten`), which keeps
  the rows few; `attempt` grows with the starts.
* What a thread does with its turn is MessageDispatch's matter: here a turn runs and
  ends. The queue is left out: a message is sent to a thread that may start.
* The engine asks for the cancellation of a setup beside whatever operation the row
  has. In the model a row that is queued for removal gets it once that operation is
  over, which it soon is, as the threads that were stopped still live there.
* Progress, logs, names, branches and resources are left out.

## 4. The runs

`queue`, `crash`, `waits`, `first`, `settles`, `stranded` and `wedged` are of
`MCMessageDispatch`. A budget allows each disturbance in it once; sends, drains,
walks, sweeps, provisioning, turns and reconnections are
bounded by nothing but the messages, which are written once each.

| Run | Instance | Shows | States |
| --- | --- | --- | --- |
| `queue` | 3 messages, 2 workers; send-now, delete, stop, group | `TypeOK`, `SentOnce`, `ClaimsHaveOwners`, `PauseHolds` | 405,000 |
| `crash` | 2 messages, 2 workers, new thread; crash, stop, archive, fault, delete | `InlineHeld`, `ArchivedNeverRuns`, `Promise`, `StopHolds` | 609,000 |
| `waits` | 2 messages, 2 workers; interaction, stop, host | `InteractionWakes`, `HostWakes`, `NoCompetingTurn`, `FirstInFirstOut` | 65,000 |
| `first` | 2 messages, 1 worker, new thread, hooks; hold, interaction | `InteractionWaitEnds`, `ProvisioningWaitEnds` | 17,000 |
| `settles` | 2 messages, 1 worker; stop, crash, host | `QueueDrains`, `StopsSettle` | 91,500 |

The others are of `MCEnvironmentEngine`: each thread is started as often as
`MaxStarts` says, each disturbance of `Limit` happens once.

| Run | Instance | Shows | States |
| --- | --- | --- | --- |
| `adoption` | 2 threads, 2 rows, 2 paths, 1 start each, adopting provider; failure, failed cancellation, crash, host, unarchive | `TypeOK`, `OneOwner`, `ClaimsAreExclusive`, `OneRowPerPath`, `ReservationsAreWanted`, `NothingLeaks`, `NobodyIsEvicted` | 1,661,100 |
| `workspaces` | 2 threads, 2 rows, 2 paths, 2 starts each; failure, crash | `OldAttemptsAreDead`, `WorkspacesServeTurns`, `ClaimOutlivesWorkspace` | 1,184,000 |
| `cleanup` | 2 threads, 2 rows, 1 path, 1 start each, one row's provider keeps what it made; failure, crash | `StartsSettle`, `EmptyOnesGo`, `StopsEnd` | 202,200 |

Why the bounds are enough: the properties speak of one message and whoever
competes with it. Two workers are every race of two attempts; a third adds only
another competitor for the same row. Three messages are needed where a group, its
neighbour and a hole in it matter (`queue`), two elsewhere: a row and
the one that overtakes it or starts the thread first. One of each disturbance,
each at any moment, gives every pair of mishaps; the proofs of section 6 have no
bound at all. The runs with liveness have one worker: requests and drains follow
each other, and whatever they wait for is outside of them. `CHECK_DEADLOCK` is
left on: the sweep always comes round.

In the environment engine a property speaks of one row or path and of two threads
that compete for it: two threads and two rows, one for each, or both threads in one,
or one that is prepared while the other goes. A second path is needed for a
workspace to be made beside another; with one path (`cleanup`) the two creations
must wait for each other, which is what its liveness is about. Two starts let a
thread come back to a row it left. `CHECK_DEADLOCK` is off there, since threads use
up their starts. `workspaces` leaves three disturbances out because the code loses
the property with them: `drop` (the run `orphaned`), `back` and an adopting provider
(section 5). `cleanup` leaves out `back`, which with `fail` is the run `standoff`, and `cancel`
(section 5); its properties hold with `drop` as well, which is left out for time. One of
its rows is in `Lasting`, which `EmptyOnesGo` excuses: the other row has to go, the lasting one
only when it is to be removed. In the safety runs no row is lasting: the sweep of a lasting row
returns to where it began, so that it adds no behaviour.

Messages and workers are interchangeable (`Lead` chooses by the order key, never
by identity), and so are threads, rows and paths, so the safety
runs use symmetry. The runs with liveness do not.

Fairness of the dispatch (`FairSpec`), all weak:

* `Advance`: every await of an attempt returns (its host calls have timeouts).
* `Drain`, `StartWalk`, `DrainJoins`, `InteractionSettled`: deferred work runs.
* `Sweep(TRUE)`: the periodic recovery comes round, and claims get old.
* `HandleCommand`, `TurnStarted`, `LateCompletion`: the daemon works through a
  lane and posts its events.
* `TurnCompleted("completed")`: turns end. This is the one assumption about
  agents; without it every busy thread may be busy for ever.
* `EnvironmentAttaches`, `ProvisionSucceeds \/ ProvisionFails`: provisioning ends
  one way or the other (the sweep advances or fails it).
* `StopSettled`, `HostReturns`: answers arrive, and the daemon reconnects, as its
  partysocket does for ever.

Not fair: users (nobody has to answer, unarchive or send), plugins, grace timers.
That is why `QueueDrains` excuses rows that wait for a user or a plugin, and
rows of a thread in error, which only the next send revives.

Fairness of the environment engine (`FairSpec`):

* `Placement`: a thread that starts is advanced, by what it waits for or by the
  periodic sweep. `StopAgain` for archived threads: the sweep stops them again.
* `Work`: the operation on a row goes on, because providers and the daemon answer
  or time out, and the sweep takes up creations that have none.
* `Sweep`, `RetireDue`: the sweep looks at every listed row, and clocks run.
* `SendSetup \/ InterruptSetup \/ CancelSetup`, strong: a removal that the sweep queues
  for a row somebody lives in disables these for a moment, again and again, but the
  engine looks at the row each time the operation is over.
* `HostReturns`: the daemon reconnects.

Not fair: users, the ends of turns, and every disturbance.

## 5. Where code and words part

Four runs check what a comment or a document promises and end in a counterexample.

| Run | Property | What happens |
| --- | --- | --- |
| `stranded` | `ProvisioningWaitEnds` | The workspace-ready wake is dropped while the thread starts; a stop with `thread.start` in flight then leaves rows waiting for a provisioning that is over. |
| `wedged` | `BusyWaitEnds` | An accepted turn survives an outage longer than the grace. The reconciliation makes the thread active, but the turn's start and end are both ignored as preceding the interruption: the thread is active for good. |
| `standoff` | `StartsSettle` | A removal fails, the thread is unarchived and sent a message: its start waits until the previous workspace is removed, and the retry of the removal spares a row with a live thread. |
| `orphaned` | `ClaimOutlivesWorkspace` | The host goes away between the provider's answer and its recording. The row is recorded as removed without path or claim; the workspace it had claimed stays and nobody will ask for its removal. |

Some disagreements are known and have no run of their own:

* A walk claims a row, another send starts the thread first, and the short way's
  claim-lost error becomes the row's failure (`GiveUp`), where
  `T/queued-messages.ts:660-663` has it queue again.
* `server.ts:677-678` says that rows queued for an interaction "stop waiting once that
  interaction settles". The wake clears only rows nobody holds
  (`automaticallyDrainableQueuedThreadMessage`, `Q:1921`). The provider asks, a message is
  queued for the interaction, which is answered; before its wake runs the user sends the
  row now, which claims it without touching its wait; the wake passes over it; the host
  does not answer the attempt, and the row is given back with its wait
  (`T/queued-messages.ts:803`), which drains and sweeps pass over: it stays until another
  interaction settles or it is sent by hand. With `now` and `fault` beside `ask`
  in the budget TLC finds `InteractionWaitEnds` violated so.
* The server dies between the settlement of an interaction and the wake of the queue:
  no sweep looks at rows that wait for an interaction. `first` has no crash.
* After a crash younger rows go first for the five minutes that the orphaned claim
  of the oldest lasts. So they do while the oldest is being sent by hand, which may
  fail; and past a group one of whose rows has failed. `FirstInFirstOut` excuses the three.
* Grouping does not see claimed rows, and sets an edge across one that is given
  back later (`GroupUpTo`).
* With an unarchiving thread (`back` in `workspaces`): thread A is stopped in its setup,
  thread B is created in the same workspace, both are archived, the user deletes the
  environment, and while the provider removes it B comes back and is sent its first
  message. The removal ends, the row stays in error with its path since somebody lives
  there, B's start takes that for a failed setup and starts it over, a stop cancels it,
  and a cancelled setup with a path on record falls back to `ready`. The next message
  starts a turn in a workspace that is gone. With an adopting provider the same
  fallback is reached when the adopted row is removed before it is bound. (The adopting
  provider of the repository, project-checkout, leaves the directory where it is, so
  with it alone the turn has somewhere to run.)
* With a failing cancellation (`cancel` in `cleanup`): the setup it was for succeeds, and
  a thread that waits for the cancellation stays `stopping` until it is stopped again or
  the host comes back.

* A message that was to join a turn is refused: the thread is in error, its turn goes
  on. The next request is then a turn beside the running one, which the daemon refuses.
  So `NoCompetingTurn` excuses the status error; and threads that were archived, where a
  message can be on its way to a turn that has just ended.
* On a thread that has yet to run, a first message that was checked before another one
  started the thread is admitted when the thread is in error in that way: it leads to
  `starting` with the turn still open, and a drain's short way, chosen earlier, goes
  ahead from there. It takes five messages and three attempts at once, and is why
  `TurnsNeverCompete` is for threads that have run.
* A host comes back while the thread is archived: its wake is dropped, and after the
  thread is unarchived nobody walks its rows until the next session. `HostWakes` leaves
  archival out, as well as groups, failures, crashes and send-now, each of which can
  give back or leave a row behind the walk.
* An adopted row is removed while the archived thread in it comes back, and the thread
  that adopted it reserves it again. If that start is stopped once the provider has
  made the workspace and the server dies before the recording, the sweep finds a live thread in
  the row and lets go of the cancelled preparation, claim and all, though the workspace
  exists: `ClaimOutlivesWorkspace` fails with no host away (26 steps; `back` and
  `crash` with an adopting provider).

`InteractionWaitEnds` and `ProvisioningWaitEnds` hold in passing runs, whose budgets
leave out the disturbance that breaks them: a crash or a failing send-now for the
first, a stop for the second.
`QueueDrains` excuses an active thread whose last interruption was its host's:
that is the thread of `wedged`.

`StopHolds` is about the time the host is connected. A stop that was lost with
the connection, and settled by nobody, is reported as a live thread by the next
session and made active by `reconcileDaemonReportedThreads`; the code says so,
and the model too.

## 6. The proofs

Assumptions on the constants: `TokensDistinct` (the two tokens that are no
worker's are none), `HooksBoolean`, `StartedBoolean`, `BudgetNatural`. Nothing is
assumed of the size of `Msgs` and `Workers`: they need not be finite. For the
environment engine `ConstantsAssumption`: `None` is no thread, row or path, `Lasting` is
any set of rows, the bounds are natural numbers. Threads, rows and paths need not be finite either.

* The lemmas about `MessageQueue` that open `MessageDispatch_proofs`: each queue operator keeps `QueueTypeOK` and says which
  variables it can change and how.
* `TypesHold`: `TypeOK` is inductive; one lemma per group of actions.
* `SentExactlyOnce`, `ClaimsNeverLeak`, `InlineMessagesHeld`: none of the three is
  inductive alone. That a delivery counts a message once needs
  that no other attempt holds it, which for rows is their token and for inline
  messages the uniqueness of their request; that a token names a working attempt
  needs that an attempt that ends has given back exactly the rows it held. The
  conjunction with `TypeOK` and with the fact that what a worker holds fits the step
  its attempt is at (`JobsCoherent`: an idle or walking one holds nothing) is
  `HoldingInv`, which is. A deletion may take a row from under an
  attempt; the invariant allows that, and `ClaimLost` is what saves `SentOnce`.
* `DispatchKeepsPromise`: under `HoldingInv` each step is a step of
  `MessageLedger` or leaves its variables alone; a crash is a `Refuse` of all
  the messages in the hands of requests.
* `ArchivedStaysQuiet`: `ArchivedNeverRuns` is inductive with the types. The weight
  is on `Superseded`: every way into starting or active asks the table.
* `StoppedStaysStopped`: a step that makes the thread active under an unchanged
  "stopped" mark is either a start result, which `CommandAccepted` refuses as
  stale, or a turn start, which becomes a ghost, or a request, which changes the
  mark.
* `PausedRowsWait`: the four sending transactions look at the pause only if the
  attempt is `pausable`, which was decided when it claimed its rows. The
  strengthening `PauseInv` says that an automatic attempt that holds an ordinary
  row is pausable: waits of claimed rows do not change under the claimant.
* `TurnsNeverCompete`: a start decides long before its transaction, which looks at the
  thread's status and not at its turn. `TurnInv` says that a thread that is `idle` has no
  live turn, that it is never `starting` or `pending`, and that no attempt is, or will
  find itself to be, the thread's first dispatch, which alone could make it so. The
  hypothesis `Started` (the thread has a session) is that last part's; without it there is a counterexample (section 5).
  Archival is excused, so the invariant needs to know that none has happened: `HistoryInv`
  ties what is left of the budget to what was spent, and `SparedBefore` gives for each
  step that a spared history was spared before and the step is no such disturbance.
* `InteractionsWake`: rows that wait for an interaction are unclaimed, because no claim of
  a drain or a walk takes one and send-now is excused; so the wake's clearing misses
  none. And each of the four ends of an interaction leaves its wake.
* `HostsWake`: the walk takes rows from a list it made before, so what matters is who may
  hold a row that waits for a host. `RowFits` says that only the attempt of a walk does,
  one that heeds no pause (such rows are not ordinary), and that an unclaimed one is
  ahead of a walk or its wake is to come. The attempt either delivers the row or gives it
  back failed, or waiting for a host that is away again (`GiveUpReturns`,
  `QueueOnReturns`). The walk passes a group that may not go as a whole; there is none,
  because without grouping each group is one row, which needs that no two rows share a
  key (`KeysInv`, `GroupsAreRows`).
* `OldestGoesFirst`: only the owner of a row sends it (`SentByOwner`), so the invariant is
  about claims: `OrderRow` says that a plain row somebody holds is held by the drain, and
  is the oldest plain row for as long as it is held. It is when the drain takes it, since there is
  one drain and so no other plain row is held, and what lets one plain row go lets all go
  (`DrainOrder`); and it stays so because a row is plain from the day it is made, under a
  key above all others, or never (`RowOrder`). Walks hold none: what they list
  waits for something else, and only the request of a message makes it wait for the turn
  (`OrderJob`).

* `EnvironmentTypesHold`: `TypeOK` of the engine, which includes that a thread with a turn
  or an attached context names its row; without that conjunct the rows' types
  would not be preserved by what threads do to "their" row.
* `RowsHaveOneOwner`, `ClaimsStayExclusive`, `WorkspacesHaveOneRow`, `OldAttemptsStayDead`: the
  inductive invariant `ClaimsInv` is `TypeOK`, the three facts about pairs of rows, and
  `OperationsFitRows`: a creation in memory runs on a row that is still `creating` with the
  attempt and owner it has read, a removal at its provider on a row that was given up,
  and only setups are cancelled. Nearly every step is *quiet* (`QuietRow`): a row's owner,
  claim and path stay or go, and it does not come back from the dead, which keeps
  any two rows apart. Four steps take something: `Reserve`, whose thread owns nothing
  else; `CreateClaims`, which has looked at the other claims; `CreateBinds`, at the other
  claims and paths; and `CreateAdopts`, which moves owner, claim and path from one row
  to another in one transaction. That a creation is never out of date is why those
  checks, made on what the creation read, are about the row as it is.
* `ReservationsStayWanted`: a thread that fails does not cancel what it prepared, so the
  invariant needs that a thread without another workspace cannot fail over its own row.
  It fails when the path is occupied (`BusyFor`); its own path is not, because a path that was
  bound to a preparation is claimed by it and claims are exclusive (`ClaimFits` and
  `ClaimsInv`). A call that waits for the host (`AttachNow`) goes on with the row it read;
  `Offered` says that as long as the call is current that row is still the thread's,
  which needs that no removal of it is under way (the row of a removal that waits for the
  setup hook is marked) and that the user's deletion spares it. `OwnersInv` adds these
  facts and the shape of a startup context to `ClaimsInv`; `KeepsOwners` reduces a step to
  what it does to each thread and to each row.
* `NothingIsLost`: that each workspace's row is yet to be removed is not inductive, for the
  removal must not be recorded while the workspace exists, and a row must not be given up
  or forgotten before. `Homed` says where the workspaces of a row are: it has none if it has
  claimed nothing, and a creation that is under way makes them at the path it has claimed,
  if it has made any: with an adopting provider it may have claimed another row's.
  With `ClaimsInv`, which keeps the creation in memory up to date with its row, every step
  but the four that take something keeps this (`HomeKept`), and those do by lemmas of
  their own. The premise `spent["drop"] = 0` is the run `orphaned`: a host that
  drops between the answer and its recording makes the row lose the workspace.

* `NoTurnLosesItsWorkspace` (`NobodyIsEvicted`): a removal looks once at who lives in the
  row and takes the workspace much later, so the invariant says where nobody can live.
  `Deserted` names such rows: without a workspace yet, still being created, with a
  removal at its setup hook or its provider, or given up with nobody preparing them.
  `UsesFit` says that no thread that is not archived, or whose turn still runs, is in a deserted row. The ways into
  a row are few: `CreateIn`, which asks for a live one, and the attachments, which by
  `OwnersInv` go to the row that was prepared for the thread, or back to its own. `MadeFits`
  says that what was made for a row is at no other row's path or claim, so a
  removal that takes "what is at the path" takes nobody else's. `Stays` is what most steps
  do to each thread and row; the removal and the four steps that take something have
  lemmas of their own.
* `ClaimsOutlive` (`ClaimOutlivesWorkspace`): a claim that goes while something is there is a handover, or
  the row's removal, which leaves nothing of it, or a refused answer. Under
  `LeaksInv` an answer is refused only when the host is away (`NothingIsRefused`).
* `EngineServesTurns` (`WorkspacesServeTurns`), from `UseInv`: a turn
  begins at a row that is ready, which has a path and by `MadeFits` a workspace, and no
  two begin in one step (`TurnsBeginAlone`). Several may end in one: with three
  threads, a setup that was cancelled and reports its failure after another has made
  the row ready again fails every live thread of the row (`E:1119-1160`). So may several
  workspaces: one that was lost to its row (the run `orphaned`) goes with the next that
  is made for that row. No run has both, and the proof had to say so: `Leaves` and
  `Goes` of `WorkspaceUse` take sets.

The three assume `Settling`: nothing is adopted (`Adopts` is false) and no archived
thread comes back (`Limit["back"] = 0`); `ClaimsOutlive` also that no host drops
(`Limit["drop"] = 0`). Without the first two the refinement is false (the unarchiving
thread and the adopted row of section 5), without the last `ClaimOutlivesWorkspace`
(`orphaned`). `NobodyIsEvicted` may hold without them, but not by this invariant;
`adoption` checks it with an adopting provider and every disturbance once, for one
start of two threads. All else is unlimited in all three: crashes, failing
operations and cancellations, drops in the other two, and threads, rows,
paths and starts.

Every state invariant and every action property of the passing runs is a theorem, and so
are both refinements, on the assumptions named above. Only model-checked is what has to happen in the end
(`QueueDrains`, `StopsSettle`, the waits that end, `StartsSettle`, `EmptyOnesGo`,
`StopsEnd`), since fairness is beyond the prover. The counterexamples of section 5 are
TLC's alone.

## 7. Not modelled

Everything listed as such in `PROJECT.json`, with its reason: terminal sessions, server
move, machines, plugins and their runtime, agent runtimes, event pruning, the host's
file-system services and the user interfaces. They are most of the repository by
size: adapters, views and I/O, or state machines of their own that touch threads
only through the operations modelled here. Within the modelled parts, sections 3.3
and 3.4 say what is left out.

## 8. Running it

    tlc -workers 2 -config queue.cfg MCMessageDispatch.tla
    tlc -workers 2 -config adoption.cfg MCEnvironmentEngine.tla
    tlapm DispatchClaims_proofs.tla

A run takes a minute or two; the proofs take a few minutes together.
