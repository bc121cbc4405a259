# CodeRook in TLA+

CodeRook is a local coding agent: one daemon (`coderook-core`) that keeps
sessions, runs agent turns, edits a workspace and serves clients over IPC and
HTTP. This directory specifies the parts of it whose correctness depends on the
order of events: what is durable, what a client sees, which message is delivered
when, and what a crash leaves of a file change. Paths below are relative to
`src/src/code_rook/`; `core/` is where the daemon is.

Two kinds of evidence are kept apart. TLC explores every behaviour of a small
instance (`MC*.tla`, `MC*.cfg`). TLAPS proves theorems for every value of the
constants (`*Proofs.tla`).

## 1. The system

### Processes and scheduling

The daemon is one asyncio process, one per user (`core/daemon_lock.py`). Tasks
interleave only at an `await`; SQLite operations run in a worker thread
(`asyncio.to_thread`) and go on there when their task is cancelled. Every module
here is built on that: a step is what a task does between two awaits, a store
operation is one transaction, and where cancellation matters the transaction and
the return to its task are separate steps.

### Components

| Component | State | Operations | Hard behaviour | Correct when |
|---|---|---|---|---|
| Runtime store, `core/runtime/store.py` | SQLite: threads, turns, items, events, event counters, message queue | one transaction per method; boot recovery | crash between transactions; recovery that numbers events and completes tool calls; deletion cascades; ledger replay | logs dense and append-only, tool calls paired, ended turns final, no stale active turn, no double billing |
| Runtime service, `core/runtime/service.py` | write lock, boot id | wraps the store, publishes what it commits | a cancelled task leaves its thread at work and the lock free | publication in commit order, nothing left out |
| Event stream: `core/transport/ipc_broadcaster.py`, subscribe handler in `core/app.py`, `tui/connection.py` | subscription and held-back events; high water; client cursor, buffer, fence | subscribe, replay in pages, hand over to live, activate, reconnect | replay overlaps live events; overload closes a connection; activation fails half way | each event once, in order, none skipped |
| Session manager, `core/session/manager.py` | sessions, a lock per session, dispatcher task and wakeup, active run, pause flag | queue, remove, retry, steer, user turn, dispatch, cancel_run, delete, rewind, goals | dispatcher, native loop, user and stop compete for the same rows | a queued message is delivered once per confirmation, in order, and never silently lost or stranded |
| Interaction registry, `core/interaction.py` | steering per run, pending questions | offer, drain, restore, register, unregister | steering that arrives as the run ends | accepted steering is read or survives |
| Run driver and loop, `core/agent_runtime/`, `core/runner.py` | the run's conversation | drain steering, claim follow-ups, run a turn | claims that are given back; cancellation between claim and admission | rows follow the conversation |
| File transactions, `core/editing/transaction.py` | workspace, staged and backup files, journal | stage, check, journal, install, commit, roll back, recover | crash or OSError at any file operation, also in rollback and recovery; edits by others | all files or none; recovery never guesses wrong |
| Checkpoints, `core/checkpoints/store.py` | manifests and blobs | create, discard, rewind | a checkpoint of a change that failed or crashed | rewinding leads back |
| Goals, `core/goal/` | goal file: status, run, turns, token leases, evidence; continuation task | start and finish of a run, reservation and settlement of tokens, decision, pause, resume, clear, complete, recovery | calls of workers that outlive the turn, users who intervene at any await, tasks that wait for each other, restarts with leases in flight | budget a hard limit, every run released, no turn without the user's consent |
| Sub-agents and fleet, `core/subagent/`, `core/fleet/` | one record per worker, the scheduler's slots, processes | look up, retry, start, run, cancel, record, recover | the daemon dies between the worker's record and its caller's; cancellation while a process is stopped | results recorded once and kept, no process held without an owner |
| Workflows, `core/workflow/` | ledger of node events, coroutines of the executor | run, resume, retry, branch, gate, scatter and gather, wall-time, budget | resumption from any prefix of the ledger; parallel workers on one budget | order of the tree, nothing done twice, every run ends |
| Tasks, `core/task/` | task claims | claim, complete | two claimants | dependencies respected |
| Permissions and questions, `core/permissions/`, `core/interaction.py` | pending requests | ask, answer, time out | late answers | one decision per request |
| Session ledger, `core/execution/ledger.py` | append-only records with bounded buffer | append, flush | overflow, crash before flush | critical records durable |
| MCP, hooks, skills, LSP, providers | connections | call | external failures | protocol specific |
| Configuration, state layout, receipts, artifacts, trace | files | read and write | single writer | format |
| TUI, web, CLI, SDK, HTTP API | view state | display, commands | - | display |

`PROJECT.json` lists all of them with the sources and what is left out.

How they interact. A client command reaches the session manager through
`core/app.py`. The manager reserves and locks the session, appends to the
transcript and asks the runtime service to record the turn; the runner works in a
task of its own and writes items and events through the same service. Each
committed event is published on the bus, from where the broadcaster pushes it to
subscribed connections. The native loop calls back into the manager for
follow-ups and steering. Tools change the workspace through file transactions,
with a checkpoint first. At boot the daemon recovers interrupted file
transactions, then stale turns, then the queue's rows.

## 2. The modules

| Module | Models | Abstract specification |
|---|---|---|
| `RuntimeStore` | the tables and transactions of the runtime store | - |
| `RuntimeStoreProofs` | theorems about it | - |
| `EventReplay` | writers, broadcaster, subscribe handler, wire and client for one thread | implements `OrderedDelivery` |
| `EventReplayProofs` | theorems about it, the refinement included | - |
| `SessionQueue` | the messages of one session: rows, dispatcher, turns, loop, cancel_run, restart | - |
| `SessionQueueProofs` | theorems about it | - |
| `FileTransaction` | a file transaction, its recovery, checkpoints and rewind | implements `AtomicWorkspace` |
| `FileTransactionProofs` | theorems about it, the refinement included | - |
| `Fleet` | the records and calls of workers on the local host | - |
| `Workflow` | the executor and its ledger, composed with `Fleet` (EXTENDS) | implements `WorkGraph` |
| `WorkflowProofs` | theorems about it and `Fleet` | - |
| `WorkGraphProofs` | the theorem that it implements `WorkGraph` | - |
| `GoalLoop` | the goals of a session, the turns, continuations, model calls and clients that work on them | - |
| `GoalLoopProofs` | theorems about it | - |
| `FoldLemmas` | lemmas about induction, recursion on finite sets and sums, for `WorkflowProofs` and `FileTransactionProofs` | - |
| `MC<module>` | the instance for TLC: symmetry, where it is used | |

**Mutants.** An operator that stands just before another and extends its name
(`MayInsertAny` before `MayInsert`) is a mistaken variant of it. Nothing uses it;
replacing the right operator by it makes TLC report the property named in
`PROJECT.json`, which shows that the property depends on that line of the code.

### RuntimeStore

Variables are tables (`threadStatus`, `counter`, `status`, `owner`, `bootOf`,
`items`, `log`) and the daemon's `boot` and `phase`. One action is one
transaction that commits: `UpsertThread`, `DeleteThread` (with its cascades),
`CreateTurn`, `RecordItem`, `AppendEvent`, `AppendAuxiliaryUsage`,
`TransitionTurn`, `UpdateUsage`, `RecoverStaleTurns`. A transaction that raises
is rolled back and is no step. `Crash` ends a daemon between two of them;
the next has a new boot id and recovers before it serves. `RecoveryFails` is the
branch of `core/app.py` that serves on, degraded, when recovery raises.

Abstracted: payloads, timestamps, token counts, and the thread statuses a session
reports of itself (all `"idle"`). The order in which recovery visits several stale
turns is left open, as the code's query orders them by data the model drops.

### EventReplay

`Write`, `Commit` and `Publish` are a task inside `record_bus_event`: the lock is
held from `Write` to `Publish`. `CancelWriter` frees the lock and leaves an
uncommitted transaction to `OrphanCommit`. The handler registers the subscription
(`SubscribeFrom`), reads the high water, replays pages of `BatchSize`, then hands
over in `FinishReplay`, holding back the events that arrive meanwhile. The client
buffers live events until its activation has taken the reply, then drains batch by
batch. `Disconnect` loses what is on the wire, at any time, or because the
broadcaster closed a connection that fell behind. `FailActivation` is a client
handler that raises.

Abstracted: topics, event contents and sizes, several sessions on a connection,
and activation of a session that is already subscribed.

### SessionQueue

`queue` and `status` are the table `runtime_message_queue`, `log` is the
conversation. The dispatcher task is `dpc`, the turn that has the session's lock
`phase` and `owner`, the native loop of its run `loop`, and cancel_run `stop`.
`QueueMessage` ... `SteerRun` are calls of clients; `DispatchStart` ...
`DispatchRemove` the dispatcher; `UserTurn` ... `EndTurn` a turn; `DrainSteering`,
`AppendSteering`, `FollowUp` ... `FollowUpAdmit` the loop; `StopRun` ... `StopReturns` cancel_run;
`OrphanCommits` a store operation whose task was cancelled; `Restart` a crash and
the recovery of the rows. `drained` is steering the loop holds between its drain
(`loop.py:121`) and its append (`driver.py:191`), with awaits between; `retaken` (a history)
is steering that a stop took back from its run.

Steering can be lost, and the model loses it as the code does (status `dropped`): what is
accepted after the run's last drain; what the loop has drained and not yet appended when the
run fails or is stopped, since cancel_run looks only in the run's deque; and what a run held in
memory when the daemon died. The second case is at odds with `interaction.py:174` (a stop
takes back all steering that has not been sent to the model) and with
`docs/reference/PYTHON_AGENT_RUNTIME.md:647`. `NothingLost` therefore says of steering only that
what a returning stop has taken back is not dropped.

Abstracted: what messages contain; the service's write lock, which is first come
first served, appears as guards where its order decides (`Starts`,
`AskFollowUp`); a goal's continuation holds the session as a user's turn does;
one cancel_run at a time; failures of the ledger and deletion of the session are
left out. Whether the native loop can take a follow-up in the same run or must hand
it back is nondeterministic.

### FileTransaction

One step is one file operation, because a crash, an OSError or another program's
edit can come between any two. `Write` and `Rewind` begin a call; `Capture` is
the checkpoint; `Recover*` is the recovery at its start and at boot; `FirstCheck`
... `Commit` is the `try` block, `Rollback*` its inner handler, `Sweep*` both the
clean-up of a success and the `finally` clause; `Return` is what the caller does
with the checkpoint. `*Failure` are the error paths. `fate` stands for the
exception in flight and `preserve_backups`.

Histories: `dirty` are files another program edited while the commit was being
installed, or while an unfinished journal covers them; `first` is the workspace at
the start, forgotten once rewinding need not lead there: an edit by someone else, a
rewind out of order, or a file captured or reviewed in a state that a waiting recovery
changes (`Lasting`). The last is a weakness of the code that no document speaks of, found
when the proof of `UndoReachesStart` did not go through, and beyond the bounds of the run
`files` (it takes three calls). `rewind` (`checkpoints/store.py:331`) reads the files, and
only `apply_file_transaction` recovers. So: a write creates a file; a second write of it
fails, and its rollback fails between removing the file and putting the old content back,
so the journal stays; a rewind to the first checkpoint finds the file missing, as it was
before that write, reports it as restored and marks the checkpoint; the next recovery puts
the content back, and no ready checkpoint leads to its removal any more.

Abstracted: both checks read all files at one instant; temporary names are unique;
temporary files of a crash before the journal is written stay behind unread; blobs
are intact; parent directories, modes and the preview digest are left out;
`edit_file` replaces one file by one rename. Failures inside the `finally` clause
other than crashes are left out.

`AtomicWorkspace` knows only contents, one open request and edits by others. The
mapping sends a file to what recovery would restore (`Logical`), and a dirty file
to `Unknown`; the commit is the instant the journal says `committed`.

### Fleet and Workflow

`Fleet` is the record of each worker in fleet.db (`rec`) and one call of
`run_worker` per execution (`call`, `reply`): `Restore`, `Refuse` and `Queue` are the
look at the record, `Start` the change to running, `Spawn` and `HostReturns` the
process, `HostRaises` and `Failed` a host that gives it up and ends it, `AddTokenUsage`
and `Record` two transactions after it, `Cancel` and `Stopped` the cancellation,
`RecoverStale` the boot. `Interrupt` is a cancellation that arrives inside `terminate`, which
another cancellation or a failure has begun: `forget` then removes the process from the
supervisor's table and kills nothing, because it has not exited yet (`processes.py:313`).
`stray` holds the workers of which such a process, or one of a daemon that died, may be alive.
`processes.py:325` says that terminate ends the process tree: for a worker that ignores SIGTERM
that is not so, and `ProcessesBelong` does not say it. It says that the processes the daemon
holds have an owner, and that what a stray one was started for is on record as interrupted or
was attempted again.

`Workflow` extends it with the ledger (`flow`, `node`; one event appended is one
step), the frames of the executor's coroutines (`pc`, `outcome`) and `baton`: which
coroutine runs, or `Free` while all wait, since asyncio interleaves only at an await.
`Submit` ... `CloseFlow` are `run`; `Reuse`, `StartComposite` and `StepOf` are
`_run_step` with one operator per kind of step (`Sequence`, `Branch`, `Retry`, `Gate`,
`Scatter` and `Gather`); `LimitTokens`, `StartWorker`, `Acquire` and `RecordResult`
are a worker; `TimeOut` is a worker's wall-time, `WallTime` ... `GiveUp` the
workflow's; `Restart` loses every coroutine and resumes what the ledger says was under
way. The tree of steps is a constant: `Kind` and `Kids` give the type and the children
of each step, `Below` its subtree (the order of `_flatten` is `Precedes`), and `IsTree`
says what the parser sees to by refusing an id that occurs twice.

`WorkGraph` knows only which steps are done, skipped, or at work, and says which of
these sets may grow when: a worker begins only if all that precedes it in the tree is
done and the other side of a branch is not, and a completed step stays completed.

Abstracted: token budgets of single nodes, input bindings, the parser, heartbeats,
write claims and worktrees. A stray process counts neither as one of the slots nor as `busy` in
`WorkGraph`: `End` there includes letting go. Observations without a property of their own: a
worker's usage is lost when the daemon dies between the worker's record and the event of
the ledger, though the comment at `executor.py:271` counts on the ledger; a cancellation
that arrives while the heartbeat is taken down leaves the record `running`, so that the
next call is refused (`Refuse`). The parser lets a branch ask any step of the workflow
(`parser.py:170`), and what the ledger says of a step that runs beside the branch, or after
it, may change between two runs. Over a tree `parallel(branch on ask, ask)`, `WorkGraph`'s
promise fails: the branch passes over its `then` because `ask` was interrupted, the
daemon dies once more, `ask` has meanwhile completed with the other verdict, and the branch
passes over its `else` and completes with neither side done. What is checked and proved
about branches is therefore under `SourcesPrecede`: the source lies below a step that is
completed before the branch.

### GoalLoop

`goal` is the goal files, `turn` the session's turn (`_send_message` from its
reservation to its `finally`), `cont` the continuation task, `asking` the clients that
create or resume a goal and then send a message, `call` the model calls in flight.
`Preflight` ... `Close` follow a turn (`RunEnds` is every result of the run, with `finish_run`
and the decision); `Raise` is every exit by an exception, with what the caller of
`send_message` does then (`AfterFailure`): `TurnRefused` before `start_run`, `SetupFails` between
it and the `try`, `TurnFails` when `abort_run` releases the run, `ReleaseFails` when it or
`finish_run` cannot or something raises before it, `CloseFails` after the release. `Continue` and `ContinueTurn` are the
continuation; `Reservation` and `Settle` the two halves of `GoalBudgetProvider.chat`,
for the run and for workers that outlive it, and `SettleFails` a settlement that cannot be
written; `Verify`, `CompleteByAgent` and
`BlockByAgent` what the agent does; `Create` ... `Send` the clients; `Restart` the boot.
`lease` is split by who holds it; at a restart all of it passes to `"gone"`, and so does the
part of a call whose settlement fails.

Histories: `spent` is what the calls of a goal may really have cost, `overspent` the goals
of which a provider spent more than it had reserved, `allowance` the automatic turns the
user has agreed to; and, since the daemon's start, `unsettled` the goals of which a settlement
failed and `lost` the runs that ended and were not released.

Two consequences are in the model and excepted by its properties. A settlement that fails
(`budget.py:172-177`, where it is logged, or 192) leaves its lease with nobody to settle it
until the next restart charges it; a continuation meanwhile waits for it and then blocks the goal
(`manager.py:445-454`). And a goal whose run was lost (`manager.py:1350-1468`, 1599-1601,
1647-1651, 1684-1685) refuses every run until it is cleared or the daemon restarts.

Abstracted: every goal has a token budget; wall clock and authority are one choice
(`limit`); one session; a graceful shutdown is a crash; one create and one resume pending
at a time. `record_usage`, `add_usage`, `add_evidence` and `link_task` have no callers. A
goal without automatic continuation that has no run keeps the leases of a dead daemon
(`service.py:205`), which is why `LeasesAreLive` speaks of automatic goals.

## 3. The runs

| Run | Instance | Shows |
|---|---|---|
| `store` | 2 threads, 2 turns, 1 item key, 1 ledger record, 3 events (recovery may add more), 2 boots; symmetry; deadlock checked; 0.9 M states | all seven invariants and both action properties of RuntimeStore |
| `replay` | 2 writers, pages of 2, 3 events, 3 connections, 1 cancelled writer, 1 failed activation; FairSpec; 0.1 M states | each event delivered once and in order (refinement), the hand-over and the cursor skip nothing but what a cancelled task left unpublished, and everything else is delivered in the end |
| `queue` | 3 messages, 1 user turn, 2 steerings, 1 retry, 1 stop, 1 failure; 7.2 M states | messages delivered once per confirmation, in order; queued ones, and steering a stop took back, never lost; a stop that returns keeps them; an undisturbed idle session has an empty queue |
| `queue_restart` | 2 messages, 1 turn, 1 steering, 1 stop, 1 failure, 1 restart; FairSpec; 0.3 M states | the same across a restart; a row in dispatch has an owner; an undisturbed queue drains; every stop ends |
| `files` | 2 files, 2 contents or absent, 2 calls, 2 faults of any kind; symmetry; 1.9 M states | atomicity (refinement), journalled backups, rewinding newest first leads back to the first workspace |
| `workflow` | a retried worker beside a review gate, then a branch; 1 slot, concurrency 2, 4 tokens, 2 runs or restarts; 0.6 M states | the executor, its ledger and the fleet implement `WorkGraph`; results stand; processes held have an owner; the budget; every run ends |
| `goal` | 1 goal, 4 turns, 2 acts of users, 1 call of a worker, 1 restart, budget 3, settlements and releases that fail; 2.9 M states | budget, leases, runs and consent; a continuation that waits for tokens ends |

Five runs show the code disagreeing with what its documents say; each is a finding
in `PROJECT.json`, with a variant of the property that does hold in a run above.

| Run | Property that fails | What happens |
|---|---|---|
| `replay_skipped_event` | `CursorNeverSkips` | a task cancelled inside `record_bus_event` leaves an event durable and unpublished; the next published one moves the client's cursor past it |
| `files_late_failure` | `FailedMeansUnchanged` | an OSError after the last installation makes the call fail with the new contents in place and nothing to recover from |
| `workflow_retry_forever` | `RunsEnd` | a retry whose worker is refused for want of tokens never counts an attempt and loops for ever |
| `workflow_resume_fails` | `FailureIsEarned` | after a crash between a child's event and its parent's, the resumed retry or gate fails although the child completed or the reviewer approved |
| `goal_stalls` | `AllowedTurnFollows` | the end of an automatic turn schedules nothing, because the continuation that awaits this very turn counts as one that exists |

Four cases of `SessionQueue` are excluded by the wording of its properties and told in the
hazards: the dispatcher ends at a blocked message and those behind it wait for the next
call; a run that times out between a claim and its admission leaves the row dispatching
until a restart; cancel_run raises when a row it listed was removed meanwhile; steering
is dropped as section 2 tells.

**Bounds.** Every bound is a constant named in its module and used in a guard of the
calls that start something, never in a step that continues or recovers. Two threads
and two turns are needed for a turn id to move to another thread by deletion and
re-creation; three events let a log have a beginning, a middle and an end around a
recovery. In `replay`, three events with pages of two make a full and a partial page;
three connections allow a loss, a replay and a second loss. In `queue`, three messages
are one in hand and two whose order can be exchanged, and two steerings are one drained and
one still in the deque when the stop comes. In `files`, two faults
are what a failed rollback, a crash in the recovery of a crash, or an edit before a
crash need; three faults (5.5 M states) show nothing new and take longer. Two calls do not
reach a rewind that meets a journal; one file with four calls and three faults (2.7 M
states) and two files with three calls and one fault do, and `CheckpointsLeadBack` covers all.
In `workflow`, two runs are a crash and its
resumption at every prefix of the ledger; one slot and two concurrent workers make one
wait for the other, and four tokens run out before, during and after the last worker. In
`goal`, four turns are the one that creates, two automatic ones and one more of the user
or after a restart; a budget of three with calls of one or two tokens can be shared,
exhausted and exceeded. An instance with two goals and two turns (3.7 M states) shows
nothing new. `CHECK_DEADLOCK FALSE` stands where the daemon may be idle with its bounds used up.

**Fairness.** `EventReplay!FairSpec`: a task that can run does (asyncio's ready queue
is first in, first out), the handler and the client's loops likewise, and the client
reconnects, as `tui/connection.py` retries without limit; no fairness for new writes,
cancellations, failures or spontaneous disconnects. `SessionQueue!FairSpec`: weak
fairness for the turn, the dispatcher, the loop and cancel_run, which are asyncio
tasks, and for `RunEnds`: a run is bounded by its step and time limits. Nothing is
assumed of users, failures or crashes. `Workflow!Spec`: weak fairness for the executor and
the fleet as a whole (`Work`: some coroutine or process that can go on does) and strong
fairness for the wall-time, a timer that fires whenever the executor keeps coming back to
an await. `GoalLoop!Spec`: weak fairness for `Continue` only, a timer's callback; model calls
may never return. The other modules state safety only.

## 4. The proofs

`RuntimeStoreProofs` proves for any sets of threads, turns, keys and ledger records and
any bounds, from `StoreAssumption` alone (the two markers are no thread and no turn,
`Turns` is finite, the bounds are naturals):

| Theorem | Property |
|---|---|
| `TypeCorrect` | `TypeOK` |
| `RowsStayLinked` | `RowsLinked` |
| `LogIsDense` | `DenseLog` |
| `ToolCallsStayPaired` | `ToolCallsPaired` |
| `RecoveryIsComplete` | `NoStaleActive` |
| `TerminalEventsCorrect` | `TerminalEventsAgree` |
| `UsageCorrect` | `UsageBilledOnce` |
| `EndedTurnsCorrect` | `EndedTurnsAreFinal` |
| `LogGrows` | `LogOnlyGrows` |

They follow from one inductive invariant, `IInv`: the seven invariants and
`NeverQueued` (no turn is ever `queued`: the callers create turns running, and no
transition leads there). It takes all of them together. `DenseLog` needs `TypeOK` for
counters that exist with their threads; recovery writes terminal events for the stale
turns, and `TerminalEventsAgree` after it needs that those turns had none, which holds
because they were not terminal before; `RowsLinked` makes sure that what deletion
removes is all that refers to the thread, so that re-created rows start clean;
without `NeverQueued` a turn outside the active statuses could still be moved.

The proof has one lemma per conjunct (`TypeStep`, `LinksStep`, `LogStep`, `PairedStep`,
`StaleStep`, `TerminalStep`, `UsageStep`, `QueuedStep`), each with a step per action.
The one hard step is boot recovery: it gives the stale turns of a thread any
numbering by a bijection onto an interval above the repaired counter.
`DenseLastSeq`, `StaleCount` and `RecoveryDense` establish that a dense log's maximum is
`counter - 1`, so the repair changes nothing and the new events extend the log by just
as many seqs. The action properties follow from `IInv` and the step lemmas
`EndedTurnsStep` and `LogStepAppends`.

`GoalLoopProofs` proves for any criteria, budgets, limits and bounds, from `GoalAssumption`
(the limits are positive naturals, a call needs no more than it asks for):

| Theorem | Property |
|---|---|
| `GoalTypes` | `TypeOK` |
| `GoalBudget` | `BudgetHolds` |
| `GoalLeases` | `LeasesAreLive` |
| `GoalRuns` | `RunIsOwned` |
| `GoalConsent` | `Consented` |

`BudgetHolds` compares a history with a limit; what makes it inductive is what the code
keeps in the goal file: `Accounts` says that tokens charged plus tokens reserved cover
what may have been spent, and fit. `Fits` is its half that survives an overspending
provider, `LeasesOwned` ties each lease to the call that holds it, and `Unspent` lets a new
goal start from zero. `Consent` gives the equation behind `Consented`: an active automatic
goal has `MaxAutoTurns - turns` turns left. `Runs` and `Settled` speak of the goals that are
`Live`: besides the unfinished ones, a goal that the turn works on or that a pending
creation may still block, because `set_status` looks at no status it replaces and brings
finished goals back. Without `Live` the invariant would not survive `BlockByAgent` or
a failed creation.

Most of the 30 actions are mild: they leave tokens, turns and mode of every goal alone and
revive nothing (`Mild`, `MildStep`). `TurnStep`, `RaiseStep` and `BeginStep` carry the
invariant through the turn's goings-on, ends and beginnings, and one lemma per action
applies them. The steps of their own are `StartRunStep` (a turn is spent), `LeaseStep`,
`SettleStep` and `SettleFailsStep` (tokens move, or stay reserved), `CreateStep` and
`ResumeGoalStep` (the user agrees), and
`RestartStep`, where `RecoveredGoal` says what the recovery makes of one goal.

`EventReplayProofs` proves for any set of writers, any page size and any bounds, from
`ReplayAssumption` (the page size is a positive natural, the bounds are naturals):

| Theorem | Property |
|---|---|
| `StreamTypes` | `TypeOK` |
| `StreamCursor` | `CursorConfirmsDelivered` |
| `StreamHandover` | `HandoverLosesNothing` |
| `StreamOrder` | `ImplementsOrderedDelivery` |

None of the properties is inductive, because each speaks of the end of the stream and not
of what is on its way. `Inductive` follows an event that must come before another from the
server to the client: it is `Covered` (behind the cursor, in the client's buffer or batch, or
given up), or `Sent` (on the wire before the other), or `Pledged` (a subscription that is
replaying has still to send it before its reply). `WireOrder`, `BufferOrder` and `BatchOrder`
say that one of these holds of every predecessor of what is on the wire, in the buffer and
in the batch. The pledge is what carries a second activation on the same connection through,
which buffers events of the old subscription with gaps before them: until the reply arrives
the new replay fills the gaps. `ReplyOrder` is the moment the pledge is kept. On the server's
side `Replayed`, `HeldBack` and `LiveComplete` say what the handler has sent, what the
broadcaster holds back for it, and that live delivery starts complete. `Phases` and
`OneReply` rule out the combinations of connection, client, subscription and handler that
the protocol never reaches; `Lock` gives each held back event a smaller seq than one still
in a writer's hands, which is where the order of commit and publication matters.

What a step sends is abstracted once: `PublishSends`, `ReplayBatchSends` and
`FinishReplaySends` reduce each sending step to `Pushes`, a prefix of ascending events after
what is on the wire (a connection that falls behind is closed within it), and `OrderStreams`
carries the order through all of them. `LiveDelivers` and `BatchDelivers` show that the two
places where the client is given an event give it the next one (`Delivers`), from which both
the cursor's invariant and the refinement follow.

`FileTransactionProofs` proves for any files and contents, any number of files in a call and
any bounds, from `FileAssumption` (the two markers are no contents, the bounds are naturals):

| Theorem | Property |
|---|---|
| `FileInvariant` | the inductive invariant itself |
| `FileTypesHold` | `TypeOK` |
| `BackupsAlwaysJournalled` | `BackupsAreJournalled` |
| `FilesImplementAtomicWorkspace` | `ImplementsAtomicWorkspace` |
| `FailedCallsChangeNothing` | `FailedMeansUnchanged`, under `Spec`, that is without `LateFailure` (the run `files_late_failure` shows what that one does) |
| `CheckpointsLeadBack` | `UndoReachesStart` |

The question at each step is what the next recovery would make of the disk, so `Inductive`
says for each place the daemon can be in what lies beside each file. `Installation` follows a
file of the call through its two renames (`Untouched`, `BackedUp`, `Replaced`);
`RollingBack` says that what rollback removes had not been there before, and that behind it
nothing is left to undo; `Recovery` says the same of a recovery that may itself be cut short
and start again, and `CleaningUp` of the `finally` clause, which must only remove the journal
of a transaction that is committed or undone. `JournalPhases` and `JournalShape` say that the
journal is written after the staged files, before the first rename, with one entry for each path.
Two parts look weak and carry the rest: `NotCreated` (a file to be created is not there while
its staged copy is, unless someone else made it), because recovery takes a missing
staged copy for an installed file and would delete a file it did not create; and
`BackupsAreJournalled`, because recovery looks only where a journal points.

The refinement rests on one lemma, `LogicalStep`: no step but the commit and another program's
edit changes what recovery would restore, of any file whose edit does not race an
installation. It is shown where the renames are (`LogicalInstalling`), in the rollback
(`LogicalUndoing`), in the clean-up (`LogicalSweeping`) and in the recovery (`LogicalRecovery`);
`LogicalCommit` shows that the commit exchanges what the callers read for what they asked for.
`WorkspaceStep` sends each action to `Request`, `Commit`, `End`, `Edit` or `Settle`.

`UndoReachesStart` speaks of a fold over the checkpoints, and only between calls. `Undoable`
replaces the fold by the workspaces it leads through: there is a `History`, a sequence of
workspaces from the first one to what recovery would restore, in which each checkpoint
leads from its successor to its predecessor. A call keeps it because its checkpoint undoes nothing while it is not
committed (`Captured`), so that a checkpoint whose call failed, crashed or could not be discarded
is harmless; the commit moves the last workspace on. A rewind is of the last ready checkpoint
(`Rewinding`), behind which the history stands still (`HistorySkips`); its commit takes that
stretch back by one, and from then on undoing the checkpoint changes nothing, whether or not it
is marked (`HistoryMarked`). `UndoFolds` returns to the fold: it equals the first workspace of any history.

`SessionQueueProofs` proves for any number of messages, turns, steers, retries, stops,
failures and restarts, from `QueueAssumption` (the bounds are naturals):

| Theorem | Property |
|---|---|
| `QueueInvariant` | the inductive invariant itself |
| `QueueTypesHold` | `TypeOK` |
| `NoMessageIsLost` | `NothingLost` |
| `NoMessageIsRepeated` | `DeliveredOncePerConfirmation` |
| `StopsKeepMessages` | `StopKeepsMessagesUnlessItRaises` |
| `MessagesKeepTheirOrder` | `DeliveredInOrder` |
| `DispatchingIsSettled` | `DispatchingIsOwnedUndisturbed` |
| `NothingIsStranded` | `NothingStrandedUndisturbed` |

`Inductive` has one part for each promise, on top of `Tasks`, which says how dispatcher,
turn, loop and stop combine. The conjuncts of `Exclusion` there are what the two guards that
stand for the write lock give (`Starts`, `AskFollowUp`): while the loop has something
claimed, its turn runs, and neither is the dispatcher claiming and sending nor giving a
message back. The parts are:

- `Retaken`, within `Tasks`: steering a stop took back has become a row, or cancel_run still holds it
  to make one. It is the second half of `NothingLost`.
- `Kept`: a message whose deletion is decided (by the dispatcher, by `admitted()`, or in an
  orphaned write) is in the conversation already.
- `RightsHold` counts the ways in which a message can still reach the conversation: deliveries made,
  times claimed by the loop, the dispatcher if it will send it, and the row (or the
  message that has none yet) are together at most one more than the retries. Between
  `append_user` and `admitted()` the loop's claim counts no more, which is `Admission`: without it
  `FollowUpPersist` would break the sum, and without the bound a cancelled run that
  leaves its row in dispatch could not be told from one that may be sent again.
- `Barred` follows what a stop found pending through the stop's stages: it is listed while rows
  are being blocked, and behind that it is neither queued nor dispatching nor in anyone's hands.
  `Pausing` says why: a dispatcher that claims or sends during the pause asked before it began, and
  the stopped run has not finished yet.
- `Ordered`: the rows ascend in the order of acceptance, and whatever is `Coming` (claimed, or held by a
  dispatcher that will send it) follows what is delivered and precedes what is queued, but for
  retried messages. A message that is given back is placed by this alone.
- `Owned`: undisturbed, dispatching rows and hands correspond one to one, and a dispatcher that is off
  leaves no message behind.

There is one lemma per part with a step per action (`TasksStep`, `KeptStep`, `RightsStep`,
`BarredStep`, `OrderedStep`, `OwnedStep`). What an operation does to the rows is stated
once (`MarkFacts`, `InsertFacts`, `DeleteFacts`, `ClaimFacts`, `LoseSteeringFacts`, over
`RemoveAtFacts` and its like about sequences); `CountAppend`, `CountTail` and `CountFront` do the
arithmetic of deliveries; `RightsStay`, `RightsGiven`, `RightsPassed` and `RightsDropped` are the
four ways a right moves; `NothingComes` is the step that disturbs no order.

`WorkflowProofs` and `WorkGraphProofs` prove for any tree of steps, any fleet, any budget
and any number of runs, from `FleetAssumption`, `WorkflowAssumption` (arities; a gate's
second child is a worker; a parsed definition is finite) and `TreeAssumption` (ids are unique):

| Theorem | Property |
|---|---|
| `WorkflowInvariant` | the inductive invariant of executor, ledger and fleet |
| `WorkflowTypesHold` | `TypeOK` |
| `HeldProcessesBelong` | `ProcessesBelong` |
| `AcceptedResultsAreKept` | `AcceptedResultsStand` |
| `CompletedStaysWithinBudget` | `CompletedWithinBudget` |
| `GraphInvariant` | the inductive invariant of the refinement, under `SourcesPrecede` |
| `ExecutorImplementsGraph` | `GraphPromise`, under `SourcesPrecede` (the instance for TLC assumes it too) |

That a process the daemon holds has an owner is a chain of agreements. A call's record says that it runs
(`CallsMatchRecords`, which also keeps the records of `stray` processes), a call is that of a frame (`CallsHaveFrames`), and the ledger calls a
node running exactly when its frame has begun (`LedgerTellsFrames`). Between them stands
`FramesNest`, which the code owes to `await`: the frames form a stack that forks only at
the steps that gather, and a step that has the baton has no frame below it. Without it a
composite could complete, or a subtree be marked, under a worker that still runs.
`Shape` reduces the steps of a frame to the eight things that they do to the stack (return, call,
fork, ...), `Apart` says that the rest of the tree notices nothing, and `NestReturns`
... `NestStays` carry the stack through each shape, so that the many actions of the
executor need only be classified (`FrameSteps`). Runs, crashes and cancellations begin or
leave without frames (`Quiet`), or take them all at once (`CancellingKeeps`).

The refinement needs in addition what makes a graph of a past run and the frames of the
present one agree. `Reached` steps are done or have a frame: all that precedes them
is done (`InOrder`), and none lies on the side a branch passes over (`OneSide`). That a
skipped step stays passed over (`SkippedIsPassed`) needs that the branch cannot change its mind,
that is `SourceStands`, from `SourcesPrecede`. `DoneIsWhole` says that below a completed step
everything is settled or given up, so that no later run comes back into it; `PassedIsMarked`
carries that over the interval in which a branch has marked one side and runs the other.
`GoodIsDone`, `RepliesAreRecorded` and `ApprovalsAreRecorded` tie what the frames hand each
other in memory to what is durable, which is what `Earned` asks of a gate.

`Orderly` lists what a step may do to the graph for these to survive (`OrderlyKeeps`), over lemmas
about trees (`BelowSplits`, `NoCycle`, `SidesOfBranch`, `BeforeKid`). A step of a frame is
`Honest`: it writes its own node or marks an open one, completes itself only over marked
steps, and calls a child in its turn; and it is `Fair`: it leaves the graph, completes one
step or skips one. There is one lemma per kind of step (`SequenceFair` ... `ResultFair`).
All other steps are `Calm`. `FleetGraph` says what the fleet does to processes and
approvals, `ReachedIsReady` that a step that work has reached may begin, and `StepOfGraph` sends
each step to `Begin`, `End`, `Approve`, `Complete`, `Skip`, `Finish` or a stutter.

`CompletedWithinBudget` is about the accepted results only: the sum over all workers may pass the
budget, since parallel workers look at it before they start. `WithinBudget` is inductive because
a step is `Frugal` (it counts no tokens and accepts no result, `StepsAreFrugal`) or is `RecordResult`, which
compares the budget with the sum over all workers, the new result included; `ResultsFit` shows
that what is accepted, a part of that sum, fits as well.

`FoldLemmas` is what these two proofs need of folds. The community modules define a fold by a
CHOOSE of a function that satisfies a recursive equation. `FoldDefined` shows that there is
one, `SumsDefined` ... `SumMonotone` that a sum over a finite set depends on neither the order nor
the superset whose subsets were folded, grows with its set and its terms, and loses a term with
an element. The library's induction theorems take an operator as a parameter, which the provers cannot
instantiate. `NatStep` and `SubsetInduction` state induction over a set of values instead, and
follow from the least element that a well-founded relation gives (`WFMin`).

Every safety property of a passing run is proved. Only model-checked is all liveness (`Settles`
and the like): fairness and ENABLED are out of this prover's reach. Recursive operators are, too, and
none is used here.

## 5. Hazards

`PROJECT.json` lists them at their lines with the properties that would notice. Those
without a property name the reason: oversize events, exceptions in a client's live
handler and a busy dispatcher loop are visible in the code but lie in what the modules
abstract from; checkpoints and rewinds that read files before a recovery changes them are in
the model, and `UndoReachesStart` excepts them (section 2); deletion of a live session
and the several transactions of finish_turn wait for modules of their own.

## 6. What is not modelled

Model calls, prompts, compaction and tool semantics (functions of text); permission
rules, sandboxing and configuration (decision tables); display clients, scripts,
benchmarks. Git worktrees and operating-system processes are external. Also not yet:
sub-agents inside the daemon, tasks, the session ledger, background jobs, and the
multi-step operations of the runtime service.

## 7. Plan

The order is by what would cost a user most if it were wrong: records, then the stream
that shows them, then messages, then files, then unattended work: workflows and goals.
These are done. Next:

1. `RuntimeService`: start_turn and finish_turn as their several transactions over an
   INSTANCE of RuntimeStore, with the session's own files and boot reconciliation;
   property: after boot the three records of a turn agree.
2. Tasks, worktrees and the session ledger's buffer.

To check: `tlc -config MCRuntimeStore.cfg MCRuntimeStore` and likewise for the others;
`tlapm RuntimeStoreProofs.tla`, `tlapm EventReplayProofs.tla`,
`tlapm GoalLoopProofs.tla`, `tlapm FileTransactionProofs.tla`,
`tlapm SessionQueueProofs.tla` (five minutes), `tlapm WorkflowProofs.tla`,
`tlapm WorkGraphProofs.tla`, `tlapm FoldLemmas.tla`.
