# superSpider: specifications of the runtime

TLA+ specifications of the Python runtime in `src/copaw` (paths below are
relative to it), checked with TLC on small instances and, where marked,
proved with TLAPS for every value of the constants. `PROJECT.json` is the index:
which definition models which lines, which run checks which property, which
single change of the model each property detects.

superSpider is a *main brain*: a local process that admits, approves, delegates
and supervises long-running work which capabilities and external executors
(Codex) carry out, with its truth in a SQLite state store and an operator surface,
the Runtime Center, over it. It is one asyncio process. Most services are
synchronous Python that runs to completion on the event loop; what makes them
hard is the few places that suspend (a capability call, a lock, the stop of a
channel), the few threads, and everything that a restart keeps or loses.

1. [Inventory](#1-inventory)
2. [Modules and the code they model](#2-modules-and-the-code-they-model)
3. [Runs](#3-runs)
4. [Fairness](#4-fairness)
5. [Proofs](#5-proofs)
6. [Where the code and its documents disagree](#6-where-the-code-and-its-documents-disagree)
7. [What is not modelled](#7-what-is-not-modelled)
8. [Plan](#8-plan)

## 1. Inventory

Sizes are thousands of lines of Python. *Modelled* names the module.

| Component | Size | State it keeps | Operations | Modelled |
|---|---|---|---|---|
| Kernel dispatcher and lifecycle (`kernel/dispatcher.py`, `lifecycle.py`) | 2 of the kernel's 35 | phase of every task, its decision request, deferred closeouts, suspended calls | submit, confirm, approve, reject, expire, execute, complete, fail, cancel | KernelDispatcher, KernelCascade, TaskForest |
| Kernel store and startup recovery (`kernel/persistence.py`, `app/startup_recovery.py`) | | the SQLite rows of the above | load, save, expire overdue decisions, mark reviewing | KernelDispatcher |
| Environment leases (`environments/lease_service.py`, `registry.py`; `kernel/child_run_shell.py`, `lease_heartbeat.py`) | of 17 | session mount, environment mount, live handle | acquire, heartbeat, release, force-release, reap, recover orphans | EnvironmentLease |
| Channel manager (`app/channels/manager.py`) | of the app's 56 | queue per channel, sessions in progress, pending lists, the manager's lock | start, enqueue, consume, stop, replace a channel | ChannelManager, SessionMailbox |
| Schedules and emergency stop (`app/crons`, `kernel/governance.py`) | | schedule records, in-memory scheduler, semaphores, the governance control | save, delete, pause, resume, run; stop, resume; restart, rebuild | ScheduleControl |
| Governance admission and batches (`kernel/governance.py`) | | none beyond the control | admission verdicts, batch decisions | admission in HumanAssist and as `SubmitRefused` of KernelDispatcher; batches not |
| Assignment executor coordination (`kernel/runtime_coordination.py`) | 1.5 | executor runtimes, pending approvals, drain threads | start, drain, answer an approval, interrupt, restart | ExecutorSidecar |
| Delegation (`kernel/delegation_service.py`), query execution, turns | | through the dispatcher and leases | delegate, run a query | as callers |
| MCP clients and watcher (`app/mcp`) | | clients, configuration snapshot | connect, replace, remove, reload, activate | McpClients |
| Runtime manager stack (`app/runtime_manager_stack.py`, `runtime_lifecycle.py`) | | the running managers | start, stop, rebuild | in ScheduleControl and McpClients, in part |
| Goals (`goals`) | 2.8 | goals, the background chain of a goal | compile, dispatch, reconcile | no (see 7) |
| Human assist (`state/human_assist_task_service.py`) | 0.7 | a task a person has to do | issue, submit, verify, resume, close | HumanAssist |
| Executor runtimes and transports (`state/executor_runtime_service.py`, `adapters`) | 4.4 | runtimes, thread bindings, event streams | bind, mark, read events, crash, restart | ExecutorSidecar |
| Workflows, SOP kernel, routines | 8.2 | runs and their steps | launch, step, resume | planned |
| Learning (`learning`) | 8.6 | patches | propose, approve, apply, roll back | planned |
| Industry (`industry`) | 34 | teams, backlog, cycles, assignments | bootstrap, plan, dispatch, review | one operation, in ScheduleControl |
| Capabilities (`capabilities`) | 24 | catalogue | execute behind an envelope with a timeout | an arbitrary answer |
| State store (`state`), evidence | 33 | all tables | read, write | the columns that are decided by |
| Memory, research, compiler, predictions | 27 | documents, reports | derive | no |
| Agents, providers, channel adapters, CLI, configuration | 40 | caches, files | call services | no |
| HTTP surface, console, website | | projections | call the services above | no |

**How they interact.** Every actor that wants work done calls
`KernelDispatcher.submit` and then `execute_task`, which awaits a capability; the
capability may delegate and so submit children under the same dispatcher. A
delegated child runs inside `child_run_shell`, which takes the writer lease of
its scope, keeps a heartbeat task beside the work and releases the lease in
a `finally`. People speak through channels, whose messages wait in
the channel manager's queue for a worker that runs a turn; timers speak through
the cron manager, whose runs go to the same kernel. Governance is consulted on
every admission and, as the emergency stop, reaches into the cron and channel
managers. Components share state only through the store; calls go down
synchronously, and upwards there are callbacks (the closing of a child
reconciles its parent, an expired lease detaches a live handle). A restart
loses the event loop with everything suspended on it, and `startup_recovery`
and the manager stack put the rest right from the store. Two components reach outside
the event loop: MCP clients, which the configuration file and the calls of
their tools replace under each other, and the external executors, whose
turns are drained by operating system threads beside the thread that reads
the one sidecar process they share.

**What is hard, and the properties that answer it.** `PROJECT.json` lists the
hazards one by one, at their lines.

- *Kernel.* `execute_task` checks the phase, awaits, and applies the outcome to
  whatever the task has become: closed, retried under the same identifier, held
  again, executed twice (`HeldIffPending`, `ApprovedBeforeExecuting`,
  `FirstOutcomeStands`). Closing one task recurses down its subtree and up its
  ancestors through the same entry points (`NoOrphan`, `ParentFollowsLastChild`,
  `CleanCloseoutReplayed`, `SettledAgrees`, `ImplementsForest`). A closeout
  refused because a child lives has to be made up for (`EveryTaskEnds`,
  `CleanCloseoutReplayed`).
- *Leases.* Three records of one fact, two of them persisted by a commit each, one
  lost in a crash (`Mirrored`, `HandleFollowsLease`, `NoLeakedLease`); writers that come
  back after their lease was reaped or taken (`AgentsExcluded`, `FencedHolder`).
- *Channels.* A message is in one of four places while workers merge and drain,
  channels are stopped and started and a cancelled worker goes on
  (`NothingLost`, `NoStrandedPending`, `EveryMessageServed`,
  `ImplementsMailbox`); a session must have one worker (`OneWorkerPerSession`).
- *Schedules.* A scheduler in memory beside records in the store beside a
  persisted stop, each changed without the others, and managers that are rebuilt
  while a stop or a resume waits for them (`TimersFollowRecords`, `StopHolds`,
  `NothingLeftPaused`, `ChannelsShut`); runs that share a semaphore
  (`OneRunAtATime`).
- *MCP.* A file that is edited while it is loaded, a client that connects
  outside the lock while its key is removed or replaced, one client of several
  that fails (`NoMissedEdit`, `Faithful`, `RecordTruthful`, `SteadyKept`,
  `NoNeedlessReload`, `EveryKeyServed`).
- *Executors.* Threads that read a status and write it back after the turn has
  ended, an answer that crosses with a timeout, a process that dies
  (`EndedStaysEnded`, `ApprovalNeedsOperator`, `ListedIsOpen`, `CrashNoticed`).
- *Human assist.* An accepted answer that waits for a task in memory,
  a resume refused by the admission it was to clear, asks closed and issued
  by the way (`QueuedIsWorked`, `EveryResumeSettles`, `RewardEarned`,
  `LiveAsksDiffer`, `CurrentTakesAnswer`).

## 2. Modules and the code they model

| Module | What it is |
|---|---|
| `KernelDispatcher` | the dispatcher, its lifecycle and its decisions |
| `KernelCascade` | the closing cascade as the code's own recursion, one recursive function over tree states; extends KernelDispatcher |
| `TaskForest` | abstract: what a forest of tasks promises |
| `EnvironmentLease` | the writer lease of one scope |
| `ChannelManager` | one channel's queue and workers |
| `SessionMailbox` | abstract: what a channel promises its users |
| `ScheduleControl` | schedules, their runs, the emergency stop, restarts |
| `McpClients` | the MCP clients, the watcher of their file, activations |
| `ExecutorSidecar` | drain threads, the sidecar's transport, approvals |
| `HumanAssist` | the asks of a chat thread, admission, answers, resumes |
| `MCKernel`, `MCLease`, `MCChannel`, `MCSchedule`, `MCMcp`, `MCExecutor`, `MCHumanAssist` | the instances for TLC |
| `*Proofs` | the theorems of the module in their name; `KernelForestProofs` are those of KernelDispatcher about the shape of the forest, and that its cascade is the recursion of KernelCascade |

Definitions whose comment says *Mutant* or *A bug* are not part of a
specification. Each is one way to get the definition after it wrong, and some
property fails when it is put in its place.

### KernelDispatcher

One dispatcher method is one action, because every method but `execute_task` is
synchronous on the event loop, the whole cascade included. `execute_task` is
split at its await: `Execute` (or the part of `SubmitAdmitted` and `Approve` in
which the caller goes on to execute at once) adds a suspended call to `runs`, and
`Return` takes one away and applies its outcome.

| Variable | Code |
|---|---|
| `phase` | the persisted phase; `absent` is "no such task". `pending` is never visible, submit moves on in the same step |
| `decision` | the status of the latest decision request |
| `deferred` | the remembered closeout of a `dispatch_query` or `dispatch_command` parent |
| `runs` | coroutines suspended in `execute_task`, per task |

| Action | Code |
|---|---|
| `SubmitRefused`, `SubmitAdmitted`, `SubmitHeld` | `submit`: a terminal parent or governance, admission, or confirmation |
| `MarkReviewing`, `Approve`, `Reject`, `Recover` | the decision requests; `Recover` is the expiry of overdue ones at startup |
| `Execute`, `Return`, `Abandon` | `execute_task`; `Abandon` is a `CancelledError`, which no handler catches |
| `CloseByCaller` | `complete_task`, `fail_task`, `cancel_task` from outside |
| `Crash` | the process restarts; only `runs` is lost |

What tells tasks apart is a set each: `Explicit`, `Gated`, `AutoApproved`,
`ClosesOnApproval`, `Retried`, `Unattended`. `Faults` says what may go wrong.

The cascade (`cancel_task` → `_after_terminal_transition` →
`_cancel_live_child_subtree` and `_reconcile_parent_after_child_terminal` →
`complete_task`/`fail_task` → …) is given in closed form, `Settled`: everything
live that is reachable below through live tasks is cancelled, and the maximal
chain of ancestors that have nothing live left is closed, as failed from the
point where something on the way went wrong. The closed form can be proved about;
`KernelCascade` has the recursion as the code runs it: `AfterTerminal` is one
recursive function of a tree state and a task, and the methods that it calls and that
call it back take it as an argument. `SettledAgrees` compares the two for every live
task, in every reachable state, for each outcome; `CascadeSettles` proves it.

`TaskForest` is the promise without decisions, calls or deferral. One step
closes one task and only what follows from that. `ImplementsForest` is the
refinement, with `status` computed from `phase`.

### EnvironmentLease

Scopes share no state, so one is modelled. `session` and `mount` are the two
persisted rows, which every operation of the lease commits one after the other: the
session, then, in `_sync_environment_lease`, the mount. `sync` is the second write
while it is still to come, `Sync` the step that does it; the operations are
synchronous, so until then no other begins (`Free`), but the clock may pass
`expires_at` and the process may end (`Crash`), which leaves the mount as it was. `handle` is the live handle in memory (the tokens it knows, `{}` when there
is none), `stage` follows each run through `child_run_shell`. A run asks once
and every acquisition mints a token, so a run *is* its token. The clock is the
flag `lapsed`: `expires_at` has passed. `faults` is history and only says which
exceptions a property may claim; `torn` says that a crash cut a write of the mount off
and none has come since.

`Acquire` and `Refuse` are `acquire_session_lease`; `Heartbeat`, `Finish` and
`FinishRaises` compare the token only if the session still has one, as the code
does, so a late heartbeat on a released lease takes it again. `Reap`,
`ForceRelease` and `Startup` are the upkeep; `RecoverOrphan` restores the handle
if a restorer is registered (`Restorable`), and releases the lease as expired if not.
`Mirrored` is about the two rows at rest. It has one exception, which is what the code
does: a crash between the two commits of a release leaves the mount leased, and as
startup looks only at sessions that are leased, it stays so until the scope is next
leased or released. A lease cut off in the same way is put right by startup.

### ChannelManager

A step ends where a worker may really be suspended. `get_channel` awaits the
manager's lock, which is free at once (`TakeAndClaim`: pop, look up, mark, drain,
one step) unless `replace_channel` holds it or others wait (`TakeAndWait`,
`ClaimHeld`). The per-key lock guards code that never awaits, so it is
never contended and has no state. `Finish` is the `finally` of the consumer: the
mark goes and what came meanwhile is merged and queued. `Put` drops a payload when
the queue is full, as `put_nowait` in an event-loop callback does.
`RequestSwap`, `BeginSwap`, `EndSwap` are `replace_channel`, which opens the queue
if there is none.

Each start makes a queue with workers of its own, a *generation* (`gen`; a worker
belongs to `Home[w]`). `StartAll` does so also over workers that still run, as
the resume of an emergency stop does. `StopBegin` clears the marks and the pending
lists and cancels the workers: one that waits ends, a busy one ends or, as a turn
turns its cancellation into an error the consumer only logs, goes on
with its old queue. `StopEnd` is the end of the five seconds `stop_all` waits.
`discarded` says what came before the last stop and so may be lost.

`SessionMailbox` is the promise: turns, one at a time, in order, each taking
everything that came before it. Its inbox is what is queued followed by what
is pending.

### ScheduleControl

The repository is synchronous and the manager's lock is never held across
a suspension, so an operation on a schedule is one step. The governance
operations suspend while channels stop or start (`StopBegin`/`StopEnd`,
`ResumeBegin`/`ResumeEnd`), a run while it waits for its semaphore and while it
executes.

| Variable | Code |
|---|---|
| `kept`, `spec`, `bad` | records not deleted; those whose `spec_payload` says enabled; those whose expression `CronTrigger` refuses, which is stored before it is refused |
| `active`, `paused` | jobs of the in-memory scheduler |
| `stray` | jobs of schedulers that a failed rebuild has left running |
| `sem`, `run` | the semaphore of each job, and each run with the one it entered |
| `control`, `channels` | the governance control row; whether channels run |
| `stopping`, `resuming` | what an awaiting stop or resume has in hand: the identifiers it read, and whether the managers it waits for are still those of the process |
| `managers` | running; stopped, with the process alive, during a restart of the services or after one that failed; dead with the process |
| `past` | history: which exceptions apply |

`Fire`, `RunNow`, `Begin`, `Proceed`, `End` are the runs; `Save`, `SaveRejected`,
`SaveUnstarted`, `Delete`, `Pause`, `Resume` the operations of the manager. `SaveRejected`
is the save whose trigger cannot be built: the record and the semaphore are new, the
scheduler is as it was. `SaveUnstarted` is a save through a manager that is stopped, as
the HTTP routes keep it until the rebuild succeeds. `PauseInstance` and `ResumeInstance`
are the industry service, which writes the stored spec itself.

`Crash` loses memory. `Reload` is the first half of `_do_restart_services`, which stops
the old managers, and `Startup` the second, which also follows a crash: channels start,
the records are loaded and `reconcile_runtime_state` applies a stop again. Neither asks
whether a stop or a resume is waiting: these go on, on the managers they began
with (`Outlived`). `RebuildFails` is a load that meets a refused expression. The
rollback calls `CronManager.stop`, which returns at once as the manager is not yet marked
as started, so its scheduler fires on with what it had loaded (`FireStray`), out of the
reach of every pause and stop.

The properties state exceptions, because the code makes them:

- `bad`: a refused expression leaves a record with its former timer or with none
  (`crons/manager.py:229`);
- `renewed`: saving or deleting a job, or rebuilding the managers, makes a new
  semaphore while a run holds the old one (`crons/manager.py:347`);
- `started`: operations on schedules are not among the capabilities that a stop
  blocks (`governance.py:20-29`), so a schedule may be told to run during one; and a
  restart beside a stop that is still waiting loads timers that the stop has paused in
  the former scheduler;
- a schedule resumed against a stored spec that says disabled is not seen by the
  stop, which lists schedules by the stored spec (`governance.py:1216`);
- `rebooted`: a restart starts the channels, and reconcile leaves them because
  `channel_shutdown_applied` is persisted (`governance.py:1228`), or because the stop
  that shuts the former ones is only recorded afterwards;
- `replaced`: the configuration watcher runs on during a stop and starts a
  channel whose configuration is edited (`config/watcher.py:131`);
- `left`: what a stop or a restart pauses while a resume awaits the channels is not in
  the list that the resume has read, and the resume clears the list
  (`governance.py:1025-1041`);
- `off`: a schedule was told to pause since it was last saved or loaded.

Four of these disagree with what the repository says of itself (see 6).

`Refusable`, `Team` and `JobOf` say which schedules may be given a refused expression,
which belong to an industry instance and which a run is of; the theorems hold for any.

### McpClients

The sections under the manager's lock never await, so a step is what runs
between two awaits: connecting a client and closing an old one, both outside
the lock.

| Variable | Code |
|---|---|
| `file`, `stamp` | the MCP section of the configuration file and its modification time |
| `client`, `config`, `record` | the manager's connected clients, the configurations it remembers, the runtime records |
| `snapshot`, `seen`, `failures`, `reload` | the watcher: last loaded configuration, its modification time, failure counts, the background reload |
| `op` | the replacement that the watcher, or a caller of a tool, has under way |
| `phase`, `boot`, `waiting`, `restarts` | building manager and watcher, at start and at a restart |
| `partial`, `strayed` | history: which exceptions apply to a key |

`BeginReplace`, `Install`, `CloseOld`, `FailReplace` are `replace_client` in the
steps of its awaits, run by the watcher (`ReloadClient`, `WatcherInstall`, …) or by
an activation (`Activate`, `CallerStep`, `Cancelled`). `PollSame`, `PollBusy`,
`PollReload` are the watcher's `_check`; `ReloadEnd` is its wrapper, which keeps the
old snapshot unless everything went well. `Restart` is the restart
coordinator, strict about MCP: one client that does not connect leaves everything down.

Two exceptions are named by the properties. `partial`: a reload that fails
has changed some keys, and a file put back hashes equal to the old snapshot, so
they stay changed. `strayed`: a key that did not connect at the start, whose
file was edited during the start, or that an activation replaced beside the
reload, which installs whatever connects last.

### ExecutorSidecar

These are operating system threads, and a step is what a thread does between two
accesses to state that others write.

| Variable | Code |
|---|---|
| `status`, `bound` | the stored status of a runtime; its thread binding |
| `drain`, `outcome`, `sawAny`, `tried` | where the drain thread is in `_drain_executor_events`, and its locals |
| `process`, `alive`, `reader`, `readerError` | the stdio transport: the process it has, those that run, the reader thread of each |
| `queue`, `orphan` | the table of event queues; the queue a drain still reads after the table dropped it |
| `pending`, `handler`, `answer` | the table of approvals, the handler that waits for each, the stored decision |
| `mark` | per approval and writer, how far the read-then-write of `_mark_runtime_sidecar_state` is |
| `restarting`, `listed` | the operator's restart and the runtimes it has still to mark |
| `auto`, `reported` | what the executor chose: requests of risk `auto`, turns it has reported |
| `said`, `told`, `overtaken` | history: what the operator said, the sidecar was told, a write that was on its way when the runtime ended |

`DrainStep` is the drain, with its one restart of the sidecar; `HandlerStep`
the handler of a request (`Register`, `AutoApprove`, `TimeOut`, `Return`);
`Resolve` stores a decision in the approval and `Unlist` takes it from the table, two
steps of whoever resolves it, be it the handler that timed out, the operator or the
drain that ends, and between them others find the decided approval listed; `Look` and `Write` are its mark on
the runtime. `Deliver`, `Ask` and `Crash` are the executor behind the pipe;
`Respond`, `BeginRestart` and `Interrupt` the operator.

`EndedStaysEnded` has one exception, `overtaken`: a writer had read the status
before the runtime ended and writes what it read.

### HumanAssist

One chat thread with one host. Everything runs on the event loop, and every
admission, answer and status read is one step; only the resume of the blocked work, a
background task of the response, is ever suspended.

| Variable | Code |
|---|---|
| `thread` | the records: status, ask, and the order of `updated_at`, by which listings choose |
| `host` | whether the host twin is ready, in handoff, or cannot be read |
| `resume` | the background task of a record: queued, first attempt, the sleep between, second attempt |
| `rewarded`, `recorded` | rewards granted; acceptances in the evidence ledger |
| `lost`, `torn` | history: resumes ended by a crash, verifications cut short by one |

| Action | Code |
|---|---|
| `Work` | `admission_block_reason`, or the governance status, which closes stale asks in the same way; `Admission` is what either leaves of the thread: a host in handoff issues an ask or updates the newest one it clashes with, a ready host closes all that are unfinished |
| `Decline`, `Accept`, `RecordFails` | a chat message taken as an answer, and `verify_task` |
| `Refused`, `Resumes`, `ResumeFails`, `ResumeEnds` | `resume_human_assist_task` and `_finalize_human_assist_resume`, two attempts, each through the admission of all work |
| `Crash`, `CrashInVerification` | the process ends, between steps or between two writes of a verification |

`get_current_task` passes over what looks like the handoff of a fresh recovery:
`Fresh`, fixed per record. The other kind of ask, an absorbed exception, cannot
occur: neither caller of `run_startup_recovery` (`app/_app.py:89`,
`app/runtime_lifecycle.py:837`) passes the service that would issue it.

## 3. Runs

Twelve runs. State counts are distinct states.

| Run | Checks | Instance and why it is enough |
|---|---|---|
| `kernel_forest` (15,184) | `HeldIffPending`, `ApprovedBeforeExecuting`, `NoOrphan`, `SettledAgrees`, `FirstOutcomeStands`, `ParentFollowsLastChild`, `CleanCloseoutReplayed`, `ImplementsForest` | root `r`, children `a` and `b`, `g` below `a`: siblings, a grandchild and a two-level chain, which are all the ways a cascade moves. Every kind occurs, two calls of a task at once, crashes and cancelled coroutines; no expiry, which skips the cascade |
| `kernel_live` (2,778) | `HeldIffPending`, `EveryTaskEnds` | the tree with expiry at startup and no other fault: after a crash nobody is obliged to execute again, so nothing would end |
| `lease` (375,144) | `Mirrored`, `HandleFollowsLease`, `NoLeakedLease`, `AgentsExcluded`, `FencedHolder` | two agents with two runs each, so that a run nests in one of its own agent while the other agent waits; all faults, restorer present (both of its outcomes are explored) |
| `lease_reentry` | violates `NestedAgentsExcluded` | the same without restorer; eight states |
| `channel_mailbox` (31,462) | `TypeOK`, `OneWorkerPerSession`, `ImplementsMailbox` | two sessions, three workers, queue of 2 with 4 messages per session: the queue fills, and a turn's backlog meets a full queue. No replacement and no second start |
| `channel_swap` (89,621) | `NothingLost`, `NoStrandedPending`, `EveryMessageServed` | two sessions with 3 messages and 1, three workers of the first start and one of a second, stops and replacements at any time: one worker may hold a payload while two overlap, and workers of a stopped start meet one of the next. The queue has room for all messages, as no loss is claimed otherwise |
| `channel_overlap` | violates `OneWorkerPerSession` | three workers, one start; ten states |
| `schedule` (1,805,843) | `TimersFollowRecords`, `OneRunAtATime`, `StopHolds`, `ChannelsShut`, `NothingLeftPaused` | two schedules, so that an operation is seen to leave the other alone and a stop, a resume or a rebuild to find one of the two; `j1` has the two runs, which contend for one semaphore, work under one renewed, or for a failed rebuild that loaded `j1`; `j2` may be refused and is of an industry instance. Runs are interchangeable, hence the symmetry (no liveness is checked under it) |
| `mcp` (520,840) | `NoMissedEdit`, `Faithful`, `RecordTruthful`, `SteadyKept`, `NoNeedlessReload`, `EveryKeyServed` | two keys, so that one fails and the other does not, with two enabled versions; one caller beside the watcher; a first edit, a second one during its reload or back to where the file was; one restart |
| `executor` (5,092,094) | `EndedStaysEnded`, `ApprovalNeedsOperator`, `ListedIsOpen` | one runtime and one approval that three threads may resolve; one progress event, so that a stream has begun or not when it breaks; a crash or an operator's restart beside the drain's own one |
| `executor_crash` | violates `CrashNoticed` | the same without progress events |
| `human_assist` (294,027) | `QueuedIsWorked`, `RewardEarned`, `LiveAsksDiffer`, `CurrentTakesAnswer`, `EveryResumeSettles` | three records, one to be resumed, one issued meanwhile, one a fresh recovery; asks of nobody, of a profile, and of two assignments of it, which are all the ways two asks clash or not |

Type invariants are proved and not run again, but for the channel's, which is
checked where the queue is full.

Bounds: `MaxRuns` calls of a task at once (2, or 1 where the question is not
about overlapping calls); each lease run, each schedule run and each record of a
human assist task happens once; `MaxMessages` per session, `MaxStarts` of a
channel after the first; one stop and one resume under way at a time; `JobOf` and
`Refusable`, which keep the runs to one schedule and the refused expressions to the
other; `MaxEdits` of
the file (2) and `MaxRestarts` of the services (1); `MaxProgress` events and
`MaxFaults` crashes and restarts of the sidecar; one turn per runtime. None cuts
a handler short; a bound only stops further inputs. `Capacity` is the queue's
maxsize and `GiveUpAfter` the watcher's retry limit (2 for the code's 3):
parameters of the code and not bounds.

`CHECK_DEADLOCK FALSE` is set where a system may really come to rest: every task
has ended and none is resubmitted, every lease run has ended, sessions
have fallen silent, edits and restarts are used up, a sidecar reports nothing more; and a
process whose store holds a refused expression can never start again (`Startup`).

## 4. Fairness

- `KernelDispatcher!Fairness`: weak fairness of `ReturnSome(t)`, because
  `execution_timeout_seconds` bounds each await of a capability; and of
  `Decide(t)`, which the code does not guarantee: it is the assumption that
  an operator answers. Nothing obliges a caller to submit or execute.
- `ChannelManager!Fairness`: weak fairness of each worker's steps, of the swap and
  of `StopEnd`. Workers are tasks the event loop keeps scheduling, `asyncio.Lock`
  wakes its waiters in order (`line` is a queue), a turn or the stop of a channel
  ends with an answer or an error, and `stop_all` waits five seconds at most.
  Nothing obliges messages to come or channels to start.
- `McpClients!FairSpec`: initialisation goes on, the file is polled every two
  seconds, a reload goes on, and a connection or a closing ends, by its timeout at
  the latest. Edits, calls and restarts need not come.
- `ExecutorSidecar!FairSpec`: every thread that can go on does, and a wait with a
  timeout ends. The executor and the operator owe nothing.
- `HumanAssist!FairSpec`: the event loop runs a background task on, and the query
  it made ends. Nobody has to answer, and the host need not change.

No other property needs fairness.

## 5. Proofs

TLC says that a formula holds of the instance above; these say that it holds
for every set of tasks and every forest, every number of runs, agents, workers,
sessions and schedules.

| Theorem | States | Rests on |
|---|---|---|
| `KernelDispatcherProofs!TypeCorrect` | `[]TypeOK` | itself inductive; one lemma per closing operator (`SettledType`, `CloseType`, `CompleteType`, `FinishType`) |
| `HeldWhilePending`, `ApprovalPrecedesExecution` | `[]HeldIffPending`, `[]ApprovedBeforeExecuting` | `DecisionInv`: the two together, and `OnlyGatedDecided` |
| `NoOrphans` | `[]NoOrphan`, assuming `"recovery" \notin Faults` | inductive; the cascade is `CascadeShelters` |
| `FirstOutcome` | `FirstOutcomeStands` | `TypeOK`; a cascade changes no terminal task (`CascadeKeepsOutcomes`) |
| `KernelForestProofs!LastChildCloses`, `DeferredCloseoutReplays` | `ParentFollowsLastChild`, `CleanCloseoutReplayed`, without expiry | `LastChildEnds`, `LiveAbove` |
| `RefinesForest` | `ImplementsForest`, without expiry | `StepForward`, `OpensRefines`, `ClosesRefines` |
| `CascadeSettles` | `[]SettledAgrees` | `RecursionIsFinal`; `FoldSweeps` down the tree, `Reconciles` up |
| `EnvironmentLeaseProofs!TypeCorrect`, `MountsAgree`, `HandlesFollow`, `LeasesHeld` | `[]` of `TypeOK`, `Mirrored`, `HandleFollowsLease`, `NoLeakedLease` | `LeaseInv` |
| `HoldersFenced` | `FencedHolder` | `LeaseInv` and `FencedStep` |
| `AgentsExclude` | `[]AgentsExcluded` | `LeaseInv` and `HolderWrites` |
| `ChannelManagerProofs!PendingHasATurn` | `[]NoStrandedPending` | `MarksInv` |
| `ChannelTypeOK` | `[]TypeOK` | `MarksInv` (new workers were gone), `KeptType`, `BacklogType` |
| `SoleWorker` | `[]OneWorkerPerSession`, assuming `~Swaps` and `MaxStarts = 0` | `SoleInv`: only sessions without a mark are queued (`Unclaimed`) |
| `ChannelIsAMailbox` | `ImplementsMailbox`, under the same assumption | `ArriveRefines`, `TakeRefines`, `FinishRefines` |
| `OrderIsKept` | `[]HandedInOrder`, under the same assumption | `OrderStep`: what each step of the mailbox does to the order |
| `HandedOnce` | `[]NoneHandedTwice` | `Accounted`: no message is at two places |
| `NothingIsLost` | `[]Room => []NothingLost` | `Accounted` and `Covered`: what came since the stop is at a place |
| `ScheduleControlProofs!TypeCorrect`, `RecordsFollowed`, `EmergencyStopHolds`, `ChannelsStayShut`, `StopIsUndone` | the invariants of that name | `IInv` |
| `RunsExclude` | `[]OneRunAtATime` | `SInv` |
| `McpClientsProofs!TypeCorrect`, `EditsSeen` | `[]TypeOK`, `[]NoMissedEdit` | `TypeInv`, `SeenInv` |
| `ClientsFaithful`, `RecordsTruthful` | `[]Faithful`, `[]RecordTruthful` | `Inv`: `TypeInv`, `ReloadInv`, `LoadInv` and, for every key, `KeyInv` |
| `ClientsKept`, `ReloadsNeeded` | `SteadyKept`, `NoNeedlessReload` | `Inv` |
| `ExecutorSidecarProofs!TypeCorrect` | `[]TypeOK` | itself inductive; `StreamTypes`, `QueueTypes`, `ConnectionTypes` |
| `EndsAreFinal`, `ApprovalsAreGranted`, `TableIsOpen` | `[]` of `EndedStaysEnded`, `ApprovalNeedsOperator`, `ListedIsOpen` | `EndInv`, `GrantInv`, `TableInv`, one each |
| `HumanAssistProofs!TypeCorrect`, `QueuedWorked`, `RewardsEarned`, `CurrentAnswers` | `[]` of `TypeOK`, `QueuedIsWorked`, `RewardEarned`, `CurrentTakesAnswer` | `RecordInv` |
| `AsksDiffer` | `[]LiveAsksDiffer` | `PutDiffers`, `AdmissionDiffers` |

**Why strengthenings are needed.**

*Decisions.* `HeldIffPending` alone is not inductive: resubmitting a held task
reuses its pending request, and when it does not have to be confirmed the
request would be left pending. `OnlyGatedDecided` excludes it: only a gated task has
ever a request. And a task held again must not keep the approval of its
earlier run, which is where the two properties need each other.

*Orphans.* A cascade is two sets computed from the phases, and a child of a closed
task is either closed by it, was closed before, or has a live ancestor between.
`CascadeShelters` proves this by cases on where the child stands, using
`ForestAssumption`, which states what `Above` is of `Parent`. With expiry the
property is false (see 6), so the theorem assumes it away.

*Forest.* `StepForward`: without expiry a step changes no phase, opens one task, or
closes one task with its cascade; the refinement is by these cases. That a parent
follows its last child needs to know what else a cascade leaves: `LiveAbove` says
that everything above a live task is live, and `LastChildEnds` that a cascade which
leaves an executing task without live children either stopped it or could close
all on the way up to it, so that the rest hangs on its own closeout.

*Cascade.* `CascadeSettles` has to say what a recursion computes, for any forest.
`Final` is the closed form on an arbitrary tree state, reachable or not, because
the recursion passes through states in which a parent has ended and its children have not.
`BodyIsFinal`: if every call on a state with fewer unended tasks gives `Final`, so
does the body of `AfterTerminal`. Down the tree, each child that the loop cancels takes
its own live subtree (`CancelSweeps`) and no sibling's (`SiblingsApart`), so the fold
over them in any order is one sweep (`FoldSweeps`); the calls on the children change
nothing above, as the parent is no longer executing. Up the tree, closing the
parent leaves it to close its own parent by what is then on the path (`LiftedByParent`,
`SouredByParent`, `Reconciles`). `RecursionIsFinal` concludes twice: `Final`
solves the equation of `AfterTerminal`, so the function is defined; and any
solution is `Final`, or else among the sets of unended tasks on which the two
differ there would be a smallest (`SmallestSet`), which `BodyIsFinal` excludes. Of the
reachable states only their type is used, so expiry is no exception.

*Lease.* `LeaseInv` speaks of the mount row in three situations: a write of it under way
(`sync`) agrees with the session; with none under way, and none cut off by a crash, the
row itself does; and when one was cut off, the session is not leased once the process
is up again. The rows may still differ in their tokens: after a late heartbeat only the
mount has one.
What makes the rest follow is that a *session* token is only kept by a lease, belongs to
the run of the lease's owner, and that run writes or was lost in a crash; and
that nothing of a process is left while it is down. `HolderWrites` adds, while
nothing has gone wrong, that every writing run is the one that holds the lease.

*Marks.* `NoStrandedPending` needs that a mark always has a worker behind it,
which holds even where two workers overlap, as the first to finish
takes the mark and the pending list together. A stop clears both at once, and
`OpenMarks` says that opening a queue disturbs neither.

*One worker.* A session has one worker because the event loop takes, marks and drains
in one step: `SoleInv` says that what is queued is of sessions without a mark, so a worker
that pops a payload claims a session nobody has. A second start or a swap lets a worker
hold a payload it has not claimed, and then it is false (`channel_overlap`), so the theorem
assumes both away: `~Swaps` and `MaxStarts = 0`, which is how `channel_mailbox` is run.
The mailbox then follows step by step: a worker's claim takes the backlog of a session from
the head of the queue on, which is all its inbox, as nothing is pending without a mark.

*Messages.* `NothingLost` does not say that a message is at *one* place, and without that
a message handed over while it is also queued would be handed over again. `Contents(s)`
maps each place (handed, pending, each generation's queue, each worker that waits for the
lock) to the messages there; `Accounted` says that no two places share one and none has
one twice. Five things can happen to such a map (`Moved`, `Split`, `Dropped`, `Added` or
nothing), and each step is one or two of them. Only where a full queue drops something, or
a stop does, does the union shrink: `HandedOnce` needs nothing else, `NothingIsLost` needs
`Room`, that no queue is full when something is put in it, which the instance of
`channel_swap` has room for at any time.

*Sequences.* The library's induction takes an operator and cannot be used here.
`SequencesByAppend` says the same with a set, and rests on `LeastNatural`, which the
library gives for finite sets: the set of exceptions has a least element. What
draining keeps (`Kept`) and merging joins (`FlattenSeq`) is then proved once, as
equations for one payload more (`KeptAppend`, `MessagesAppend`).

*Schedules.* The proof has to say where the list of paused schedules is while it
moves, through restarts that neither a stop nor a resume waits for. `Turns` and
`Overtaken` relate an operation that waits to the control and to the restarts that came
since it began. `StopTakes`: the stop holds from the moment it has paused, not from the
moment the control says so, and a restart in between is an exception from then on.
`PausesKnown`: what should fire and does not is in the list the control has, in that of
the stop or resume under way, or is `left`. `SInv` is about semaphores: one executing run
per semaphore (`OneHolder`), each named after a run that has entered it (`Named`,
`Bound`), and all runs in flight of a job share its present one unless it was renewed
over them (`CurrentSemaphore`).

*MCP.* A faithful client at rest is what is left of a statement about every
moment (`KeyInv`): a key that neither failed nor strayed has the client of the
snapshot, or that of the reload under way once it has done the key, and whoever
replaces it is alone on the key and knows what was there. `LoadInv` says the same of
building the manager, `ReloadInv` what a reload has left to do. `SeenInv`
stands by itself: a reload carries the modification time of the file it was started
for.

*Executors.* `EndInv` follows a write through its read: whoever may still make an
ended runtime active (`WritesLate`: an operator's restart that has listed it, a mark
that has read its status) was at it before the end, so the runtime is `overtaken`.
`GrantInv`: a stored approval was granted by the operator or by the risk level.
`TableInv`: whoever has stored a decision for what is in the table is still to take it
out, and before it is registered nobody has touched it.

*Asks.* `RecordInv` is one statement about each record alone (`Sound`): what its
status says of its background task, its reward and its ledger entry. It survives
admissions because these touch records only in three shapes
(`AdmissionShape`): update, issue, close. That the unfinished asks differ is about
pairs, and needs that a host in handoff issues only where nothing
clashes (`AdmissionDiffers`) and that writing a record back changes no ask
(`PutDiffers`).

**Assumptions.** `ForestAssumption`, `RootsAssumption` and `KindAssumption` (the
parents form a forest, the kinds are sets of tasks), `ChildrenAssumption` (no task has
more children than `list_child_tasks` returns), `FiniteAssumption` (the store holds
finitely many tasks), `RunAssumption`,
`RestoreAssumption`, `RunsAssumption`, `ChannelAssumption`, `NoneAssumption`, `ConstantsAssumption`,
`RuntimeAssumption`, `AskAssumption`. TLC evaluates all of them.

**Only model-checked.** Liveness (`EveryTaskEnds`, `EveryMessageServed`,
`EveryKeyServed`, `EveryResumeSettles`): beyond this prover. Every invariant and action
property of the passing runs is also a theorem, some under the assumption named in the table.

## 6. Where the code and its documents disagree

Each is a run that TLC finishes with a counterexample.

| Run | Code | What the counterexample does | What is said |
|---|---|---|---|
| `lease_reentry` | `lease_service.py:1157` | a second writer of one agent takes the lease over, ends and releases it; another agent acquires while the first writer goes on | `docs/superpowers/plans/2026-03-26-agent-body-grid-computer-runtime.md:63`: no two agents "without a formal exclusive lease" |
| `channel_overlap` | `channels/manager.py:284` | while a channel is replaced two workers pop two messages of one session and wait for the lock, then both process | the comment at `channels/manager.py:128`: "same session is claimed by one worker" |
| `executor_crash` | `codex_stdio_transport.py:149` | the sidecar dies after it confirmed a turn and before the drain subscribes to its events: `_ensure_connection` looks at `_process`, dead or not, the reader has closed only the queues there were, and the drain polls an empty queue without end | `TASK_STATUS.md:495`: at the first crash of the event stream `runtime_coordination.py` restarts and resubscribes once, tested in `tests/kernel/test_main_brain_executor_runtime_integration.py:1398` with a stream that raises |

Seen while modelling, part of the models (often as a named exception of a
property) and not runs of their own:

- *Kernel.* A decision that expires at startup cancels its task without
  reconciling the parent (`dispatcher.py:500`), and a closeout deferred for a child
  is not replayed when the child fails (`dispatcher.py:762`): the parent executes
  on.
- *Leases.* A crash between the two commits of a release leaves the environment mount
  leased, and no startup looks at it (`lease_service.py:215`). The release in the `finally` of a run whose lease was taken over raises
  `ValueError` in place of the run's result (`child_run_shell.py:274`).
- *Schedules.* A pause lives in memory and is lost by a restart
  (`crons/manager.py:245`), though `capabilities/sources/system.py:412` describes it as
  "Pauses future autonomous execution". The resume endpoint decides by the stored
  spec and calls a paused schedule active (`runtime_center_routes_ops.py:366`). An
  expression that `CronTrigger` refuses is stored first (`crons/manager.py:229`), and from
  then on neither the process nor its managers start; the scheduler of the attempt, started
  before the records are loaded (`crons/manager.py:182`), is not stopped by the rollback. A
  restart of the managers waits for no stop or resume (`runtime_lifecycle.py:780`).
  Four things the repository says otherwise: a stop lists schedules by their stored
  spec, so one saved as disabled and resumed by hand fires on (`governance.py:1216`),
  while `docs/archive/root-legacy/implementation_plan1.md:683` has every schedule paused; what a stop or a restart
  pauses while a resume awaits the channels stays paused (`governance.py:1025`), while
  `:692` there has all paused schedules resume; the control says that channels are shut
  when a restart or an edit has started them (`governance.py:1228`), and the console
  shows it as the shutdown being in effect (`RuntimeCenter/text.ts:117`); and each save
  makes a new semaphore (`crons/manager.py:347`), though `max_concurrency`, 1 by default, is
  shown as the most runs at a time (`RuntimeCenter/AutomationTab.tsx:1242`).
- *Channels.* A channel edited during an emergency stop is started, and the resume
  starts all channels a second time over those that run; a turn turns its
  cancellation into an error (`turn_executor.py:1268`), so a worker outlives
  `stop_all`.
- *MCP.* A configuration put back after a reload that failed hashes equal to the old
  snapshot, and the keys the reload changed stay changed (`mcp/watcher.py:173`).
- *Executors.* A restart clears the table of queues while a drain reads one
  (`codex_stdio_transport.py:145`), and two drains may each restart the sidecar they
  share (`runtime_coordination.py:1233`).
- *Human assist.* A crash loses an accepted answer for good: `resume_queued` counts
  as finished for every reader, and no startup recovery looks for it, although
  `TASK_STATUS.md:1633` describes it as passed through briefly. A resume refused
  because the host is still in handoff becomes `handoff_blocked` and is then the newest
  record: it shadows the ask issued meanwhile, later asks are merged into it, and no
  answer is taken until the host itself is ready.

## 7. What is not modelled

*Kernel*: heartbeats of tasks, evidence, notifications to goals and to waiting
queries, outcome recording, a crash in the middle of a synchronous
cascade (each row is written by itself, so it can happen), the cache of terminal
results, identifiers of decisions (the latest counts), more than 200 children of a task
(`list_child_tasks` returns those updated last, `persistence.py:160-185`;
`ChildrenAssumption`), a parent that
completes while its own capability still runs being told apart from others, a
stale call that closes the retried incarnation of its task.

*Leases*: several scopes, other processes and hosts (locality of a handle),
`close_session` and `close_environment`, bridge, attach and operator-abort
metadata, the writer lease of `surface_control_service` (without a heartbeat), the
session leases of query execution. A write that fails in a live process is not modelled,
nor are threads that read leases beside the event loop. No production restorer is registered; the
model allows one because the code does. Times are not modelled: heartbeats
come at 15 of 180 s (delegation) or 20 of 60 s (capabilities), and
`Lapse` under a run that could renew counts as the fault `stall`.

*Channels*: several channels (they share only the lock), the buffers inside an
adapter (`base.py:229`, `402-436`), payloads that cannot be merged, a payload that is
dropped because its channel is no longer found (`channels/manager.py:284-285`). A busy
worker that is cancelled ends at once or goes on to the end of its turn; the steps of a
long unwinding in between are folded into these two.

*Schedules*: the heartbeat job, the columns that are only shown, failures of
`stop_all` and `start_all`, more than one stop and one resume at a time. A restart that
fails for another reason than a refused expression (MCP, channels) is one that stays
stopped. The channels of managers that were replaced are not represented: a resume that a
restart overtook may start those again beside the present ones. A failed rebuild adds to
one set of stray jobs, without telling its schedulers apart. A run that was created before
a rebuild and starts after it enters the semaphore its job had, or one of its own where
there was none: two such runs would share one in the code (`crons/manager.py:421-424`).
APScheduler is external: an in-memory job store, one instance of a callback per
job, and a shutdown that cancels what it started.

*MCP*: scoped overlays, errors while everything is closed, timeouts as times, a
configuration that `_build_client` refuses, which happens outside the `try` of
`replace_client` and leaves the record reloading (`mcp/manager.py:212`). The
MCP servers are external: a connection succeeds, fails or times out.

*Executors*: a second turn of a runtime, several runtimes in the run (the module
has them), a launch configuration that changes, for which `configure_launch` shuts the
process down and resets the queues (`codex_stdio_transport.py:117-121`), a restart that raises, events of an old reader delivered to a new process,
lines cut off in the middle, request identifiers used again, the other transports.

*Human assist*: several chat threads and several hosts, the anchors by which an
answer is verified (the verdict is a choice), listings cut off at 50 records, a
`mark_closed` that raises in the middle of a scan and leaves the rest of the stale asks
open (`governance.py:708-719`),
asks for absorbed exceptions (never issued, see 2).

*Goals* (`goals/service_dispatch.py`): one dispatch compiles one task, so the
background chain has one element and the code that resumes it nothing to resume
(`V7_MAIN_BRAIN_AUTONOMY_PLAN.md:12` calls the chain historical). What remains is the
submission and the execution of a task, which is KernelDispatcher.

*Governance*: staffing, batch decisions (a loop over approvals), summaries.

*Everything else* in the inventory: data derivation, prompt assembly, wire
formats and I/O, which have no protocol of their own; and the components of the plan.

## 8. Plan

Done in this order: the kernel, leases, channels, schedules; then MCP clients, the
executors and the human assist tasks. Next:

1. **Workflow runs** (`workflows`): the progress of a run's steps and its resumption
   after a restart.
2. **Learning patches** (`learning`): proposed, approved, applied, rolled back, with
   a step of several that fails.
3. **A fine-grained cascade**, row by row with a crash between any two, refining
   `KernelDispatcher` where no crash comes.
4. **Composition**: a drain that ends a runtime closes the kernel's task; a
   resumed query is a submission of KernelDispatcher.

Theorems: the agreement of an approval's answer with what was said.
