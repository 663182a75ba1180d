# A TLA+ model of processkit-py

processkit-py is a Python binding (Rust, PyO3) of the `processkit` crate: it
starts child processes so that a whole process tree is owned by one handle, and
lets Python await, stream, supervise, batch and tear down those trees from
synchronous code, from `asyncio` and from several threads at once.

This directory holds TLA+ models of the parts of the binding where ordering and
ownership are the difficulty, the TLC configurations that check them on small
instances, and TLAPS proofs for instances of any size. The crate itself is
outside the repository (`Cargo.toml` names it as a dependency); it is modelled
only through what the binding relies on, and each module's head says what that is.

Paths below are relative to the repository (`src/runtime.rs` is the file of that
name in its `src/` directory).

## 1. The system

### 1.1 Components

| Component | Source | State | Operations | What makes it correct |
|---|---|---|---|---|
| Completion hub and async bridge | `src/runtime.rs` 1-840 | per loop: `COMPLETION_HUBS` -> hub; per hub: `entries`, `ready`, `wake_outstanding`, `closed`, writer, socketpair, one `sock_recv`; per operation: `SharedCompletion`, future, `cancel_tx`, watcher task | `start_bridge`, `publish`, `wake`, `wake_if_idle`, `take_ready`, `close`, the callbacks `PyHubWakeCallback`, `PyHubIdleCallback`, `PyCancelCallback`, `Drop` | no lost or doubled wake-up; each future settled once, with its own outcome; cancelling ends the work; a hub retires when dry and never under an operation |
| Lazy awaitable, guards | `src/runtime.rs` 860-1000, 30-220 | `LazyState` (Pending, Started, Spent); the runtime and the pid that built it | `__await__`, `close`, `block_on_interruptible`, `runtime()` | the work starts at most once; the runtime is not driven where a guard (fork, running loop, re-entrancy) refuses |
| Running process handle | `src/running.rs` | `SharedProcess` (`Mutex<Option<RunningProcess>>`), `JointFinish`, streams taken, idle guard | consuming verbs (`outcome`, `finish`, `output_bytes`, `profile`, `shutdown` and a-twins), `kill`, `output_events`, `stderr_lines`, `lifecycle_events`, context managers, `Drop` | one owner of the run at any time; a verb is not told "consumed" because of the binding's own event drive; `with` leaves no tree and returns; a stream ends |
| Readiness helpers | `src/processkit/_aio.py` 100-940 | one wrapped task, its deadline, the attempts to connect | `wait_until`, `wait_for_line`, `wait_for_path`, `_quiesce`, `_retry_probe`, `_settle_probe` | the caller's own error or a met condition beats the deadline; no task or connection is left behind; a second cancellation wins |
| Streaming batch | `src/processkit/_aio.py` 985-1090 | a queue of commands, a set of live slots | `_stream_as_completed`, `_reap_slots` | no more than `concurrency` children alive; every result once; leaving the loop early reaps every slot |
| Compiled batch, predicate capture | `src/batch.rs`, `src/runner.rs` 40-320 | slots in input order, the capture's error sink | `output_all`, `collect_in_input_order`, `WhenCaptureRunner` | results in input order; a predicate's exception belongs to its own command |
| Runner seam, scripted runners | `src/runner.rs` | an `Arc` of the rules, calls in flight | `ScriptedRunner.on / reconfigure`, record and replay | rules are swapped only without calls in flight, and restored when refused |
| Supervisor and session | `src/supervisor.rs` | take-once supervisor and session slots, `ErrorSlot` of the callbacks | `run`, `arun`, `start`, `astart`, `wait`, `stop`, `__exit__` | a callback's exception is reported by the run it ended; one loop, with one owner; a stopped session stays stopped |
| Process group | `src/group.rs` | shared group slot, its `Arc` clones | `start`, `astart`, `update_limits`, `stop`, `shutdown` and a-twins, `__exit__` | nothing outlives the teardown; limits change only under sole ownership |
| Cancellation token | `src/cancellation.rs` | parent, children, cancelled flag | `cancel`, `child_token` | a child is cancelled with its parent, never the reverse |
| CLI client | `src/cli.rs` | the thread-local `RESOLVER_ERROR` | `build_command`, the run verbs | no command is built past a failed resolver; a verb raises only its own resolver's error |
| Command builder | `src/command.rs` | an immutable builder | setters, verbs | its verbs go through the bridge or `block_on` |
| Argument conversion | `src/convert.rs` | `PyWriterSink.pending`, a call on the blocking pool | the `AsyncWrite` polls of a tee; validation of durations, counts, retry options | a Python writer gets the stream in order, once, and is left alone when the run has returned |
| Errors and results | `src/errors.rs`, `src/result.rs` | none | mapping of crate values to Python | the class hierarchy documented |
| Logging, introspection | `src/logging.rs`, `src/introspection.rs`, `src/lib.rs` | one once-cell | install a logger; read the system | - |
| Command line tool | `src/processkit/_cli/` | none | `run`, `supervise`, `doctor` | exit codes as documented; supervise restarts as its policy says |
| pytest plugin, types | `src/processkit/pytest_plugin.py`, `_protocols.py`, ... | none | fixtures, declarations | - |

### 1.2 How they interact

* Every `a`-verb of every class returns a `PyLazyFuture`; awaiting it calls
  `start_bridge`, which registers with the loop's completion hub and spawns the
  work on the shared tokio runtime. The work runs on runtime threads, the
  callbacks run on the loop's thread, and the two share only the hub's mutexes
  and one socketpair.
* Synchronous verbs run the same futures under `block_on_interruptible`, which
  polls for Ctrl+C and drops the future on it. Dropping a future is also what a
  cancelled `await` does: `PyCancelCallback` sends on `cancel_tx`, and
  `CancellableWork` drops the work it holds.
* A handle, its event stream and its idle guard share the process slot. The
  event stream may move the run out of the slot into a finisher task that any
  consuming verb, the context managers and `Drop` then look for in `finish`.
* Groups and supervisors hand out handles; batches and predicate captures run
  many commands through a runner; the CLI client builds commands through
  resolvers that may call back into Python, and so into another client.

### 1.3 What is hard here

Runtime workers against loop callbacks (a wake-up claimed on one side while it
is given back on the other); verbs of several threads against the event drive
(two mutexes taken one after the other, and re-checked); cancellation at any
`await`, and again while the first one is being cleaned up; a handle, session or
awaitable dropped while work made from it is running; a loop that shuts down or
is collected with operations in flight; Python callables behind hooks of the
crate that cannot fail, whose exceptions travel by a side channel (a cell, a
task-local, a thread-local) while the crate goes on with a made-up answer; and
calls on a blocking pool that runs them in any order and never gives one back.
`PROJECT.json` lists them one by one, each at the line where it bites, with the
property that covers it.

## 2. The modules

| Module | Stands for | Kind |
|---|---|---|
| `AsyncOps` | the contract of an awaitable (`src/runtime.rs` 863-897) | abstract specification |
| `CompletionHub` | the hub and the bridge (`src/runtime.rs` 225-840) | component |
| `CompletionHubProofs` | theorems about it | proofs |
| `MCCompletionHub` (+ 3 `.cfg`) | its instances | model checking |
| `ClaimedRun` | what a handle promises the calls that want to consume it (`take_claim` of `src/running.rs`) | abstract specification |
| `RunningProcess` | the handle, the joint finisher and the event drive (`src/running.rs`) | component |
| `RunningProcessProofs` | theorems about it | proofs |
| `MCRunningProcess` (+ 3 `.cfg`) | its instances | model checking |
| `ProcessGroup` | the shared group and its teardown (`src/group.rs`) | component |
| `ProcessGroupProofs` | theorems about it | proofs |
| `MCProcessGroup` (+ 2 `.cfg`) | its instances | model checking |
| `SupervisedRun` | what a supervision promises its callers ("Fail loud" of `src/supervisor.rs`) | abstract specification |
| `Supervision` | the supervisor, its session and the restart loop's callbacks (`src/supervisor.rs`, `WhenCaptureRunner` of `src/runner.rs`) | component |
| `SupervisionProofs`, `MCSupervision` (+ `.cfg`) | theorems about it; its instance | proofs, model checking |
| `Batch` | the batch verbs, the capture of predicate errors and the builders of a scripted runner (`src/batch.rs`, `src/runner.rs`) | component |
| `BatchProofs`, `MCBatch` (+ `.cfg`) | theorems about it; its instance | proofs, model checking |
| `CliClient` | the client's verbs and the resolvers they call (`src/cli.rs`) | component |
| `CliClientProofs` | theorems about it | proofs |
| `TeeSink` | a tee into a Python writer (`PyWriterSink` of `src/convert.rs`) | component |
| `TeedRun` | a client's run with tees: `CliClient` and `TeeSink` in step | composition |
| `TeedRunProofs`, `MCTeedRun` (+ `.cfg`) | theorems about `TeeSink` and the composition; its instance | proofs, model checking |
| `Aio` | the readiness helpers and the streaming batch (`src/processkit/_aio.py`) | component |
| `AioProofs`, `MCAio` (+ `.cfg`) | theorems about it; its instance | proofs, model checking |

### 2.1 `CompletionHub`

A step is one critical section of the code, or one call that another thread can
observe. Callbacks of the loop exclude each other through `loop = "free"`; while
the loop is in the middle of one (`loop` is "settle", "retire", "detach" or
"claimed"), workers run.

| Model | Code |
|---|---|
| `future`, `task`, `completion` | the asyncio future; the watcher task spawned by `start_bridge`; `SharedCompletion` |
| `home`, `entries`, `ready`, `wake_outstanding`, `phase`, `writer` | the id's hub and `HubState` / `CompletionHub` field by field |
| `bytes`, `receive` | what is in the socketpair; the one receive or callback of the hub |
| `anchor` | the loop's entry in `COMPLETION_HUBS` |
| `StartBridge`, `StartBridgeFails`, `CreateHub`, `ReuseHub` | `start_bridge`, `completion_hub`, `create_completion_hub` |
| `Finish`, `DropWork`, `Publish`, `WorkerWake` | the watcher: the work completes or is cancelled, the outcome is stored, `publish` under the state lock, `wake` after it |
| `UserCancel`, `CancelCallback`, `WakeIfIdle`, `LoopWake` | `Future.cancel`, then `PyCancelCallback.__call__` in three parts |
| `ReceiveWake`, `ReceiveFails`, `CancelReceive` | how `sock_recv` ends |
| `Drain`, `Settle`, `WakeCancelled` | `PyHubWakeCallback.__call__`: drain and complete; then schedule the idle callback or clean up; or find the receive cancelled |
| `Rearm`, `FoundIdle`, `Retire` | `PyHubIdleCallback.__call__` |
| `CollectLoop` | `Drop` of `PyCompletionHub` when its loop is collected |

Choices worth knowing:

* `StartBridge` is one step although it has several calls: only the loop's own
  thread registers and reads `COMPLETION_HUBS`, and no worker knows the id
  before the spawn that ends it. A failing `create_completion_hub` registers
  no operation and leaves no hub that anyone uses, so it is no step; what it has
  created by then (a future, a socket pair) is left to the collector.
* `PyCancelCallback` does nothing for a future that was not cancelled, so it is
  scheduled in the model only by a cancellation.
* `ready` is a queue in the code and a set here: entries of a batch are settled
  independently and no property speaks of their order.
* Every call of a callback that can raise is a fault of its own (`Faults`):
  "write", "receive", "call_soon", "arm", "close", "attach", "refuse". After
  "close" (the reader's own `close()` raises) the callback ends before
  `hub.close()`; the hub stays registered and deaf (`receive = "lost"`).
* After `CollectLoop` the work goes on: dropping the hub drops `cancel_tx`
  without sending, which `CancellableWork` does not treat as a cancellation.
* `late` is a history variable, for one property.

### 2.2 `RunningProcess`

| Model | Code |
|---|---|
| `slot` | `SharedProcess` is `Some` |
| `finish` | `JointFinish`: NotStarted, Running, Taken |
| `finisher` | the task `start_joint_finish` spawns |
| `tree`, `published` | the process tree; the exit the crate publishes to its event stream |
| `stream`, `reaping` | the `EventsDrive` and where it is in `start_joint_finish`; `reap_started` |
| `verb`, `pc`, `answer` | each caller's consuming call, how far it is, what it was told |
| `lazy`, `Await` | the awaitables of a-verbs that nobody has awaited yet; `PyLazyFuture.__await__` |
| `CheckUncaptured`, `ClaimJoint`, `ClaimProcess`, `Recheck` | `take_running_uncaptured`, `take_claim` and its re-check |
| `KillFirst`, `ReapProcess`, `EndProcess`, `FailProcess` | the verb's future over the run it took; `kill_and_reap` |
| `AbortJoint`, `EndJoint` | `teardown` over the finisher; `joint_finished` |
| `Interrupt` | the awaiting future is dropped (cancellation, timeout, Ctrl+C), or an awaitable nobody awaited |
| `Pull`, `Pause`, `IdleLapse`, `StreamEnd`, `Probe`, `JointLock`, `JointTake`, `JointSpawn` | `__anext__`, its idle window, `next_event`, `probe_exit_now`, `start_joint_finish` |
| `DropFinish`, `DropProcess` | `Drop for PyRunningProcess`: `finish` first, the slot second |

Choices worth knowing:

* The verbs differ for the run in three ways only: whether they wait for the
  output, whether they kill first, and which claim they use. `output` stands for
  `output_bytes` and `profile`. An a-verb claims synchronously, when it is
  called, and returns an awaitable that owns what was claimed; nothing drives it
  until it is awaited, which may be never. A synchronous verb does both at once.
  So each call is or is not `lazy`, and only `Await` ends that.
* `finish` is held over several steps by the drive alone (`stream` "locked" and
  "took"); all other holders release it within the step.
* Getters, `take_stdin`, `resize_pty` and the readiness probes borrow the slot
  and put nothing elsewhere; they are left out, and so is the difference between
  a handle that owns its group and one that shares it.
* The crate's part is what `running.rs` states it relies on: a kill ends the
  direct child; a consuming future publishes the exit once the child is reaped
  and `finish()` then waits for the output pipe, which descendants may hold;
  dropping the run takes the tree down.
* A handle can be dropped with a future in flight: futures hold clones of the
  slots, not the Python object. Two misfortunes are parameters (`Hazards`):
  "interrupt" and "collect" (the drop happens while an `__anext__` is in
  flight). "interrupt" includes an awaitable that is dropped instead of awaited:
  it takes what it holds with it just like one that was being awaited.

### 2.3 `ProcessGroup`

| Model | Code |
|---|---|
| `inner` | the slot `Mutex<Option<Arc<ProcessGroup>>>` is `Some` |
| `kind`, `op` | each call, and whether it has a clone of the `Arc` ("holding", "running", "grace") or the slot's lock ("updating") |
| `member` | the child it has put into the group |
| `teardown`, `answer`, `before` | each teardown, how it ended, and the members it found (history) |
| `Call`, `Spawn`, `EndCapture`, `StopSignals`, `EndStop`, `Abandon` | `group()` and the verbs that follow it; an abandoned call failed, was cancelled, or its awaitable was never awaited |
| `LockLimits`, `UnlockLimits` | `update_limits`: `Arc::get_mut` under the slot's lock |
| `Take`, `Shutdown`, `EndShutdown`, `Interrupt` | `shutdown`, `ashutdown`, `__exit__`, `__aexit__`: `take()`, then `shutdown_ref`, or its future dropped |
| `Collect` | the Python object is dropped with the slot still full |

Choices worth knowing:

* A reference count is not a variable: it is who has a reference (`Referenced`),
  and a step that may drop the last one says so with `Keep`.
* `escalate_to_kill` is on, its default: with it off a teardown spares survivors
  by contract. A group whose tree has been shut down and that a late call spawns
  into again is armed again (the crate's 1.2.0, `tests/test_process_group.py`
  487-489), so `Keep` kills that child with the last reference. The test's
  comment that such a spawn is "NOT exercisable" holds for calls after the
  shutdown; a call that cloned the group before it can still do it, and the
  model lets it.
* A second teardown that overlaps with the first answers at once, as documented
  ("a second call is a no-op"), although the tree may still be going down.
* Ending a child's handle is the child's own end here (`MemberEnds`);
  `RunningProcess` models the handle.

### 2.4 The abstract specifications

| Abstract | Implemented by | What it leaves out |
|---|---|---|
| `AsyncOps` | `CompletionHub` (`ImplementsAsyncOps`) | hubs, queues, sockets, callbacks |
| `ClaimedRun` | `RunningProcess` (`ImplementsClaimedRun`) | the slot, the event drive, the finisher |
| `SupervisedRun` | `Supervision` (`ImplementsSupervisedRun`) | slots, awaitables, the policy, the cells |

* `AsyncOps` is what `PyLazyFuture` promises: an operation begins once, has at
  most one outcome, and its future is settled at most once, by that outcome or by
  a cancellation. An outcome that has been set has left its cell, so the mapping
  reads it from the future; the outcome that a future refused (`TakenInVain`) was
  produced and is never delivered, which `AsyncOps` allows and `Delivered` does
  not. The mapping holds with every fault.
* `ClaimedRun`: a run is there until one caller takes it or its handle goes. That
  caller is answered for it, once, and every other one is told that it is
  consumed, which is true by then. A verb that wants the whole output of a
  streamed run is declined, in one wording or another (`Declined`).
* `SupervisedRun`: there is one run; at most one caller is told of it, once it is
  over, or when that caller is interrupted; and if a callback raised, it is told
  of the exception and of nothing else. The mapping hides where the exception is
  kept meanwhile: two cells and the raising step itself.

### 2.5 `Supervision`

| Model | Code |
|---|---|
| `supervisor`, `session` | the take-once slots `PySupervisor.inner` and `PySupervisionSession.inner` |
| `slot`, `completed` | `error_slot`, which control callbacks and health probes raise into; `when_runner.completed` |
| `verb`, `call`, `answer` | each terminal call: an awaitable nobody has awaited ("lazy"), one under way, what it returned |
| `loop`, `attempt`, `restarts` | the crate's restart loop, how its latest incarnation came out, how often it restarted |
| `Launch`, `LaunchFails`, `Exit`, `ProbeFails` | an incarnation, with `WhenCaptureRunner` and `make_health_probe` |
| `StopByRunner`, `StopByPredicate`, `StopByPolicy`, `GiveUp`, `StopByLimit`, `Restart` | the judgement of a result: the closure installed as `stop_when`, the policy, `make_give_up_classifier`, `max_restarts` |
| `Refuse`, `TakeSupervisor`, `TakeSession`, `Await`, `Drive`, `Deliver` | `run`, `arun`, `start`, `astart`; `wait`, `stop`, their awaitables, the exits of a `with` block |
| `Collect`, `Interrupt`, `Drop`, `DropSession`, `StopLoop` | the ways in which a call, an awaitable or a session ends |

Choices worth knowing:

* The order of the gates and what counts as a result are the crate's; the
  binding's own comments state both (`src/supervisor.rs`, `src/runner.rs`), and
  its error handling depends on them.
* A fork is a constant of a behaviour (`forked`): the child inherits a fresh
  supervisor. `start` consumes it there before `runtime()?` refuses, as the
  code does.
* `raised` is a history variable. Which exception it was is abstracted: the
  properties ask whether one is told, not its class.

### 2.6 `Batch`

| Model | Code |
|---|---|
| `rules`, `original`, `builder` | the slot of `ScriptedRunner`, and what `reconfigure` has swapped out of it |
| `clone`, `call`, `kind`, `size`, `cap` | a verb or a batch, its clone of the runner, its number of commands and its concurrency |
| `command`, `sink` | each command and the task-local `WHEN_PREDICATE_ERROR` it runs under (`scope_when`) |
| `completed`, `yielded`, `slot` | `WhenCaptureRunner`'s cell, the item `output_stream` has yielded, the list the call returns |
| `Swap`, `Configure`, `RefuseBuilder` | `reconfigure`: lock and swap, `Arc::try_unwrap`, put back |
| `BeginVerb`, `BeginBatch`, `RefuseConcurrency`, `Await` | the verbs of the runner, `output_all` and its three kin |
| `Start`, `Answer`, `Resolve`, `Store`, `Return` | the first poll of a command; `with_when_capture`; `collect_in_input_order` |
| `Abandon` | Ctrl+C, cancellation, an awaitable dropped |

Commands are polled in any order and interleave within a batch, and calls
interleave with each other; an item that was yielded is stored before the
driver polls again, since both are on one task.

### 2.7 `CliClient`, `TeeSink` and `TeedRun`

| Model | Code |
|---|---|
| `slot`, `stack` | `RESOLVER_ERROR` of each thread; the verbs the thread is in, each building or waiting for its run |
| `Begin`, `Resolve`, `Fail`, `Skip` | `build_command` and its `ResolverErrorScope`; a resolver that returns, raises, or cannot attach to a finalizing interpreter |
| `Abort`, `Hand`, `LookUp`, `Launch`, `Refuse`, `Unwind`, `Finish` | how a build ends: its error, the command itself, a lookup, the runner, a refused re-entry, a panic; and how the run ends |
| `pump`, `written` | the crate's pump of a stream |
| `pending`, `call`, `at`, `log` | `PyWriterSink.pending`; the Python calls on the blocking pool; how much of a chunk a call has handed over; what the writer has got |
| `StartWrite`, `StartFlush`, `EndStream`, `WriteReady`, `WriteAfterFlush`, `FlushReady`, `FlushAfterWrite` | `poll_write`, `poll_flush` and `poll_shutdown` by what is pending |
| `Take`, `FlushWriter`, `Break` | the calls of `write()` and `flush()` on the pool |
| `Abandon`, `Open`, `Close`, `Drop` | the pump's own doings and the run around it |

Choices worth knowing:

* Resolvers are called in any order. The binding moves the caller's `dict` into
  a hash map, so which of two failing resolvers is raised depends on the map;
  the comment at `src/cli.rs` 156-158 speaks of the first in registration order,
  while `tests/test_cli_client.py` 391-392 calls that order not
  deterministic. `RaisesItsOwn` holds of any order.
* A resolver skipped because the interpreter is finalizing leaves an empty
  string and no error, as the code does; `FailClosed` speaks of resolvers that
  raised.
* Verbs nest on a thread through resolvers (while building) and predicates
  (while waiting): a nested synchronous verb on a thread that drives the runtime
  is refused after its build, which is where the code refuses it.
* `TeedRun` is a conjunction: `LaunchTeed` is `Launch` with `Open`, and so on, so
  that `CliClient` and `TeeSink` are left as they are. `IsClient` and `IsTee`
  (`TeedRunProofs`) prove that each still sees only its own steps.

### 2.8 `Aio`

| Model | Code |
|---|---|
| `helper`, `at`, `round` | which helper runs, where it is, how many polls or attempts it has begun |
| `task`, `own`, `asked`, `set` | the asyncio tasks, those the helper made, those it cancelled, those it waits for |
| `expired`, `cancel`, `fresh`, `landed` | the deadline; a cancellation on its way; `pending_cancel`; history |
| `Drain`, `DrainOn`, `DrainEnds` | `_quiesce` and `_reap_slots`, with a cancellation in the middle |
| `PollSync`, `PollAsync`, `PollDone`, `PollExpired`, `PollCancelled`, `Scan` | `wait_until` and `wait_for_line` |
| `Attempt`, `StopAttempt`, `AttemptEnds`, `Evaluate`, `AttemptCancelled`, `Settle`, `Settled` | `_retry_probe` and `_settle_probe` |
| `Stream`, `Acquire`, `LeaveQueue`, `SomeDone`, `Yield`, `StreamOn`, `Resume`, `Close` | `_stream_as_completed` and its slots |

A task that is cancelled may still end with a result or an error of its own. A
future that a predicate returns need not be the helper's; it is not in `own` and
is never cancelled. `wait_for_path` is a `wait_until` whose predicate is
synchronous.

`_retry_probe` awaits each attempt through `asyncio.wait_for`, and the package
supports Python from 3.10 on (`pyproject.toml` 15), so the model lets `wait_for`
do what it does in any of these versions. When it is cancelled it may raise that
(`AttemptCancelled`), with its task ended or still running. Or it may return or
raise what an attempt that has ended has come to (`AttemptEnds` with `cancel`),
and the cancellation is lost: 3.10 and 3.11 do so when the attempt had ended
before, 3.12 and later when the attempt ends with a result or an error although
it was cancelled. `landed` forgets such a cancellation.

## 3. The runs

| Run | Instance | Shows |
|---|---|---|
| `hub` | 2 operations, 2 hubs, all faults but "refuse"; fair | 5 invariants, 3 liveness properties and the refinement of `AsyncOps` hold |
| `hub_shutdown` | no faults | `ShutdownSparesLateOps` is violated (finding 1) |
| `hub_refused` | fault "refuse"; fair | `Delivered` is violated (finding 2) |
| `process` | 2 callers, both hazards; fair | 5 invariants, 2 liveness properties and the refinement of `ClaimedRun` hold |
| `process_interrupted` | 2 callers, "interrupt" | `NoOrphan` is violated (finding 3) |
| `process_dropped` | 2 callers, "collect" | `NoOrphan` is violated (finding 4) |
| `group` | 3 calls, 2 teardowns; fair | 3 invariants and 2 liveness properties hold |
| `group_interrupted` | 2 calls, 1 teardown | `InterruptedReaps` is violated (finding 5) |
| `supervision` | 3 calls, `max_restarts` 0, 1 or none; fair (254 802 states) | 3 invariants, 2 liveness properties and the refinement of `SupervisedRun` hold |
| `batch` | 2 calls of up to 3 commands, 2 builders; symmetry (3.8 million states) | 3 invariants hold |
| `teed_run` | 1 caller, 1 worker, 2 resolvers, depth 2; 2 tees of 2 chunks of length 2; fair (646 644 states) | 4 invariants and 1 liveness property hold |
| `aio` | every helper; 4 polls, attempts or slots (304 418 states) | 3 invariants hold |

**Bounds.** Two operations give every pair of roles a token can have (one worker
publishing while another's id is queued, a cancellation racing a publication);
a third only repeats a role, since a hub has one wake-up token. Two hubs let the
loop retire one and create the next while a worker still points at the first.
`bytes` needs no cap: at most one token exists, and a failed drain ends the hub.
Two callers are a winner and a loser of each claim; three callers were explored
as well (safety, 5.1 million states) and add nothing. Three
calls of a group are one that spawns, one that only holds and one that changes
limits; the second teardown is the no-op. Three calls of a supervision are one
that starts it and two that race for its session; one restart shows a loop that
goes round and a loop that has run out. Three commands let two be under way
while a third is queued, with a concurrency from one to three, and the second
call is one on another thread. Two resolvers give a first failure and a later
one; depth 2 is a build inside a build or inside a run, and the bracket restores
one level at a time. Two chunks of two are a whole chunk, a short write and the
chunk after it, and two tees may share the run's end. With four slots, a
concurrency from one to four leaves some queued, running and done at once. The
theorems below hold for any number of operations, hubs, callers, calls,
teardowns, commands, builders, threads, resolvers, chunks and slots, and any
depth.

**Deadlock** is not checked: with finitely many one-shot operations or callers
every behaviour may end (all operations settled and the hub retired; every
caller answered and the handle dropped; a helper that is over).

**Fairness.** `CompletionHub`: weak fairness for each watcher task (tokio polls a
woken task) and for each hub's callbacks and the callback in progress (the loop
runs them); strong fairness for `CancelCallback`, because the loop's queue is
first-in first-out, so a scheduled callback runs although the loop keeps being
busy with others in between. No fairness for awaiting, cancelling, finishing
work, or any fault. `RunningProcess`: weak fairness for a caller inside its call
(what it claimed is driven only once it is awaited), for the finisher and for the
drive. The child need not exit, the pipe need not close, nobody need pull, call,
await or drop: `ExitReturns` holds of the exits that are awaited even if
descendants keep the pipe for ever, and `StreamEnds` assumes that the child
exited and excepts the time in which an a-verb has taken the process and is not
awaited.
`ProcessGroup`: weak fairness for a call that can return and for a teardown that
has begun (its future is polled, its grace is a bounded wait); none for spawning,
for awaiting, or for a child's end, so `TeardownReturns` holds although others
keep their clones for ever. `Supervision`: weak fairness for the loop's judgement
and its launches, and for a call that can return; strong fairness for
`StopLoop`, because the loop looks for a stop request at every await, also when
it keeps going between crash and restart. No fairness for an incarnation's exit
or for awaiting. `TeedRun`: weak fairness for each poll that can go on and for
each Python call on the pool, and for a run whose tees have ended; strong
fairness for the end of a stream, which may be written and flushed any number of
times before. `Batch` and `Aio` state no liveness: a command, a predicate or a
slot need never end.

### What the properties say

* `NoLostWakeup`, `OneWakeup`: `wake_outstanding` is a token. While the hub is
  healthy, a queued id or a claimed token has exactly one wake-up behind it: at a
  worker, at the loop, in the socket, or received.
* `NeverEmptyHanded`: the id is queued after the outcome is stored.
* `OneOpenHub`, `RetiresEmpty`: registration and retirement never miss each other.
* `DryHubRetires`, with `DryHubIsWoken` the part of it that is proved: no receive sits
  on the loop after the work.
* `Delivered`, `CancelEndsWork`: every stored outcome reaches a waiting future;
  every cancelled await ends its work. A hub whose reader could not be closed is
  excepted, since such a hub is deaf.
* `OneOwner`: the run, or the one handle on its finisher, is in one place.
* `NeverFalselyConsumed`: who is told "consumed" lost to another caller, never to
  the binding's own event drive. (The verbs behind `take_running_uncaptured` are
  excepted: they refuse a streamed run, in one wording or another.)
* `ClosedMeansGone`, `ExitReturns`: leaving a block that owns the run returns, and
  returns with the tree gone.
* `DropSparesReport`: dropping the handle aborts no finisher a verb awaits.
* `LiveHandle`: streaming alone never takes a living child out of the slot.
* `StreamEnds`: the drive does not wait for a reap that waits for the stream, and
  for a verb's awaitable only where that holds the process and nobody awaits it.
* `NoOrphan`: a running finisher is in reach of the handle or of a waiting caller.
  True without the two hazards (proved), false with either.

* `NothingOutlives`: whatever spawns late, no child outlives the last reference.
* `TeardownReaps`: a teardown takes down what it found, whoever still holds the
  group.
* `LimitsAlone`: the limits change only while nobody else has the group.
* `TeardownReturns`, `TeardownFreesCallers`: a teardown waits for no other
  holder, and the callers of the children it kills get their answer.
* `InterruptedReaps`: the documented hard kill of an interrupted teardown. False
  when a call overlaps with it.

* `FailLoud`: whoever collects a supervision in which a Python callback raised is
  told so, and never given an outcome that rests on the binding's made-up
  verdict. `RaiseSurfaces`: a control predicate that raises ends the loop.
* `LoopIsOwned`: a loop that goes on belongs to the open session or to exactly one
  call, awaited or not; no child is restarted for nobody.
* `ForkRefused`: a forked child drives no loop.
* `StopReturns`: stopping returns, also with a loop that crashes and restarts.
* `EachItsOwn`: each slot of a batch has its own command's error or result.
* `RulesKept`, `CallSeesRules`: a refused builder leaves no trace, and no call runs
  under the placeholder, or under rules that change.
* `FailClosed`, `RaisesItsOwn`: no command is built past a failed resolver, whatever
  ran in between, and a build raises its own first failure.
* `TeedInOrder`, `QuietAfterReturn`, `TeesEnd`: the writer gets the stream once and
  in order, is not called after the run has returned, and does not hang the run.
* `NothingOutlives` (of `Aio`): when a helper is over none of its tasks is live, a
  connection is judged or released once, and a foreign future is not cancelled.
* `VerdictStands`: a timeout hides no result of its tick; a cancellation raised into
  the helper comes out of it, unless `asyncio.wait_for` drops it; an exhausted stream has yielded each slot once.
* `CapHeld`: no more children at once than the concurrency, whatever the slots do.

### Findings

1. `src/runtime.rs` 584: `asyncio.run` cancels the hub's own `sock_recv` with all
   other tasks, and `PyHubWakeCallback` then cancels every future of the hub,
   also of operations begun after that request, such as the graceful teardown
   that an unwinding `async with` awaits.
2. `src/runtime.rs` 518: an exception `Future.set_exception` refuses (a
   `StopIteration` raised by a predicate) is written to the unraisable hook and
   its future stays pending for ever.
3. `src/running.rs` 1238: dropping the future of a verb that has claimed the joint
   finisher detaches the finisher; nothing can end the tree any more.
4. `src/running.rs` 1954: `Drop` looks into `finish` once; the drive can move the
   run there between that look and the emptying of the slot.
5. `src/group.rs` 694: a cancelled `ashutdown` drops one of several references;
   with an overlapping call it is not the last, nothing is killed, and the slot is
   already empty.

`PROJECT.json` quotes the lines each of them contradicts.

Met while modelling, and modelled as the code does it, without a run of their
own:

* A `health_check` that raises under `restart="always"` and no `max_restarts` stays
  in its cell while the loop goes on: the failed probes are crashes, and the
  error is told only when something else ends the loop
  (`docs/supervision.md` 270-273). Hence `RaiseSurfaces` speaks of control
  predicates only.
* A `when` predicate that raises in a launch that then fails is not seen by
  `stop_when`, which is asked of results only: the loop restarts, and the error is
  told at its end.
* A cancellation of `wait_for_port` and its kin can be lost: `_retry_probe` relies on
  `asyncio.wait_for`, which may return or raise what the attempt has come to in its
  place (see 2.8). `wait_until` and `wait_for_line`, which wait with `asyncio.wait`,
  lose none.
* An `afinish()` that is called and not awaited has the process, so a stream of the
  run does not see the child's exit until someone awaits it or drops it.
* `reconfigure` refuses also for an awaitable that nobody has awaited, though its
  message speaks of a call in flight.

## 4. The proofs

TLAPS proves the following for every value of the constants, from the named
assumptions of the modules: `NoHubAssumption` and `FaultsAssumption`
(`CompletionHub`), `HazardsAssumption` (`RunningProcess`),
`MaxRestartsAssumption` (`Supervision`), `SizeAssumption` and
`NoErrorAssumption` (`Batch`), `ThreadsAssumption`, `DepthAssumption` and
`ErrorsAssumption` (`CliClient`), `TeeAssumption` (`TeeSink`), `AioAssumption`
(`Aio`). `ProcessGroup` assumes nothing.

* `CompletionHubProofs`: `TypeCorrect`, `Inductive`, and from it
  `NoLostWakeupHolds`, `OneWakeupHolds`, `NeverEmptyHandedHolds`,
  `OneOpenHubHolds`, `RetiresEmptyHolds`, `DryHubIsWokenHolds`. The inductive
  invariant has seven parts.
  `Shape` says which hub each phase, receive and loop state can belong to, and
  that registered entries and queued ids live in open hubs. `Token` strengthens
  `OneWakeup` and `NoLostWakeup` together: each is inductive only with the
  other, since a new token is claimed only where the old one is known to be
  spent. `Results` ties a queued or claimed id to a stored outcome, `Started` and
  `Unanswered` say that nothing is stored, or answered, before it is. `Awaited`
  follows one await: while it is pending its entry is there, what was published
  for the entry is queued, and a cancellation is the only way to drop work.
  `DryHubIsWoken` is inductive given the others.
* `Implements` (`Spec => ImplementsAsyncOps`): initial states map to initial
  states, and each of the 21 actions to a step of `AsyncOps` or a stutter: to
  `Begin` where the bridge starts, `Produce` where the work finishes, `Resolve`
  where the loop drains, `Cancel` where futures are cancelled. `Awaited` and
  `Unanswered` are what it needs: an id that is drained from the queue has a
  stored outcome that its future has not had. `SettledOnceHolds` is the action
  property that follows.
* What `Delivered` rests on, without the time it takes: `AccountedForHolds` (with
  every fault, a future that waits has its work, its outcome or its queued id in
  the open hub it registered with, or has refused the outcome) and
  `OnItsWayHolds` (while no socket fails and no exception is refused, a published
  id that is awaited has a wake-up in flight). `DroppedOnlyIfCancelledHolds` is
  the converse of `CancelEndsWork`.
* `RunningProcessProofs`: `TypeCorrect`, `Inductive`, and from it `OneOwnerHolds`,
  `NeverFalselyConsumedHolds`, `ClosedMeansGoneHolds`, `DropSparesReportHolds`,
  `LiveHandleHolds`, and `NoOrphanHolds` under `Hazards = {}`. `Ownership` says
  where the run is for each value of `finish`; `Ledger` that a run in none of the
  binding's places was claimed by a caller, which is what makes "consumed"
  truthful; `Reaped` that a finisher exists only for an exited child; `Reports`
  whom an abort may hit.
* `Implements` there (`Spec => ImplementsClaimedRun`, with both hazards): a claim is
  a `Take`, wherever the run was. It rests on `ExclusiveHolds`, which adds to
  `OneOwner` that the caller who claimed the run, answered or not, is the only one
  ever to have had it, and that nobody has while the binding still does.
  `TruthfulOutcomeHolds`: an outcome is told only of a reaped child, and by a verb
  that drains the output only once the tree has ended. `DriveAsksOnHolds` is what
  `StreamEnds` rests on: the drive gives up asking for the exit only when the run
  has left the slot for good.
* `ProcessGroupProofs`: `TypeCorrect`, `Inductive`, and from it
  `NothingOutlivesHolds`, `TeardownReapsHolds` and `LimitsAloneHolds`.
  `NothingOutlives` rests on `NoNewReference`: nobody gets a reference to a group
  that has none left. `TeardownReaps` needs `SpawnsOnce`: a call spawns at most
  once and has no child before, so what a teardown killed does not come back.
  `TakenOnceHolds`: one teardown takes the group, also when several are called
  and interrupted. `CallersFreedHolds` is the safety half of
  `TeardownFreesCallers`. `LeavesOnlyBusyHolds` says what is left of the promise
  that finding 5 breaks: a teardown, also a cancelled one, leaves a member up only
  while an overlapping call holds the group, and not after.
* `SupervisionProofs`: `TypeCorrect`, `Inductive`, and from it `FailLoudHolds`,
  `LoopIsOwnedHolds`, `ForkRefusedHolds`. `Token`: what there
  is to drive the loop with is one thing in one place (the supervisor, an
  awaitable, the session, one call). It is what makes `Told` inductive: a cell is
  emptied by the one call that can collect, and nobody looks into it after.
* `Implements` there (`Spec => ImplementsSupervisedRun`) adds the invariant
  `Reports`: who has been told how the run came out was the last who could be,
  since nothing is left to collect it with, and a dropped loop is nobody's. The
  lemmas take the ways to collect apart: quiet ends, quiet openings, the drive,
  the loop, and whoever holds it. `NobodyWaitsInVainHolds` is what `StopReturns`
  and `RaiseSurfaces` rest on: a call that holds the loop holds one that goes on
  or has ended, with what was raised still in its cell.
* `BatchProofs`: `TypeCorrect`, and two invariants that do not need each other.
  `Kept` gives `RulesKeptHolds` and `CallSeesRulesHolds`: at most one builder has
  the runner out, what it holds is what the slot held, and no rule is added while
  anyone holds a clone. `Paired` gives `EachItsOwnHolds`: what a predicate raised
  is in one place, sink, cell or slot, and the place says whose it is.
  `ResultsStandHolds` is the action property of the slots: none is written twice,
  because a slot is empty (`Vacant`) until its own command's item is stored.
* `CliClientProofs`: `TypeCorrect`, `Inductive`, and from it `FailClosedHolds`,
  `RaisesItsOwnHolds`, `EmptyBetweenHolds`. `Bracketed` says that a thread's slot
  holds the first failure of its innermost build and that each build has put by
  that of the build around it; so the bracket is right at any depth.
* `TeedRunProofs`: `TeesInductive`, of `TeeSink` alone (only the pending call can be
  in the pool, so the log is what is written plus what the next chunk has given),
  `IsClient` and `IsTee` (the composition's steps are steps or stutters of each
  part), and from those `BuildsHold`, `TeedInOrderHolds`, `QuietAfterReturnHolds`.
  `NeverStalledHolds` is the safety half of `TeesEnd`: a pump that waits has a call
  pending, and the pool has been given it. `NothingTornHolds`: a tee that ends in
  good order has given the writer just the chunks the pump was told are written.
* `AioProofs`: `Inductive`, and from it `NothingOutlivesHolds`,
  `VerdictStandsHolds`, `CapHeldHolds`. `Permits` is the semaphore's balance;
  `Cancellation` follows a cancellation until it comes out or is dropped; `PollsInv`, `ProbeInv`
  and `StreamInv` say for each kind of helper which of its tasks may be live
  where, and where each connection and each slot's result is.
  `DrainsWhatItAskedHolds`: a drain waits for no task that was not cancelled, so
  nothing else can hold it up. `YieldsResultsHolds` and `PermitsRestoredHolds`
  speak of streams that end early, too: no slot is yielded twice or without its
  result, and every permit has come back.

Each step lemma is a case split over the actions, with one case per action that
does something. A type invariant is an assumption of every step of the
induction; it is proved, and no run lists it. `EmptyBetween`, the parts of the
invariants, and the properties above that section 3 does not name are proved
without a run of their own, too.

Only model-checked: the liveness properties. Fairness, `ENABLED` and leads-to are
out of the prover's reach; what is proved of them is what they rest on, as said
above: that what must happen next is there to happen.

## 5. Plan

All components with interleavings of their own are modelled, every safety
invariant and every refinement a run checks is proved. What is left, in the order
of what it would add:

1. That `CliClient` implements a client without a thread's slot, in which each
   build has an error of its own and raises it like any Python function; given
   `Bracketed`, the slot maps to the top of the stack.
2. A contract for `ProcessGroup` (one group, taken down once, with its late
   children) and the theorem that it is implemented.
3. The lazy awaitable as a module of its own: two threads at one `PyLazyFuture`,
   the lock `__await__` holds across Python calls, and the fork guard of every
   verb (`Supervision` has it for its own).
4. `take_stdin`, `resize_pty` and the partial-tail probes of `src/running.rs`, which
   borrow the slot and wait for it.

## 6. What is not modelled

* Command builder, errors and results: immutable builders and stateless mappings
  to Python classes; their verbs go through the bridge. The parsers of options in
  `src/convert.rs` are pure functions of one argument, which unit tests exhaust.
* Cancellation token: the binding wraps the crate's token and keeps no state.
* Logging, introspection, the command line tool, the pytest plugin and the type
  stubs: a once-cell, reads of the operating system, a sequential program over
  the public verbs, fixtures and declarations.
* Record and replay, dry runs, recorded invocations: file and serialisation work
  of the crate.
* Of `src/running.rs`: JSON lines, stdin, PTY resizing, getters, partial-tail
  probes. Of `src/group.rs`: signals, suspension, statistics, member lists. They
  borrow and put nothing elsewhere.
* Of `src/runtime.rs`: the lock that `__await__` holds across Python calls.
* Contents of outputs, texts of errors and lengths of times are abstracted
  everywhere; a deadline is a step that may come at any time.
