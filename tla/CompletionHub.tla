--------------------------- MODULE CompletionHub ---------------------------
(***************************************************************************)
(* The hand-off of results from the tokio runtime to an asyncio event loop *)
(* (src/runtime.rs, start_bridge and the completion hub).                  *)
(*                                                                         *)
(* Every awaited operation registers an entry in the hub of its loop.  A   *)
(* runtime worker that has a result stores it, enqueues the operation's id *)
(* and, unless a wake-up is already outstanding, writes one byte into a    *)
(* socketpair.  The loop keeps one `sock_recv` on the other end; its done  *)
(* callback drains the queue, settles the futures and schedules an idle    *)
(* callback, which re-arms the receive or retires the hub.  A new hub is   *)
(* created for the next operation after a retirement.                      *)
(*                                                                         *)
(* Steps are the code's critical sections: what one mutex guards is        *)
(* atomic, and workers run between any two sections of a loop callback.    *)
(* Callbacks of the loop exclude one another (one loop thread).            *)
(***************************************************************************)
EXTENDS Naturals, FiniteSets

CONSTANTS
  Ops,      \* The operations (PyLazyFuture awaitables) of one event loop.
  Hubs,     \* The hub objects the loop may create one after another.
  NoHub,    \* Not a hub.
  Faults    \* Which calls may fail: see FaultKinds.

\* "write"     the wake-up byte cannot be written
\* "receive"   sock_recv ends in an OS error
\* "call_soon" the idle callback cannot be scheduled
\* "arm"       the receive cannot be re-armed
\* "close"     the reader's close() raises
\* "attach"    add_done_callback raises on the fresh future
\* "refuse"    the outcome is an exception Future.set_exception refuses
FaultKinds ==
  {"write", "receive", "call_soon", "arm", "close", "attach", "refuse"}

ASSUME NoHubAssumption == NoHub \notin Hubs
ASSUME FaultsAssumption == Faults \subseteq FaultKinds

VARIABLES
  \* The operations.
  future,            \* The asyncio future: "none" before the first await.
  completion,        \* SharedCompletion: "pending" or the stored outcome.
  home,              \* The hub the operation registered with.
  task,              \* The runtime's task: see TaskStates.
  signal,            \* The oneshot cancel_tx has been sent.
  callback,          \* PyCancelCallback on the future.
  \* The hubs.
  phase,             \* "unborn", then "open" until HubState.closed.
  entries,           \* HubState.entries (its keys).
  ready,             \* HubState.ready.
  wake_outstanding,  \* HubState.wake_outstanding.
  writer,            \* The write end exists (CompletionHub.writer is Some).
  bytes,             \* Bytes in the socketpair, not yet received.
  receive,           \* The one receive / callback of the hub on the loop.
  \* The loop.
  anchor,            \* The hub COMPLETION_HUBS maps the loop to.
  loop,              \* What the loop thread is in the middle of.
  loopHub,           \* The hub it is doing that to.
  late               \* History: registered while the receive's cancellation
                     \* was already on its way.

opVars  == <<future, completion, home, task, signal, callback>>
hubVars == <<phase, entries, ready, wake_outstanding, writer, bytes, receive>>
vars    == <<opVars, hubVars, anchor, loop, loopHub, late>>

FutureStates  == {"none", "spent", "pending", "ok", "error", "cancelled", "empty"}
TaskStates    == {"none", "running", "stored", "claimed", "ended", "dropped"}
ReceiveStates == {"none", "armed", "got", "failed", "cancelled", "drained",
                  "broken", "idle", "lost"}
LoopStates    == {"free", "settle", "retire", "detach", "claimed", "gone"}

Outcomes == {"ok", "error"} \union (IF "refuse" \in Faults THEN {"refused"} ELSE {})

Init ==
  /\ future     = [o \in Ops |-> "none"]
  /\ completion = [o \in Ops |-> "pending"]
  /\ home       = [o \in Ops |-> NoHub]
  /\ task       = [o \in Ops |-> "none"]
  /\ signal     = [o \in Ops |-> FALSE]
  /\ callback   = [o \in Ops |-> "none"]
  /\ phase      = [h \in Hubs |-> "unborn"]
  /\ entries    = [h \in Hubs |-> {}]
  /\ ready      = [h \in Hubs |-> {}]
  /\ wake_outstanding = [h \in Hubs |-> FALSE]
  /\ writer     = [h \in Hubs |-> FALSE]
  /\ bytes      = [h \in Hubs |-> 0]
  /\ receive    = [h \in Hubs |-> "none"]
  /\ anchor = NoHub /\ loop = "free" /\ loopHub = NoHub /\ late = {}

Open(h) == phase[h] = "open"

-----------------------------------------------------------------------------
(* Starting an operation: PyLazyFuture.__await__ -> start_bridge.  It runs *)
(* on the loop thread, and nothing a worker does in between reads what it  *)
(* writes, so it is one step.                                              *)

\* completion_hub: the loop's hub if it is still open.
\* Mutant: a new hub for every operation.
HubNeverOpen == FALSE

HubIsOpen == \E h \in Hubs : h = anchor /\ Open(h)
ReuseHub(h) ==
  /\ h = anchor /\ Open(h)
  /\ UNCHANGED <<phase, ready, wake_outstanding, writer, bytes, receive, anchor>>

\* create_completion_hub: a new socketpair with its receive armed.
CreateHub(h) ==
  /\ ~HubIsOpen
  /\ phase[h] = "unborn"
  /\ phase'   = [phase EXCEPT ![h] = "open"]
  /\ writer'  = [writer EXCEPT ![h] = TRUE]
  /\ receive' = [receive EXCEPT ![h] = "armed"]
  /\ anchor'  = h
  /\ UNCHANGED <<ready, wake_outstanding, bytes>>

StartBridge(o) ==
  /\ loop = "free" /\ future[o] = "none"
  /\ \E h \in Hubs :
       /\ ReuseHub(h) \/ CreateHub(h)
       /\ entries' = [entries EXCEPT ![h] = @ \union {o}]
       /\ home'    = [home EXCEPT ![o] = h]
       /\ late'    = IF receive[h] = "cancelled" THEN late \union {o} ELSE late
  /\ future'   = [future EXCEPT ![o] = "pending"]
  /\ callback' = [callback EXCEPT ![o] = "attached"]
  /\ task'     = [task EXCEPT ![o] = "running"]
  /\ UNCHANGED <<completion, signal, loop, loopHub>>

\* add_done_callback raises: hub.cancel(id) takes the entry back out, the work
\* is dropped and the awaitable stays Spent.  The hub, if new, stays armed.
StartBridgeFails(o) ==
  /\ "attach" \in Faults
  /\ loop = "free" /\ future[o] = "none"
  /\ \E h \in Hubs : ReuseHub(h) \/ CreateHub(h)
  /\ future' = [future EXCEPT ![o] = "spent"]
  /\ UNCHANGED <<completion, home, task, signal, callback, entries, loop, loopHub, late>>

-----------------------------------------------------------------------------
(* The runtime: CancellableWork and the watcher task of start_bridge.      *)

\* Mutant: the id is published before the outcome is stored.
FinishUnstored(o) ==
  /\ task[o] = "running"
  /\ task' = [task EXCEPT ![o] = "stored"]
  /\ UNCHANGED <<future, completion, home, signal, callback, hubVars, anchor, loop,
                 loopHub, late>>

\* The work is ready: the watcher stores the outcome (a panic is an error).
\* poll() asks the work first, so a cancel signal does not pre-empt it.
Finish(o) ==
  /\ task[o] = "running"
  /\ \E result \in Outcomes : completion' = [completion EXCEPT ![o] = result]
  /\ task' = [task EXCEPT ![o] = "stored"]
  /\ UNCHANGED <<future, home, signal, callback, hubVars, anchor, loop, loopHub, late>>

\* The work is pending and cancel_rx has fired: WorkExit::Cancelled.  The
\* work is dropped and nothing is published.
DropWork(o) ==
  /\ task[o] = "running" /\ signal[o]
  /\ task' = [task EXCEPT ![o] = "dropped"]
  /\ UNCHANGED <<future, completion, home, signal, callback, hubVars, anchor, loop,
                 loopHub, late>>

\* publish(): under the state lock.  The wake itself happens after the unlock.
Publish(o) ==
  LET h == home[o] IN
  /\ task[o] = "stored"
  /\ IF ~Open(h) \/ o \notin entries[h]
       THEN /\ task' = [task EXCEPT ![o] = "ended"]
            /\ UNCHANGED <<ready, wake_outstanding>>
       ELSE /\ ready' = [ready EXCEPT ![h] = @ \union {o}]
            /\ wake_outstanding' = [wake_outstanding EXCEPT ![h] = TRUE]
            /\ task' = [task EXCEPT ![o] =
                          IF wake_outstanding[h] THEN "ended" ELSE "claimed"]
  /\ UNCHANGED <<future, completion, home, signal, callback, phase, entries, writer,
                 bytes, receive, anchor, loop, loopHub, late>>

\* wake(): under the writer lock.  A failed write drops the endpoint, and the
\* receive sees the end of the stream.
Wake(h) ==
  /\ \/ /\ writer[h]
        /\ bytes' = [bytes EXCEPT ![h] = @ + 1]
        /\ UNCHANGED writer
     \/ /\ writer[h] /\ "write" \in Faults
        /\ writer' = [writer EXCEPT ![h] = FALSE]
        /\ UNCHANGED bytes
     \/ /\ ~writer[h]
        /\ UNCHANGED <<writer, bytes>>
  /\ UNCHANGED <<phase, entries, ready, wake_outstanding, receive>>

WorkerWake(o) ==
  /\ task[o] = "claimed"
  /\ Wake(home[o])
  /\ task' = [task EXCEPT ![o] = "ended"]
  /\ UNCHANGED <<future, completion, home, signal, callback, anchor, loop, loopHub, late>>

-----------------------------------------------------------------------------
(* Cancellation.                                                           *)

\* Cancelling a pending future schedules its done callbacks on the loop.
CancelFutures(S) ==
  LET hit == {o \in S : future[o] = "pending"} IN
  /\ future'   = [o \in Ops |-> IF o \in hit THEN "cancelled" ELSE future[o]]
  /\ callback' = [o \in Ops |-> IF o \in hit THEN "scheduled" ELSE callback[o]]

\* task.cancel(), wait_for, asyncio.timeout: the caller gives up on the await.
UserCancel(o) ==
  /\ loop = "free" /\ future[o] = "pending"
  /\ CancelFutures({o})
  /\ UNCHANGED <<completion, home, task, signal, hubVars, anchor, loop, loopHub, late>>

\* Mutant: the entry goes, but the work is never told.
CancelCallbackSilent(o) ==
  /\ loop = "free" /\ callback[o] = "scheduled"
  /\ callback' = [callback EXCEPT ![o] = "done"]
  /\ entries'  = [entries EXCEPT ![home[o]] = @ \ {o}]
  /\ loop' = "detach" /\ loopHub' = home[o]
  /\ UNCHANGED <<future, completion, home, task, signal, phase, ready,
                 wake_outstanding, writer, bytes, receive, anchor, late>>

\* PyCancelCallback.__call__: hub.cancel(id), then cancel_tx.send(()) ...
CancelCallback(o) ==
  /\ loop = "free" /\ callback[o] = "scheduled"
  /\ callback' = [callback EXCEPT ![o] = "done"]
  /\ entries'  = [entries EXCEPT ![home[o]] = @ \ {o}]
  /\ signal'   = [signal EXCEPT ![o] = TRUE]
  /\ loop' = "detach" /\ loopHub' = home[o]
  /\ UNCHANGED <<future, completion, home, task, phase, ready, wake_outstanding, writer,
                 bytes, receive, anchor, late>>

\* Mutants: wake a dry hub even when a wake-up is outstanding; never wake it.
IdleMaybeWoken(h) == Open(h) /\ entries[h] = {}
IdleLeftArmed(h)  == FALSE

\* ... then wake_if_idle(): claim a wake-up for a hub that has run dry ...
IdleUnwoken(h) == Open(h) /\ entries[h] = {} /\ ~wake_outstanding[h]
WakeIfIdle ==
  /\ loop = "detach"
  /\ IF IdleUnwoken(loopHub)
       THEN /\ wake_outstanding' = [wake_outstanding EXCEPT ![loopHub] = TRUE]
            /\ loop' = "claimed"
       ELSE loop' = "free" /\ UNCHANGED wake_outstanding
  /\ UNCHANGED <<opVars, phase, entries, ready, writer, bytes, receive, anchor, loopHub,
                 late>>

\* Mutant: the wake-up is claimed and never written.
LoopWakeForgotten ==
  /\ loop = "claimed"
  /\ loop' = "free"
  /\ UNCHANGED <<opVars, hubVars, anchor, loopHub, late>>

\* ... and write it.
LoopWake ==
  /\ loop = "claimed"
  /\ Wake(loopHub)
  /\ loop' = "free"
  /\ UNCHANGED <<opVars, anchor, loopHub, late>>

-----------------------------------------------------------------------------
(* The receive on the loop.                                                *)

\* One byte, or the end of the stream once the write end is gone.
ReadSocket(h) ==
  \/ bytes[h] > 0 /\ bytes' = [bytes EXCEPT ![h] = @ - 1]
  \/ bytes[h] = 0 /\ ~writer[h] /\ UNCHANGED bytes

ReceiveWake(h) ==
  /\ loop # "gone" /\ receive[h] = "armed"
  /\ ReadSocket(h)
  /\ receive' = [receive EXCEPT ![h] = "got"]
  /\ UNCHANGED <<opVars, phase, entries, ready, wake_outstanding, writer, anchor, loop,
                 loopHub, late>>

ReceiveFails(h) ==
  /\ "receive" \in Faults
  /\ loop # "gone" /\ receive[h] = "armed"
  /\ receive' = [receive EXCEPT ![h] = "failed"]
  /\ UNCHANGED <<opVars, phase, entries, ready, wake_outstanding, writer, bytes, anchor,
                 loop, loopHub, late>>

\* asyncio.run's shutdown cancels every task, the receive among them.  Its
\* done callback runs some turns of the loop later.
CancelReceive(h) ==
  /\ loop = "free" /\ receive[h] = "armed"
  /\ receive' = [receive EXCEPT ![h] = "cancelled"]
  /\ UNCHANGED <<opVars, phase, entries, ready, wake_outstanding, writer, bytes, anchor,
                 loop, loopHub, late>>

-----------------------------------------------------------------------------
(* The hub's callbacks.                                                    *)

\* CompletionHub::close(), and the reader with it.
CloseHub(h) ==
  /\ phase'   = [phase EXCEPT ![h] = "closed"]
  /\ entries' = [entries EXCEPT ![h] = {}]
  /\ ready'   = [ready EXCEPT ![h] = {}]
  /\ wake_outstanding' = [wake_outstanding EXCEPT ![h] = FALSE]
  /\ writer'  = [writer EXCEPT ![h] = FALSE]
  /\ bytes'   = [bytes EXCEPT ![h] = 0]
  /\ receive' = [receive EXCEPT ![h] = "none"]

\* Close the hub and cancel the future of every entry it still had.
CloseAndCancel(h) ==
  /\ CloseHub(h)
  /\ CancelFutures(entries[h])

\* `reader.close()?` raised: the callback ends there, before hub.close().
LoseReader(h) ==
  /\ "close" \in Faults
  /\ receive' = [receive EXCEPT ![h] = "lost"]
  /\ UNCHANGED <<future, callback, phase, entries, ready, wake_outstanding, writer, bytes>>

\* PyHubWakeCallback on a cancelled receive.
WakeCancelled(h) ==
  /\ loop = "free" /\ receive[h] = "cancelled"
  /\ CloseAndCancel(h) \/ LoseReader(h)
  /\ UNCHANGED <<completion, home, task, signal, anchor, loop, loopHub, late>>

\* Mutant: a done future is not skipped.
SettledAgain(o) ==
  IF completion[o] = "pending" THEN "empty" ELSE completion[o]

\* complete_entry: a done future is skipped, a result is taken out of the cell
\* and set; an exception the future refuses is reported and goes nowhere.
Settled(o) ==
  IF future[o] # "pending" THEN future[o]
  ELSE CASE completion[o] = "pending" -> "empty"
         [] completion[o] = "refused" -> "pending"
         [] OTHER -> completion[o]

\* take_ready: the entries of the queued ids.
Batch(h) == ready[h] \intersect entries[h]

\* Mutant: the drain does not give the claimed wake-up back.
TakeReadyKeepsClaim(h) ==
  /\ ready'   = [ready EXCEPT ![h] = {}]
  /\ entries' = [entries EXCEPT ![h] = @ \ ready[h]]
  /\ UNCHANGED wake_outstanding

TakeReady(h) ==
  /\ ready'   = [ready EXCEPT ![h] = {}]
  /\ wake_outstanding' = [wake_outstanding EXCEPT ![h] = FALSE]
  /\ entries' = [entries EXCEPT ![h] = @ \ ready[h]]

\* PyHubWakeCallback, first part: take_ready and complete_entry for each.
Drain(h) ==
  /\ loop = "free" /\ receive[h] \in {"got", "failed"}
  /\ TakeReady(h)
  /\ future'  = [o \in Ops |-> IF o \in Batch(h) THEN Settled(o) ELSE future[o]]
  /\ completion' = [o \in Ops |-> IF o \in Batch(h) /\ future[o] = "pending"
                                    THEN "pending" ELSE completion[o]]
  /\ receive' = [receive EXCEPT ![h] = IF @ = "got" THEN "drained" ELSE "broken"]
  /\ loop' = "settle" /\ loopHub' = h
  /\ UNCHANGED <<home, task, signal, callback, phase, writer, bytes, anchor, late>>

\* PyHubWakeCallback, second part: the receive failed, or the idle callback is
\* scheduled, or it cannot be.
Settle ==
  LET h == loopHub IN
  /\ loop = "settle"
  /\ loop' = "free"
  /\ \/ /\ receive[h] = "broken"
        /\ CloseAndCancel(h) \/ LoseReader(h)
     \/ /\ receive[h] = "drained"
        /\ receive' = [receive EXCEPT ![h] = "idle"]
        /\ UNCHANGED <<future, callback, phase, entries, ready, wake_outstanding, writer,
                       bytes>>
     \/ /\ receive[h] = "drained" /\ "call_soon" \in Faults
        /\ CloseAndCancel(h)
  /\ UNCHANGED <<completion, home, task, signal, anchor, loopHub, late>>

\* Mutant: the hub is retired without looking.
HasEntriesUnasked(h) == FALSE

\* PyHubIdleCallback: has_entries decides between re-arming and retiring.
HasEntries(h) == entries[h] # {}

Rearm(h) ==
  /\ loop = "free" /\ receive[h] = "idle" /\ HasEntries(h)
  /\ \/ /\ receive' = [receive EXCEPT ![h] = "armed"]
        /\ UNCHANGED <<future, callback, phase, entries, ready, wake_outstanding, writer,
                       bytes>>
     \/ /\ "arm" \in Faults
        /\ CloseAndCancel(h)
  /\ UNCHANGED <<completion, home, task, signal, anchor, loop, loopHub, late>>

FoundIdle(h) ==
  /\ loop = "free" /\ receive[h] = "idle" /\ ~HasEntries(h)
  /\ loop' = "retire" /\ loopHub' = h
  /\ UNCHANGED <<opVars, hubVars, anchor, late>>

Retire ==
  /\ loop = "retire"
  /\ CloseAndCancel(loopHub) \/ LoseReader(loopHub)
  /\ loop' = "free"
  /\ UNCHANGED <<completion, home, task, signal, anchor, loopHub, late>>

\* The loop is collected with its receive pending: Drop for PyCompletionHub
\* closes the hub, and no future of that loop is ever settled or cancelled.
CollectLoop ==
  /\ loop = "free"
  /\ loop' = "gone"
  /\ \/ anchor \in Hubs /\ CloseHub(anchor)
     \/ anchor = NoHub /\ UNCHANGED hubVars
  /\ UNCHANGED <<opVars, anchor, loopHub, late>>

-----------------------------------------------------------------------------

Worker(o) == DropWork(o) \/ Publish(o) \/ WorkerWake(o)

HubCallback(h) ==
  \/ ReceiveWake(h) \/ WakeCancelled(h) \/ Drain(h) \/ Rearm(h) \/ FoundIdle(h)

LoopThread == WakeIfIdle \/ LoopWake \/ Settle \/ Retire

Next ==
  \/ \E o \in Ops : \/ StartBridge(o) \/ StartBridgeFails(o) \/ UserCancel(o)
                    \/ Finish(o) \/ Worker(o) \/ CancelCallback(o)
  \/ \E h \in Hubs : HubCallback(h) \/ ReceiveFails(h) \/ CancelReceive(h)
  \/ LoopThread
  \/ CollectLoop

\* The runtime polls every task that can move; the loop finishes the callback
\* it is in and, its queue being first-in first-out, runs every callback that is
\* scheduled (strong fairness: the thread is busy with others in between).
\* Nothing obliges a caller to await or cancel, a piece of work to finish, or a
\* call to fail.
Fairness ==
  /\ \A o \in Ops : WF_vars(Worker(o)) /\ SF_vars(CancelCallback(o))
  /\ \A h \in Hubs : WF_vars(HubCallback(h))
  /\ WF_vars(LoopThread)

Spec == Init /\ [][Next]_vars

FairSpec == Spec /\ Fairness

-----------------------------------------------------------------------------
(* Safety.                                                                 *)

TypeOK ==
  /\ future     \in [Ops -> FutureStates]
  /\ completion \in [Ops -> {"pending", "ok", "error", "refused"}]
  /\ home       \in [Ops -> Hubs \union {NoHub}]
  /\ task       \in [Ops -> TaskStates]
  /\ signal     \in [Ops -> BOOLEAN]
  /\ callback   \in [Ops -> {"none", "attached", "scheduled", "done"}]
  /\ phase      \in [Hubs -> {"unborn", "open", "closed"}]
  /\ entries    \in [Hubs -> SUBSET Ops]
  /\ ready      \in [Hubs -> SUBSET Ops]
  /\ wake_outstanding \in [Hubs -> BOOLEAN]
  /\ writer     \in [Hubs -> BOOLEAN]
  /\ bytes      \in [Hubs -> Nat]
  /\ receive    \in [Hubs -> ReceiveStates]
  /\ anchor     \in Hubs \union {NoHub}
  /\ loop       \in LoopStates
  /\ loopHub    \in Hubs \union {NoHub}
  /\ late       \subseteq Ops

\* The wake-up a claimed `wake_outstanding` stands for: on its way to the
\* socket from a worker or from the loop, in the socket, or received and not
\* yet drained.
WorkerHolds(o, h) == task[o] = "claimed" /\ home[o] = h
LoopHolds(h)      == loop = "claimed" /\ loopHub = h
WakeInFlight(h) ==
  \/ \E o \in Ops : WorkerHolds(o, h)
  \/ LoopHolds(h)
  \/ bytes[h] > 0
  \/ receive[h] = "got"

\* A hub whose socket works and whose callbacks keep coming.
Healthy(h) ==
  writer[h] /\ receive[h] \in {"armed", "got", "drained", "idle", "cancelled"}

\* No lost wake-up: while a hub is healthy, an id in its queue and a claimed
\* `wake_outstanding` always have a wake-up in flight behind them, whatever the
\* order of publish, the drain and a cancellation's wake_if_idle.
NoLostWakeup ==
  \A h \in Hubs :
    Healthy(h) /\ (ready[h] # {} \/ wake_outstanding[h]) => WakeInFlight(h)

\* Never two wake-ups at once: at most one of the four holders has the token,
\* so the blocking one-byte write cannot fill the socket and stall a worker.
OneWakeup ==
  \A h \in Hubs : Healthy(h) =>
    /\ bytes[h] <= 1
    /\ \A o, p \in Ops : WorkerHolds(o, h) /\ WorkerHolds(p, h) => o = p
    /\ \A o \in Ops : WorkerHolds(o, h) =>
          ~LoopHolds(h) /\ bytes[h] = 0 /\ receive[h] # "got"
    /\ LoopHolds(h) => bytes[h] = 0 /\ receive[h] # "got"
    /\ receive[h] = "got" => bytes[h] = 0

\* A wake-up never arrives without its result: no operation is answered with
\* "the async completion wakeup arrived without a result" (complete_entry).
NeverEmptyHanded == \A o \in Ops : future[o] # "empty"

\* A loop has one open hub, the one its weak map names, so a registration can
\* never land in a hub whose receive nobody watches.
OneOpenHub == \A h \in Hubs : Open(h) => anchor = h

\* Retiring a hub cancels nobody: between has_entries and close no operation
\* can have registered.
RetiresEmpty == loop = "retire" => entries[loopHub] = {}

\* A hub that has served an operation and has run dry is woken or about to be:
\* it does not sit on the loop with a receive nothing will ever complete.
DryHubIsWoken ==
  \A h \in Hubs :
    /\ Healthy(h) /\ receive[h] = "armed" /\ entries[h] = {}
    /\ \E o \in Ops : home[o] = h
    => wake_outstanding[h] \/ (loop = "detach" /\ loopHub = h)

-----------------------------------------------------------------------------
(* Actions.                                                                *)

\* Loop shutdown spares what begins after it: an operation that registers once
\* the receive's cancellation is on its way (the graceful teardown an
\* `async with` block awaits while its task unwinds) is not cancelled by it.
ShutdownSparesLateOps ==
  [][\A h \in Hubs : receive[h] = "cancelled" /\ ~Open(h)' =>
       \A o \in late \intersect entries[h] : future'[o] = future[o]]_vars

-----------------------------------------------------------------------------
(* Liveness.                                                               *)

\* A callback whose reader.close() raised has left the hub open and dead.
Lost(o) == home[o] \in Hubs /\ receive[home[o]] = "lost"

\* Every outcome the runtime stores reaches a future that still waits for it,
\* unless the loop itself is gone.
Delivered ==
  \A o \in Ops :
    task[o] = "stored" ~> (future[o] # "pending" \/ loop = "gone" \/ Lost(o))

\* Cancelling an await ends the work behind it: the process tree it owns goes.
CancelEndsWork ==
  \A o \in Ops :
    future[o] = "cancelled" ~> (task[o] \in {"dropped", "ended"} \/ loop = "gone")

\* A hub that has served an operation and has none left is retired (or gets a
\* new one): no pending sock_recv outlives the work.
DryHubRetires ==
  \A h \in Hubs :
    Open(h) /\ entries[h] = {} /\ (\E o \in Ops : home[o] = h)
      ~> (~Open(h) \/ entries[h] # {} \/ receive[h] = "lost")

-----------------------------------------------------------------------------
(* The hub implements the abstract operations.  An outcome that has been   *)
(* set is out of its cell, and so is one the future refused: its task has  *)
(* published it, the cell is empty and the future has nothing.             *)

TakenInVain(o) == completion[o] = "pending" /\ task[o] \in {"claimed", "ended"}

AbstractFuture ==
  [o \in Ops |-> IF future[o] = "spent" THEN "none" ELSE future[o]]

AbstractOutcome ==
  [o \in Ops |-> IF future[o] \in {"ok", "error"} THEN future[o]
                 ELSE IF TakenInVain(o) THEN "refused" ELSE completion[o]]

Abstract == INSTANCE AsyncOps WITH
  future <- AbstractFuture, outcome <- AbstractOutcome

ImplementsAsyncOps == Abstract!Spec

=============================================================================
