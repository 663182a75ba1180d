------------------------ MODULE CompletionHubProofs ------------------------
(***************************************************************************)
(* Theorems about CompletionHub, for any sets of operations and hubs and   *)
(* any set of calls that may fail.                                         *)
(***************************************************************************)
EXTENDS CompletionHub, TLAPS

(***************************************************************************)
(* The inductive invariant, in four parts.  Shape says which hub an       *)
(* operation and the loop's current callback belong to and that a closed   *)
(* hub holds nothing.  Token says that `wake_outstanding` and a wake-up in *)
(* flight are the same thing.  Results follows an outcome from its cell to *)
(* the queue.  Unanswered and Awaited say where a waiting operation's      *)
(* answer is until it is given.                                            *)
(***************************************************************************)

ClosedHoldsNothing ==
  \A h \in Hubs : ~Open(h) =>
    /\ entries[h] = {} /\ ready[h] = {}
    /\ ~wake_outstanding[h] /\ ~writer[h] /\ bytes[h] = 0 /\ receive[h] = "none"

\* An operation that has begun has a hub, and that hub has been created.
Registered ==
  \A o \in Ops :
    /\ home[o] = NoHub => task[o] = "none" /\ callback[o] = "none"
                          /\ future[o] \in {"none", "spent"}
    /\ future[o] \in {"none", "spent"} => home[o] = NoHub
    /\ \A h \in Hubs :
         /\ home[o] = h => phase[h] # "unborn"
         /\ o \in entries[h] => home[o] = h
         /\ o \in ready[h] => home[o] = h

\* What the loop thread is in the middle of fits the hub it does it to.
LoopShape ==
  /\ loop \in {"settle", "retire", "detach", "claimed"} => loopHub \in Hubs
  /\ loop = "settle" => receive[loopHub] \in {"drained", "broken"}
  /\ loop = "retire" => receive[loopHub] = "idle" /\ entries[loopHub] = {}

Shape == OneOpenHub /\ ClosedHoldsNothing /\ Registered /\ LoopShape

QueueIsClaimed == \A h \in Hubs : ready[h] # {} => wake_outstanding[h]

ClaimIsWakeup ==
  \A h \in Hubs : Healthy(h) => (wake_outstanding[h] <=> WakeInFlight(h))

Token == QueueIsClaimed /\ ClaimIsWakeup /\ OneWakeup

Results ==
  /\ NeverEmptyHanded
  /\ \A o \in Ops : task[o] = "stored" => completion[o] # "pending"
  /\ \A o \in Ops : \A h \in Hubs : o \in ready[h] =>
       completion[o] # "pending" /\ task[o] \in {"claimed", "ended"}

\* The cell is filled once, by the task, and until then nothing is answered.
Unanswered ==
  \A o \in Ops : task[o] \in {"none", "running"} =>
    completion[o] = "pending" /\ future[o] \notin {"ok", "error"}

\* An operation with a hub has a task.
Started == \A o \in Ops : task[o] = "none" => home[o] = NoHub

\* A future that waits on a live loop has its entry, a result that has been
\* published for an entry is queued, and only a cancellation drops work.
Awaited ==
  \A o \in Ops :
    /\ future[o] = "pending" /\ loop # "gone" =>
         TakenInVain(o) \/ \E h \in Hubs : o \in entries[h]
    /\ \A h \in Hubs : o \in entries[h] =>
         /\ future[o] \in {"pending", "cancelled"}
         /\ task[o] \in {"claimed", "ended"} => o \in ready[h]
    /\ future[o] = "cancelled" <=> callback[o] \in {"scheduled", "done"}
    /\ signal[o] <=> callback[o] = "done"
    /\ task[o] = "dropped" => signal[o]

IInv ==
  Shape /\ Token /\ Results /\ Started /\ Unanswered /\ Awaited /\ DryHubIsWoken

-----------------------------------------------------------------------------
(* Types.                                                                  *)

USE DEF Open

\* The case analysis every step proof below makes: one case for each action.
LEMMA NextCases ==
  ASSUME Next
  PROVE  \/ \E o \in Ops : \/ StartBridge(o) \/ StartBridgeFails(o) \/ UserCancel(o)
                            \/ Finish(o) \/ DropWork(o) \/ Publish(o)
                            \/ WorkerWake(o) \/ CancelCallback(o)
         \/ \E h \in Hubs : \/ ReceiveWake(h) \/ WakeCancelled(h) \/ Drain(h)
                             \/ Rearm(h) \/ FoundIdle(h) \/ ReceiveFails(h)
                             \/ CancelReceive(h)
         \/ WakeIfIdle \/ LoopWake \/ Settle \/ Retire \/ CollectLoop
  BY DEF Next, Worker, HubCallback, LoopThread

\* Closing a hub keeps the types of its variables.
LEMMA CloseTypes ==
  ASSUME TypeOK, NEW h \in Hubs, CloseHub(h)
  PROVE  /\ phase' \in [Hubs -> {"unborn", "open", "closed"}]
         /\ entries' \in [Hubs -> SUBSET Ops] /\ ready' \in [Hubs -> SUBSET Ops]
         /\ wake_outstanding' \in [Hubs -> BOOLEAN] /\ writer' \in [Hubs -> BOOLEAN]
         /\ bytes' \in [Hubs -> Nat] /\ receive' \in [Hubs -> ReceiveStates]
  BY DEF TypeOK, CloseHub, ReceiveStates

\* Cancelling futures keeps the types of the operations' variables.
LEMMA CancelTypes ==
  ASSUME TypeOK, NEW S, CancelFutures(S)
  PROVE  /\ future' \in [Ops -> FutureStates]
         /\ callback' \in [Ops -> {"none", "attached", "scheduled", "done"}]
  BY DEF TypeOK, CancelFutures, FutureStates

\* A write to the socket keeps the types of its variables.
LEMMA WakeTypes ==
  ASSUME TypeOK, NEW h, Wake(h)
  PROVE  bytes' \in [Hubs -> Nat] /\ writer' \in [Hubs -> BOOLEAN]
<1>1. /\ bytes' = bytes \/ bytes' = [bytes EXCEPT ![h] = bytes[h] + 1]
      /\ writer' = writer \/ writer' = [writer EXCEPT ![h] = FALSE]
  BY DEF Wake
<1>2. writer' \in [Hubs -> BOOLEAN]
  BY <1>1 DEF TypeOK
<1>3. bytes' \in [Hubs -> Nat]
  <2>1. \A k \in Hubs : bytes[k] \in Nat
    BY DEF TypeOK
  <2> QED BY <1>1, <2>1 DEF TypeOK
<1> QED BY <1>2, <1>3

\* Every step keeps the types.
LEMMA TypeStep == TypeOK /\ [Next]_vars => TypeOK'
<1> SUFFICES ASSUME TypeOK, [Next]_vars PROVE TypeOK'
  OBVIOUS
<1> USE DEF TypeOK, opVars, hubVars
<1>1. ASSUME NEW o \in Ops, StartBridge(o) PROVE TypeOK'
  <2>1. PICK h \in Hubs :
          /\ ReuseHub(h) \/ CreateHub(h)
          /\ entries' = [entries EXCEPT ![h] = @ \union {o}]
          /\ home' = [home EXCEPT ![o] = h]
          /\ late' = IF receive[h] = "cancelled" THEN late \union {o} ELSE late
    BY <1>1 DEF StartBridge
  <2>2. /\ future' \in [Ops -> FutureStates] /\ task' \in [Ops -> TaskStates]
        /\ callback' \in [Ops -> {"none", "attached", "scheduled", "done"}]
    BY <1>1 DEF StartBridge, FutureStates, TaskStates
  <2>3. /\ entries' \in [Hubs -> SUBSET Ops] /\ home' \in [Ops -> Hubs \union {NoHub}]
        /\ late' \subseteq Ops
    BY <2>1
  <2>4. UNCHANGED <<completion, signal, loop, loopHub>>
    BY <1>1 DEF StartBridge
  <2>5. CASE ReuseHub(h)
    BY <2>2, <2>3, <2>4, <2>5 DEF ReuseHub
  <2>6. CASE CreateHub(h)
    BY <2>2, <2>3, <2>4, <2>6 DEF CreateHub, ReceiveStates
  <2> QED BY <2>1, <2>5, <2>6
<1>2. ASSUME NEW o \in Ops, StartBridgeFails(o) PROVE TypeOK'
  BY <1>2, ZenonT(40) DEF StartBridgeFails, ReuseHub, CreateHub, FutureStates, ReceiveStates
<1>3. ASSUME NEW o \in Ops, UserCancel(o) PROVE TypeOK'
  <2>1. CancelFutures({o}) BY <1>3 DEF UserCancel
  <2> QED BY <1>3, <2>1, CancelTypes DEF UserCancel
<1>4. ASSUME NEW o \in Ops, Finish(o) PROVE TypeOK'
  BY <1>4 DEF Finish, Outcomes, TaskStates
<1>5. ASSUME NEW o \in Ops, DropWork(o) PROVE TypeOK'
  BY <1>5 DEF DropWork, TaskStates
<1>6. ASSUME NEW o \in Ops, Publish(o) PROVE TypeOK'
  <2>1. task' \in [Ops -> TaskStates]
    <3>1. \E s \in TaskStates : task' = [task EXCEPT ![o] = s]
      BY <1>6 DEF Publish, TaskStates
    <3> QED BY <3>1
  <2>2. ready' \in [Hubs -> SUBSET Ops]
    <3>1. ready' = ready \/ ready' = [ready EXCEPT ![home[o]] = @ \union {o}]
      BY <1>6 DEF Publish
    <3> QED BY <3>1
  <2>3. wake_outstanding' \in [Hubs -> BOOLEAN]
    <3>1. \/ wake_outstanding' = wake_outstanding
          \/ wake_outstanding' = [wake_outstanding EXCEPT ![home[o]] = TRUE]
      BY <1>6 DEF Publish
    <3> QED BY <3>1
  <2> QED BY <1>6, <2>1, <2>2, <2>3 DEF Publish
<1>7. ASSUME NEW o \in Ops, WorkerWake(o) PROVE TypeOK'
  <2>1. Wake(home[o]) BY <1>7 DEF WorkerWake
  <2>2. bytes' \in [Hubs -> Nat] /\ writer' \in [Hubs -> BOOLEAN]
    BY <2>1, WakeTypes
  <2> QED BY <1>7, <2>1, <2>2 DEF WorkerWake, Wake, TaskStates
<1>8. ASSUME NEW o \in Ops, CancelCallback(o) PROVE TypeOK'
  BY <1>8 DEF CancelCallback, LoopStates
<1>9. ASSUME NEW h \in Hubs, ReceiveWake(h) PROVE TypeOK'
  BY <1>9 DEF ReceiveWake, ReadSocket, ReceiveStates
<1>10. ASSUME NEW h \in Hubs, WakeCancelled(h) PROVE TypeOK'
  <2>1. CASE CloseAndCancel(h)
    <3>1. CloseHub(h) /\ CancelFutures(entries[h]) BY <2>1 DEF CloseAndCancel
    <3> QED BY <1>10, <3>1, CloseTypes, CancelTypes DEF WakeCancelled
  <2>2. CASE LoseReader(h)
    BY <1>10, <2>2 DEF WakeCancelled, LoseReader, ReceiveStates
  <2> QED BY <1>10, <2>1, <2>2 DEF WakeCancelled
<1>11. ASSUME NEW h \in Hubs, Drain(h) PROVE TypeOK'
  <2>1. \A o \in Batch(h) : Settled(o) \in FutureStates
    BY DEF Settled, FutureStates, Batch
  <2>2. future' \in [Ops -> FutureStates]
    BY <1>11, <2>1 DEF Drain
  <2>3. entries' \in [Hubs -> SUBSET Ops] /\ ready' \in [Hubs -> SUBSET Ops]
        /\ wake_outstanding' \in [Hubs -> BOOLEAN]
    BY <1>11 DEF Drain, TakeReady
  <2> QED BY <1>11, <2>2, <2>3 DEF Drain, ReceiveStates, LoopStates
<1>12. ASSUME NEW h \in Hubs, Rearm(h) PROVE TypeOK'
  <2>1. CASE CloseAndCancel(h)
    <3>1. CloseHub(h) /\ CancelFutures(entries[h]) BY <2>1 DEF CloseAndCancel
    <3> QED BY <1>12, <3>1, CloseTypes, CancelTypes DEF Rearm
  <2> QED BY <1>12, <2>1 DEF Rearm, ReceiveStates
<1>13. ASSUME NEW h \in Hubs, FoundIdle(h) PROVE TypeOK'
  BY <1>13 DEF FoundIdle, LoopStates
<1>14. ASSUME NEW h \in Hubs, ReceiveFails(h) PROVE TypeOK'
  BY <1>14 DEF ReceiveFails, ReceiveStates
<1>15. ASSUME NEW h \in Hubs, CancelReceive(h) PROVE TypeOK'
  BY <1>15 DEF CancelReceive, ReceiveStates
<1>16. CASE WakeIfIdle
  BY <1>16 DEF WakeIfIdle, LoopStates
<1>17. CASE LoopWake
  <2>1. Wake(loopHub) BY <1>17 DEF LoopWake
  <2>2. bytes' \in [Hubs -> Nat] /\ writer' \in [Hubs -> BOOLEAN]
    BY <2>1, WakeTypes
  <2> QED BY <1>17, <2>1, <2>2 DEF LoopWake, Wake, LoopStates
<1>18. CASE Settle
  <2>1. CASE CloseAndCancel(loopHub)
    <3>1. CloseHub(loopHub) /\ CancelFutures(entries[loopHub])
      BY <2>1 DEF CloseAndCancel
    <3>2. phase' \in [Hubs -> {"unborn", "open", "closed"}]
      BY <3>1 DEF CloseHub
    <3>3. /\ entries' \in [Hubs -> SUBSET Ops] /\ ready' \in [Hubs -> SUBSET Ops]
          /\ wake_outstanding' \in [Hubs -> BOOLEAN] /\ writer' \in [Hubs -> BOOLEAN]
          /\ bytes' \in [Hubs -> Nat] /\ receive' \in [Hubs -> ReceiveStates]
      BY <3>1 DEF CloseHub, ReceiveStates
    <3> QED BY <1>18, <3>1, <3>2, <3>3, CancelTypes DEF Settle, LoopStates
  <2> QED BY <1>18, <2>1 DEF Settle, LoseReader, ReceiveStates, LoopStates
<1>19. CASE Retire
  <2>1. CASE CloseAndCancel(loopHub)
    <3>1. CloseHub(loopHub) /\ CancelFutures(entries[loopHub])
      BY <2>1 DEF CloseAndCancel
    <3>2. /\ phase' \in [Hubs -> {"unborn", "open", "closed"}]
          /\ entries' \in [Hubs -> SUBSET Ops] /\ ready' \in [Hubs -> SUBSET Ops]
          /\ wake_outstanding' \in [Hubs -> BOOLEAN] /\ writer' \in [Hubs -> BOOLEAN]
          /\ bytes' \in [Hubs -> Nat] /\ receive' \in [Hubs -> ReceiveStates]
      BY <3>1 DEF CloseHub, ReceiveStates
    <3> QED BY <1>19, <3>1, <3>2, CancelTypes DEF Retire, LoopStates
  <2> QED BY <1>19, <2>1 DEF Retire, LoseReader, ReceiveStates, LoopStates
<1>20. CASE CollectLoop
  BY <1>20, CloseTypes DEF CollectLoop, LoopStates
<1>21. CASE UNCHANGED vars
  BY <1>21 DEF vars
<1> QED
  BY <1>1, <1>2, <1>3, <1>4, <1>5, <1>6, <1>7, <1>8, <1>9, <1>10, <1>11, <1>12, <1>13,
     <1>14, <1>15, <1>16, <1>17, <1>18, <1>19, <1>20, <1>21, NextCases

\* Every variable of the hand-off keeps its type, for any number of operations
\* and hubs and whichever calls fail.
THEOREM TypeCorrect == Spec => []TypeOK
<1>1. Init => TypeOK
  BY DEF Init, TypeOK, FutureStates, TaskStates, ReceiveStates, LoopStates
<1> QED BY <1>1, TypeStep, PTL DEF Spec

-----------------------------------------------------------------------------
(* The inductive step.  One lemma for each part of the invariant, one step *)
(* of it for each action.  Shape stands on its own; the rest uses it.      *)

\* A hub is opened only when the loop has none, and becomes its anchor.
LEMMA OpenHubStep ==
  ASSUME TypeOK, Shape, [Next]_vars PROVE OneOpenHub'
<1> USE DEF TypeOK, opVars, hubVars, Shape, OneOpenHub, ClosedHoldsNothing
<1>1. ASSUME NEW o \in Ops, StartBridge(o) PROVE OneOpenHub'
  BY <1>1 DEF StartBridge, ReuseHub, CreateHub, HubIsOpen
<1>2. ASSUME NEW o \in Ops, StartBridgeFails(o) PROVE OneOpenHub'
  BY <1>2 DEF StartBridgeFails, ReuseHub, CreateHub, HubIsOpen
<1>3. ASSUME NEW o \in Ops, UserCancel(o) PROVE OneOpenHub'
  BY <1>3 DEF UserCancel, CancelFutures
<1>4. ASSUME NEW o \in Ops, Finish(o) PROVE OneOpenHub'
  BY <1>4 DEF Finish, Outcomes
<1>5. ASSUME NEW o \in Ops, DropWork(o) PROVE OneOpenHub'
  BY <1>5 DEF DropWork
<1>6. ASSUME NEW o \in Ops, Publish(o) PROVE OneOpenHub'
  BY <1>6 DEF Publish
<1>7. ASSUME NEW o \in Ops, WorkerWake(o) PROVE OneOpenHub'
  BY <1>7 DEF WorkerWake, Wake
<1>8. ASSUME NEW o \in Ops, CancelCallback(o) PROVE OneOpenHub'
  BY <1>8 DEF CancelCallback
<1>9. ASSUME NEW h \in Hubs, ReceiveWake(h) PROVE OneOpenHub'
  BY <1>9 DEF ReceiveWake, ReadSocket
<1>10. ASSUME NEW h \in Hubs, WakeCancelled(h) PROVE OneOpenHub'
  BY <1>10 DEF WakeCancelled, CloseAndCancel, CloseHub,
               CancelFutures, LoseReader
<1>11. ASSUME NEW h \in Hubs, Drain(h) PROVE OneOpenHub'
  BY <1>11 DEF Drain, TakeReady, Batch, Settled
<1>12. ASSUME NEW h \in Hubs, Rearm(h) PROVE OneOpenHub'
  BY <1>12 DEF Rearm, HasEntries, CloseAndCancel, CloseHub, CancelFutures
<1>13. ASSUME NEW h \in Hubs, FoundIdle(h) PROVE OneOpenHub'
  BY <1>13 DEF FoundIdle, HasEntries
<1>14. ASSUME NEW h \in Hubs, ReceiveFails(h) PROVE OneOpenHub'
  BY <1>14 DEF ReceiveFails
<1>15. ASSUME NEW h \in Hubs, CancelReceive(h) PROVE OneOpenHub'
  BY <1>15 DEF CancelReceive
<1>16. CASE WakeIfIdle
  BY <1>16 DEF WakeIfIdle, IdleUnwoken
<1>17. CASE LoopWake
  BY <1>17 DEF LoopWake, Wake
<1>18. CASE Settle
  BY <1>18 DEF Settle, CloseAndCancel, CloseHub, CancelFutures, LoseReader
<1>19. CASE Retire
  BY <1>19 DEF Retire, CloseAndCancel, CloseHub, CancelFutures, LoseReader
<1>20. CASE CollectLoop
  BY <1>20 DEF CollectLoop, CloseHub
<1>21. CASE UNCHANGED vars
  BY <1>21 DEF vars
<1> QED
  BY <1>1, <1>2, <1>3, <1>4, <1>5, <1>6, <1>7, <1>8, <1>9, <1>10, <1>11, <1>12,
     <1>13, <1>14, <1>15, <1>16, <1>17, <1>18, <1>19, <1>20, <1>21, NextCases

\* close() empties the hub, and no late publish, wake or callback refills it.
LEMMA ClosedStep ==
  ASSUME TypeOK, Shape, [Next]_vars PROVE ClosedHoldsNothing'
<1> USE DEF TypeOK, opVars, hubVars, Shape, OneOpenHub, ClosedHoldsNothing, Registered,
           LoopShape
<1>1. ASSUME NEW o \in Ops, StartBridge(o) PROVE ClosedHoldsNothing'
  BY <1>1 DEF StartBridge, ReuseHub, CreateHub, HubIsOpen
<1>2. ASSUME NEW o \in Ops, StartBridgeFails(o) PROVE ClosedHoldsNothing'
  BY <1>2 DEF StartBridgeFails, ReuseHub, CreateHub, HubIsOpen
<1>3. ASSUME NEW o \in Ops, UserCancel(o) PROVE ClosedHoldsNothing'
  BY <1>3 DEF UserCancel, CancelFutures
<1>4. ASSUME NEW o \in Ops, Finish(o) PROVE ClosedHoldsNothing'
  BY <1>4 DEF Finish, Outcomes
<1>5. ASSUME NEW o \in Ops, DropWork(o) PROVE ClosedHoldsNothing'
  BY <1>5 DEF DropWork
<1>6. ASSUME NEW o \in Ops, Publish(o) PROVE ClosedHoldsNothing'
  BY <1>6 DEF Publish
<1>7. ASSUME NEW o \in Ops, WorkerWake(o) PROVE ClosedHoldsNothing'
  BY <1>7 DEF WorkerWake, Wake
<1>8. ASSUME NEW o \in Ops, CancelCallback(o) PROVE ClosedHoldsNothing'
  BY <1>8 DEF CancelCallback
<1>9. ASSUME NEW h \in Hubs, ReceiveWake(h) PROVE ClosedHoldsNothing'
  BY <1>9 DEF ReceiveWake, ReadSocket
<1>10. ASSUME NEW h \in Hubs, WakeCancelled(h) PROVE ClosedHoldsNothing'
  BY <1>10 DEF WakeCancelled, CloseAndCancel, CloseHub,
               CancelFutures, LoseReader
<1>11. ASSUME NEW h \in Hubs, Drain(h) PROVE ClosedHoldsNothing'
  BY <1>11 DEF Drain, TakeReady, Batch, Settled
<1>12. ASSUME NEW h \in Hubs, Rearm(h) PROVE ClosedHoldsNothing'
  BY <1>12 DEF Rearm, HasEntries, CloseAndCancel, CloseHub, CancelFutures
<1>13. ASSUME NEW h \in Hubs, FoundIdle(h) PROVE ClosedHoldsNothing'
  BY <1>13 DEF FoundIdle, HasEntries
<1>14. ASSUME NEW h \in Hubs, ReceiveFails(h) PROVE ClosedHoldsNothing'
  BY <1>14 DEF ReceiveFails
<1>15. ASSUME NEW h \in Hubs, CancelReceive(h) PROVE ClosedHoldsNothing'
  BY <1>15 DEF CancelReceive
<1>16. CASE WakeIfIdle
  BY <1>16 DEF WakeIfIdle, IdleUnwoken
<1>17. CASE LoopWake
  BY <1>17 DEF LoopWake, Wake
<1>18. CASE Settle
  BY <1>18 DEF Settle, CloseAndCancel, CloseHub, CancelFutures, LoseReader
<1>19. CASE Retire
  BY <1>19 DEF Retire, CloseAndCancel, CloseHub, CancelFutures, LoseReader
<1>20. CASE CollectLoop
  BY <1>20 DEF CollectLoop, CloseHub
<1>21. CASE UNCHANGED vars
  BY <1>21 DEF vars
<1> QED
  BY <1>1, <1>2, <1>3, <1>4, <1>5, <1>6, <1>7, <1>8, <1>9, <1>10, <1>11, <1>12,
     <1>13, <1>14, <1>15, <1>16, <1>17, <1>18, <1>19, <1>20, <1>21, NextCases

\* Closing a hub only takes entries and ids away, and what it cancels was
\* pending, hence registered.
LEMMA CancelledRegistered ==
  ASSUME TypeOK, Registered, UNCHANGED <<home, task>>,
         UNCHANGED <<future, callback>> \/ \E S : CancelFutures(S),
         \A k \in Hubs : /\ phase[k] # "unborn" => phase'[k] # "unborn"
                        /\ entries'[k] \subseteq entries[k]
                        /\ ready'[k] \subseteq ready[k]
  PROVE  Registered'
<1>1. ASSUME NEW o \in Ops
      PROVE  /\ home[o] = NoHub => future'[o] = future[o] /\ callback'[o] = callback[o]
             /\ future'[o] \in {"none", "spent"} => future'[o] = future[o]
  <2>1. CASE UNCHANGED <<future, callback>>
    BY <2>1
  <2>2. CASE \E S : CancelFutures(S)
    BY <2>2 DEF CancelFutures, Registered
  <2> QED BY <2>1, <2>2
<1> QED BY <1>1 DEF Registered

\* Entries and queued ids belong to the hub their operation registered with.
LEMMA RegisteredStep ==
  ASSUME TypeOK, Shape, [Next]_vars PROVE Registered'
<1> USE DEF TypeOK, opVars, hubVars, Shape, ClosedHoldsNothing, Registered, LoopShape
<1>1. ASSUME NEW o \in Ops, StartBridge(o) PROVE Registered'
  <2>1. PICK h \in Hubs :
          /\ ReuseHub(h) \/ CreateHub(h)
          /\ entries' = [entries EXCEPT ![h] = @ \union {o}]
          /\ home' = [home EXCEPT ![o] = h]
    BY <1>1 DEF StartBridge
  <2>2. /\ task' = [task EXCEPT ![o] = "running"]
        /\ callback' = [callback EXCEPT ![o] = "attached"]
        /\ future' = [future EXCEPT ![o] = "pending"]
        /\ loop = "free" /\ UNCHANGED <<loop, loopHub>>
        /\ home[o] = NoHub /\ task[o] = "none"
    BY <1>1 DEF StartBridge
  <2>3. \A k \in Hubs : ready'[k] = ready[k] /\ (phase[k] # "unborn" => phase'[k] # "unborn")
    BY <2>1 DEF ReuseHub, CreateHub
  <2>4. phase'[h] # "unborn"
    BY <2>1 DEF ReuseHub, CreateHub
  <2>5. o \notin ready[h] /\ \A k \in Hubs : o \notin entries[k] /\ o \notin ready[k]
    BY <2>2, NoHubAssumption
  <2>6. home'[o] = h /\ h # NoHub /\ \A p \in Ops : p # o => home'[p] = home[p]
    BY <2>1, NoHubAssumption
  <2>7. \A p \in Ops : \A k \in Hubs : p # o => (p \in entries'[k] <=> p \in entries[k])
    BY <2>1
  <2>8. \A k \in Hubs : o \in entries'[k] => k = h
    BY <2>1, <2>5
  <2> QED BY <2>2, <2>3, <2>4, <2>5, <2>6, <2>7, <2>8
<1>2. ASSUME NEW o \in Ops, StartBridgeFails(o) PROVE Registered'
  BY <1>2 DEF StartBridgeFails, ReuseHub, CreateHub, HubIsOpen
<1>3. ASSUME NEW o \in Ops, UserCancel(o) PROVE Registered'
  BY <1>3 DEF UserCancel, CancelFutures
<1>4. ASSUME NEW o \in Ops, Finish(o) PROVE Registered'
  BY <1>4 DEF Finish, Outcomes
<1>5. ASSUME NEW o \in Ops, DropWork(o) PROVE Registered'
  BY <1>5 DEF DropWork
<1>6. ASSUME NEW o \in Ops, Publish(o) PROVE Registered'
  BY <1>6 DEF Publish
<1>7. ASSUME NEW o \in Ops, WorkerWake(o) PROVE Registered'
  BY <1>7 DEF WorkerWake, Wake
<1>8. ASSUME NEW o \in Ops, CancelCallback(o) PROVE Registered'
  BY <1>8 DEF CancelCallback
<1>9. ASSUME NEW h \in Hubs, ReceiveWake(h) PROVE Registered'
  BY <1>9 DEF ReceiveWake, ReadSocket
<1>10. ASSUME NEW h \in Hubs, WakeCancelled(h) PROVE Registered'
  <2>1. /\ UNCHANGED <<home, task>>
        /\ \A k \in Hubs : /\ phase[k] # "unborn" => phase'[k] # "unborn"
                          /\ entries'[k] \subseteq entries[k]
                          /\ ready'[k] \subseteq ready[k]
    BY <1>10 DEF WakeCancelled, CloseAndCancel, CloseHub, LoseReader
  <2>2. UNCHANGED <<future, callback>> \/ \E S : CancelFutures(S)
    BY <1>10 DEF WakeCancelled, CloseAndCancel, LoseReader
  <2> QED BY <2>1, <2>2, CancelledRegistered
<1>11. ASSUME NEW h \in Hubs, Drain(h) PROVE Registered'
  <2>1. /\ UNCHANGED <<home, task, callback, phase>>
        /\ \A k \in Hubs : entries'[k] \subseteq entries[k] /\ ready'[k] \subseteq ready[k]
    BY <1>11 DEF Drain, TakeReady
  <2>2. \A p \in Batch(h) : p \in Ops /\ home[p] = h
    BY DEF Batch
  <2>3. \A p \in Ops : home[p] = NoHub => future'[p] = future[p]
    BY <1>11, <2>2, NoHubAssumption DEF Drain
  <2>4. \A p \in Ops : future'[p] \in {"none", "spent"} => home[p] = NoHub
    BY <1>11 DEF Drain, Settled
  <2> QED BY <2>1, <2>3, <2>4
<1>12. ASSUME NEW h \in Hubs, Rearm(h) PROVE Registered'
  <2>1. /\ UNCHANGED <<home, task>>
        /\ \A k \in Hubs : /\ phase[k] # "unborn" => phase'[k] # "unborn"
                          /\ entries'[k] \subseteq entries[k]
                          /\ ready'[k] \subseteq ready[k]
    BY <1>12 DEF Rearm, CloseAndCancel, CloseHub, LoseReader
  <2>2. UNCHANGED <<future, callback>> \/ \E S : CancelFutures(S)
    BY <1>12 DEF Rearm, CloseAndCancel, LoseReader
  <2> QED BY <2>1, <2>2, CancelledRegistered
<1>13. ASSUME NEW h \in Hubs, FoundIdle(h) PROVE Registered'
  BY <1>13 DEF FoundIdle, HasEntries
<1>14. ASSUME NEW h \in Hubs, ReceiveFails(h) PROVE Registered'
  BY <1>14 DEF ReceiveFails
<1>15. ASSUME NEW h \in Hubs, CancelReceive(h) PROVE Registered'
  BY <1>15 DEF CancelReceive
<1>16. CASE WakeIfIdle
  BY <1>16 DEF WakeIfIdle, IdleUnwoken
<1>17. CASE LoopWake
  BY <1>17 DEF LoopWake, Wake
<1>18. CASE Settle
  <2>1. /\ UNCHANGED <<home, task>>
        /\ \A k \in Hubs : /\ phase[k] # "unborn" => phase'[k] # "unborn"
                          /\ entries'[k] \subseteq entries[k]
                          /\ ready'[k] \subseteq ready[k]
    BY <1>18 DEF Settle, CloseAndCancel, CloseHub, LoseReader
  <2>2. UNCHANGED <<future, callback>> \/ \E S : CancelFutures(S)
    BY <1>18 DEF Settle, CloseAndCancel, LoseReader
  <2> QED BY <2>1, <2>2, CancelledRegistered
<1>19. CASE Retire
  <2>1. /\ UNCHANGED <<home, task>>
        /\ \A k \in Hubs : /\ phase[k] # "unborn" => phase'[k] # "unborn"
                          /\ entries'[k] \subseteq entries[k]
                          /\ ready'[k] \subseteq ready[k]
    BY <1>19, SMTT(20) DEF Retire, CloseAndCancel, CloseHub, LoseReader
  <2>2. UNCHANGED <<future, callback>> \/ \E S : CancelFutures(S)
    BY <1>19 DEF Retire, CloseAndCancel, LoseReader
  <2> QED BY <2>1, <2>2, CancelledRegistered
<1>20. CASE CollectLoop
  BY <1>20, SMTT(20) DEF CollectLoop, CloseHub
<1>21. CASE UNCHANGED vars
  BY <1>21 DEF vars
<1> QED
  BY <1>1, <1>2, <1>3, <1>4, <1>5, <1>6, <1>7, <1>8, <1>9, <1>10, <1>11, <1>12,
     <1>13, <1>14, <1>15, <1>16, <1>17, <1>18, <1>19, <1>20, <1>21, NextCases

\* Only the loop itself moves the receive while it is inside a callback.
LEMMA LoopShapeStep ==
  ASSUME TypeOK, Shape, [Next]_vars PROVE LoopShape'
<1> USE DEF TypeOK, opVars, hubVars, Shape, ClosedHoldsNothing, Registered, LoopShape
<1>1. ASSUME NEW o \in Ops, StartBridge(o) PROVE LoopShape'
  BY <1>1 DEF StartBridge, ReuseHub, CreateHub, HubIsOpen
<1>2. ASSUME NEW o \in Ops, StartBridgeFails(o) PROVE LoopShape'
  BY <1>2 DEF StartBridgeFails, ReuseHub, CreateHub, HubIsOpen
<1>3. ASSUME NEW o \in Ops, UserCancel(o) PROVE LoopShape'
  BY <1>3 DEF UserCancel, CancelFutures
<1>4. ASSUME NEW o \in Ops, Finish(o) PROVE LoopShape'
  BY <1>4 DEF Finish, Outcomes
<1>5. ASSUME NEW o \in Ops, DropWork(o) PROVE LoopShape'
  BY <1>5 DEF DropWork
<1>6. ASSUME NEW o \in Ops, Publish(o) PROVE LoopShape'
  BY <1>6 DEF Publish
<1>7. ASSUME NEW o \in Ops, WorkerWake(o) PROVE LoopShape'
  BY <1>7 DEF WorkerWake, Wake
<1>8. ASSUME NEW o \in Ops, CancelCallback(o) PROVE LoopShape'
  BY <1>8 DEF CancelCallback
<1>9. ASSUME NEW h \in Hubs, ReceiveWake(h) PROVE LoopShape'
  BY <1>9 DEF ReceiveWake, ReadSocket
<1>10. ASSUME NEW h \in Hubs, WakeCancelled(h) PROVE LoopShape'
  BY <1>10 DEF WakeCancelled, CloseAndCancel, CloseHub,
               CancelFutures, LoseReader
<1>11. ASSUME NEW h \in Hubs, Drain(h) PROVE LoopShape'
  BY <1>11 DEF Drain, TakeReady, Batch, Settled
<1>12. ASSUME NEW h \in Hubs, Rearm(h) PROVE LoopShape'
  BY <1>12 DEF Rearm, HasEntries, CloseAndCancel, CloseHub, CancelFutures
<1>13. ASSUME NEW h \in Hubs, FoundIdle(h) PROVE LoopShape'
  BY <1>13 DEF FoundIdle, HasEntries
<1>14. ASSUME NEW h \in Hubs, ReceiveFails(h) PROVE LoopShape'
  BY <1>14 DEF ReceiveFails
<1>15. ASSUME NEW h \in Hubs, CancelReceive(h) PROVE LoopShape'
  BY <1>15 DEF CancelReceive
<1>16. CASE WakeIfIdle
  BY <1>16 DEF WakeIfIdle, IdleUnwoken
<1>17. CASE LoopWake
  BY <1>17 DEF LoopWake, Wake
<1>18. CASE Settle
  BY <1>18 DEF Settle, CloseAndCancel, CloseHub, CancelFutures, LoseReader
<1>19. CASE Retire
  BY <1>19 DEF Retire, CloseAndCancel, CloseHub, CancelFutures, LoseReader
<1>20. CASE CollectLoop
  BY <1>20 DEF CollectLoop, CloseHub
<1>21. CASE UNCHANGED vars
  BY <1>21 DEF vars
<1> QED
  BY <1>1, <1>2, <1>3, <1>4, <1>5, <1>6, <1>7, <1>8, <1>9, <1>10, <1>11, <1>12,
     <1>13, <1>14, <1>15, <1>16, <1>17, <1>18, <1>19, <1>20, <1>21, NextCases

\* An id is queued under a claimed wake-up, and the drain empties the queue
\* in the same critical section that gives the claim up.
LEMMA QueueStep ==
  ASSUME TypeOK, Shape, QueueIsClaimed, [Next]_vars PROVE QueueIsClaimed'
<1> USE DEF TypeOK, opVars, hubVars, QueueIsClaimed, Shape, ClosedHoldsNothing,
           Registered, LoopShape
<1>1. ASSUME NEW o \in Ops, StartBridge(o) PROVE QueueIsClaimed'
  BY <1>1 DEF StartBridge, ReuseHub, CreateHub, HubIsOpen
<1>2. ASSUME NEW o \in Ops, StartBridgeFails(o) PROVE QueueIsClaimed'
  BY <1>2 DEF StartBridgeFails, ReuseHub, CreateHub, HubIsOpen
<1>3. ASSUME NEW o \in Ops, UserCancel(o) PROVE QueueIsClaimed'
  BY <1>3 DEF UserCancel, CancelFutures
<1>4. ASSUME NEW o \in Ops, Finish(o) PROVE QueueIsClaimed'
  BY <1>4 DEF Finish, Outcomes
<1>5. ASSUME NEW o \in Ops, DropWork(o) PROVE QueueIsClaimed'
  BY <1>5 DEF DropWork
<1>6. ASSUME NEW o \in Ops, Publish(o) PROVE QueueIsClaimed'
  BY <1>6 DEF Publish
<1>7. ASSUME NEW o \in Ops, WorkerWake(o) PROVE QueueIsClaimed'
  BY <1>7 DEF WorkerWake, Wake
<1>8. ASSUME NEW o \in Ops, CancelCallback(o) PROVE QueueIsClaimed'
  BY <1>8 DEF CancelCallback
<1>9. ASSUME NEW h \in Hubs, ReceiveWake(h) PROVE QueueIsClaimed'
  BY <1>9 DEF ReceiveWake, ReadSocket
<1>10. ASSUME NEW h \in Hubs, WakeCancelled(h) PROVE QueueIsClaimed'
  BY <1>10, SMTT(20) DEF WakeCancelled, CloseAndCancel, CloseHub,
               CancelFutures, LoseReader
<1>11. ASSUME NEW h \in Hubs, Drain(h) PROVE QueueIsClaimed'
  BY <1>11 DEF Drain, TakeReady, Batch, Settled
<1>12. ASSUME NEW h \in Hubs, Rearm(h) PROVE QueueIsClaimed'
  BY <1>12 DEF Rearm, HasEntries, CloseAndCancel, CloseHub, CancelFutures
<1>13. ASSUME NEW h \in Hubs, FoundIdle(h) PROVE QueueIsClaimed'
  BY <1>13 DEF FoundIdle, HasEntries
<1>14. ASSUME NEW h \in Hubs, ReceiveFails(h) PROVE QueueIsClaimed'
  BY <1>14 DEF ReceiveFails
<1>15. ASSUME NEW h \in Hubs, CancelReceive(h) PROVE QueueIsClaimed'
  BY <1>15 DEF CancelReceive
<1>16. CASE WakeIfIdle
  BY <1>16 DEF WakeIfIdle, IdleUnwoken
<1>17. CASE LoopWake
  BY <1>17 DEF LoopWake, Wake
<1>18. CASE Settle
  <2>1. \/ UNCHANGED <<ready, wake_outstanding>>
        \/ CloseHub(loopHub)
    BY <1>18 DEF Settle, CloseAndCancel, LoseReader
  <2> QED BY <2>1 DEF CloseHub
<1>19. CASE Retire
  <2>1. \/ UNCHANGED <<ready, wake_outstanding>>
        \/ CloseHub(loopHub)
    BY <1>19 DEF Retire, CloseAndCancel, LoseReader
  <2> QED BY <2>1 DEF CloseHub
<1>20. CASE CollectLoop
  BY <1>20, SMTT(20) DEF CollectLoop, CloseHub
<1>21. CASE UNCHANGED vars
  BY <1>21 DEF vars
<1> QED
  BY <1>1, <1>2, <1>3, <1>4, <1>5, <1>6, <1>7, <1>8, <1>9, <1>10, <1>11, <1>12,
     <1>13, <1>14, <1>15, <1>16, <1>17, <1>18, <1>19, <1>20, <1>21, NextCases

\* The claim and the wake-up behind it come and go together: publish and
\* wake_if_idle make both, each hand-over keeps one, the drain ends both.
LEMMA ClaimStep ==
  ASSUME TypeOK, Shape, Token, [Next]_vars PROVE ClaimIsWakeup'
<1> USE DEF TypeOK, opVars, hubVars, ClaimIsWakeup, Token, OneWakeup, QueueIsClaimed, Shape,
           ClosedHoldsNothing, Registered, LoopShape, Healthy, WakeInFlight,
           WorkerHolds, LoopHolds
<1>1. ASSUME NEW o \in Ops, StartBridge(o) PROVE ClaimIsWakeup'
  <2>1. PICK h \in Hubs :
          /\ ReuseHub(h) \/ CreateHub(h)
          /\ entries' = [entries EXCEPT ![h] = @ \union {o}]
          /\ home' = [home EXCEPT ![o] = h]
    BY <1>1 DEF StartBridge
  <2>2. /\ task' = [task EXCEPT ![o] = "running"]
        /\ callback' = [callback EXCEPT ![o] = "attached"]
        /\ future' = [future EXCEPT ![o] = "pending"]
        /\ loop = "free" /\ UNCHANGED <<loop, loopHub>>
        /\ home[o] = NoHub /\ task[o] = "none"
    BY <1>1 DEF StartBridge
  <2>3. \A p \in Ops : \A k \in Hubs : WorkerHolds(p, k)' <=> WorkerHolds(p, k)
    BY <2>1, <2>2
  <2>4. \A k \in Hubs : LoopHolds(k)' <=> LoopHolds(k)
    BY <2>2
  <2>5. CASE ReuseHub(h)
    BY <2>3, <2>4, <2>5 DEF ReuseHub
  <2>6. CASE CreateHub(h)
    <3>1. ~wake_outstanding[h] /\ bytes[h] = 0 /\ ~LoopHolds(h)
          /\ \A p \in Ops : ~WorkerHolds(p, h)
      BY <2>2, <2>6 DEF CreateHub
    <3>2. receive'[h] = "armed" /\ UNCHANGED <<wake_outstanding, bytes>>
          /\ \A k \in Hubs : k # h => receive'[k] = receive[k] /\ writer'[k] = writer[k]
      BY <2>6 DEF CreateHub
    <3>3. wake_outstanding'[h] <=> WakeInFlight(h)'
      BY <2>3, <2>4, <3>1, <3>2
    <3>4. \A k \in Hubs : k # h => (Healthy(k)' <=> Healthy(k))
                                   /\ (WakeInFlight(k)' <=> WakeInFlight(k))
      BY <2>3, <2>4, <3>2
    <3> QED BY <3>2, <3>3, <3>4
  <2> QED BY <2>1, <2>5, <2>6
<1>2. ASSUME NEW o \in Ops, StartBridgeFails(o) PROVE ClaimIsWakeup'
  <2>1. PICK h \in Hubs : ReuseHub(h) \/ CreateHub(h)
    BY <1>2 DEF StartBridgeFails
  <2>2. /\ UNCHANGED <<task, home, loop, loopHub>> /\ loop = "free"
    BY <1>2 DEF StartBridgeFails
  <2>3. CASE ReuseHub(h)
    BY <2>2, <2>3 DEF ReuseHub
  <2>4. CASE CreateHub(h)
    <3>1. ~wake_outstanding[h] /\ bytes[h] = 0 /\ ~LoopHolds(h)
          /\ \A p \in Ops : ~WorkerHolds(p, h)
      BY <2>2, <2>4 DEF CreateHub
    <3>2. receive'[h] = "armed" /\ UNCHANGED <<wake_outstanding, bytes>>
          /\ \A k \in Hubs : k # h => receive'[k] = receive[k] /\ writer'[k] = writer[k]
      BY <2>4 DEF CreateHub
    <3> QED BY <2>2, <3>1, <3>2
  <2> QED BY <2>1, <2>3, <2>4
<1>3. ASSUME NEW o \in Ops, UserCancel(o) PROVE ClaimIsWakeup'
  BY <1>3 DEF UserCancel, CancelFutures
<1>4. ASSUME NEW o \in Ops, Finish(o) PROVE ClaimIsWakeup'
  BY <1>4 DEF Finish, Outcomes
<1>5. ASSUME NEW o \in Ops, DropWork(o) PROVE ClaimIsWakeup'
  BY <1>5 DEF DropWork
<1>6. ASSUME NEW o \in Ops, Publish(o) PROVE ClaimIsWakeup'
  BY <1>6 DEF Publish
<1>7. ASSUME NEW o \in Ops, WorkerWake(o) PROVE ClaimIsWakeup'
  BY <1>7 DEF WorkerWake, Wake
<1>8. ASSUME NEW o \in Ops, CancelCallback(o) PROVE ClaimIsWakeup'
  BY <1>8 DEF CancelCallback
<1>9. ASSUME NEW h \in Hubs, ReceiveWake(h) PROVE ClaimIsWakeup'
  BY <1>9 DEF ReceiveWake, ReadSocket
<1>10. ASSUME NEW h \in Hubs, WakeCancelled(h) PROVE ClaimIsWakeup'
  BY <1>10 DEF WakeCancelled, CloseAndCancel, CloseHub,
               CancelFutures, LoseReader
<1>11. ASSUME NEW h \in Hubs, Drain(h) PROVE ClaimIsWakeup'
  BY <1>11 DEF Drain, TakeReady, Batch, Settled
<1>12. ASSUME NEW h \in Hubs, Rearm(h) PROVE ClaimIsWakeup'
  BY <1>12 DEF Rearm, HasEntries, CloseAndCancel, CloseHub, CancelFutures
<1>13. ASSUME NEW h \in Hubs, FoundIdle(h) PROVE ClaimIsWakeup'
  BY <1>13 DEF FoundIdle, HasEntries
<1>14. ASSUME NEW h \in Hubs, ReceiveFails(h) PROVE ClaimIsWakeup'
  BY <1>14 DEF ReceiveFails
<1>15. ASSUME NEW h \in Hubs, CancelReceive(h) PROVE ClaimIsWakeup'
  BY <1>15 DEF CancelReceive
<1>16. CASE WakeIfIdle
  BY <1>16 DEF WakeIfIdle, IdleUnwoken
<1>17. CASE LoopWake
  BY <1>17 DEF LoopWake, Wake
<1>18. CASE Settle
  BY <1>18 DEF Settle, CloseAndCancel, CloseHub, CancelFutures, LoseReader
<1>19. CASE Retire
  BY <1>19 DEF Retire, CloseAndCancel, CloseHub, CancelFutures, LoseReader
<1>20. CASE CollectLoop
  BY <1>20 DEF CollectLoop, CloseHub
<1>21. CASE UNCHANGED vars
  BY <1>21 DEF vars
<1> QED
  BY <1>1, <1>2, <1>3, <1>4, <1>5, <1>6, <1>7, <1>8, <1>9, <1>10, <1>11, <1>12,
     <1>13, <1>14, <1>15, <1>16, <1>17, <1>18, <1>19, <1>20, <1>21, NextCases

\* A wake-up is only made when there is none.
LEMMA OneWakeupStep ==
  ASSUME TypeOK, Shape, Token, [Next]_vars PROVE OneWakeup'
<1> USE DEF TypeOK, opVars, hubVars, ClaimIsWakeup, Token, OneWakeup, Shape,
           ClosedHoldsNothing, Registered, LoopShape, Healthy, WakeInFlight,
           WorkerHolds, LoopHolds
<1>1. ASSUME NEW o \in Ops, StartBridge(o) PROVE OneWakeup'
  <2>1. PICK h \in Hubs :
          /\ ReuseHub(h) \/ CreateHub(h)
          /\ entries' = [entries EXCEPT ![h] = @ \union {o}]
          /\ home' = [home EXCEPT ![o] = h]
    BY <1>1 DEF StartBridge
  <2>2. /\ task' = [task EXCEPT ![o] = "running"]
        /\ callback' = [callback EXCEPT ![o] = "attached"]
        /\ future' = [future EXCEPT ![o] = "pending"]
        /\ loop = "free" /\ UNCHANGED <<loop, loopHub>>
        /\ home[o] = NoHub /\ task[o] = "none"
    BY <1>1 DEF StartBridge
  <2>3. \A p \in Ops : \A k \in Hubs : WorkerHolds(p, k)' <=> WorkerHolds(p, k)
    BY <2>1, <2>2
  <2>4. \A k \in Hubs : LoopHolds(k)' <=> LoopHolds(k)
    BY <2>2
  <2>5. CASE ReuseHub(h)
    BY <2>3, <2>4, <2>5 DEF ReuseHub
  <2>6. CASE CreateHub(h)
    <3>1. bytes[h] = 0 /\ ~LoopHolds(h) /\ \A p \in Ops : ~WorkerHolds(p, h)
      BY <2>2, <2>6 DEF CreateHub
    <3>2. receive'[h] = "armed" /\ bytes' = bytes
          /\ \A k \in Hubs : k # h => receive'[k] = receive[k] /\ writer'[k] = writer[k]
      BY <2>6 DEF CreateHub
    <3> QED BY <2>3, <2>4, <3>1, <3>2
  <2> QED BY <2>1, <2>5, <2>6
<1>2. ASSUME NEW o \in Ops, StartBridgeFails(o) PROVE OneWakeup'
  <2>1. PICK h \in Hubs : ReuseHub(h) \/ CreateHub(h)
    BY <1>2 DEF StartBridgeFails
  <2>2. /\ UNCHANGED <<task, home, loop, loopHub>> /\ loop = "free"
    BY <1>2 DEF StartBridgeFails
  <2>3. CASE ReuseHub(h)
    BY <2>2, <2>3 DEF ReuseHub
  <2>4. CASE CreateHub(h)
    <3>1. ~wake_outstanding[h] /\ bytes[h] = 0 /\ ~LoopHolds(h)
          /\ \A p \in Ops : ~WorkerHolds(p, h)
      BY <2>2, <2>4 DEF CreateHub
    <3>2. receive'[h] = "armed" /\ UNCHANGED <<wake_outstanding, bytes>>
          /\ \A k \in Hubs : k # h => receive'[k] = receive[k] /\ writer'[k] = writer[k]
      BY <2>4 DEF CreateHub
    <3> QED BY <2>2, <3>1, <3>2
  <2> QED BY <2>1, <2>3, <2>4
<1>3. ASSUME NEW o \in Ops, UserCancel(o) PROVE OneWakeup'
  BY <1>3 DEF UserCancel, CancelFutures
<1>4. ASSUME NEW o \in Ops, Finish(o) PROVE OneWakeup'
  BY <1>4 DEF Finish, Outcomes
<1>5. ASSUME NEW o \in Ops, DropWork(o) PROVE OneWakeup'
  BY <1>5 DEF DropWork
<1>6. ASSUME NEW o \in Ops, Publish(o) PROVE OneWakeup'
  BY <1>6 DEF Publish
<1>7. ASSUME NEW o \in Ops, WorkerWake(o) PROVE OneWakeup'
  BY <1>7 DEF WorkerWake, Wake
<1>8. ASSUME NEW o \in Ops, CancelCallback(o) PROVE OneWakeup'
  BY <1>8 DEF CancelCallback
<1>9. ASSUME NEW h \in Hubs, ReceiveWake(h) PROVE OneWakeup'
  BY <1>9 DEF ReceiveWake, ReadSocket
<1>10. ASSUME NEW h \in Hubs, WakeCancelled(h) PROVE OneWakeup'
  BY <1>10 DEF WakeCancelled, CloseAndCancel, CloseHub,
               CancelFutures, LoseReader
<1>11. ASSUME NEW h \in Hubs, Drain(h) PROVE OneWakeup'
  BY <1>11 DEF Drain, TakeReady, Batch, Settled
<1>12. ASSUME NEW h \in Hubs, Rearm(h) PROVE OneWakeup'
  BY <1>12 DEF Rearm, HasEntries, CloseAndCancel, CloseHub, CancelFutures
<1>13. ASSUME NEW h \in Hubs, FoundIdle(h) PROVE OneWakeup'
  BY <1>13 DEF FoundIdle, HasEntries
<1>14. ASSUME NEW h \in Hubs, ReceiveFails(h) PROVE OneWakeup'
  BY <1>14 DEF ReceiveFails
<1>15. ASSUME NEW h \in Hubs, CancelReceive(h) PROVE OneWakeup'
  BY <1>15 DEF CancelReceive
<1>16. CASE WakeIfIdle
  BY <1>16 DEF WakeIfIdle, IdleUnwoken
<1>17. CASE LoopWake
  BY <1>17 DEF LoopWake, Wake
<1>18. CASE Settle
  BY <1>18 DEF Settle, CloseAndCancel, CloseHub, CancelFutures, LoseReader
<1>19. CASE Retire
  BY <1>19 DEF Retire, CloseAndCancel, CloseHub, CancelFutures, LoseReader
<1>20. CASE CollectLoop
  BY <1>20 DEF CollectLoop, CloseHub
<1>21. CASE UNCHANGED vars
  BY <1>21 DEF vars
<1> QED
  BY <1>1, <1>2, <1>3, <1>4, <1>5, <1>6, <1>7, <1>8, <1>9, <1>10, <1>11, <1>12,
     <1>13, <1>14, <1>15, <1>16, <1>17, <1>18, <1>19, <1>20, <1>21, NextCases

\* The outcome is stored before the id is queued and taken only by the drain
\* that removes the id.
LEMMA ResultsStep ==
  ASSUME TypeOK, Shape, Results, [Next]_vars PROVE Results'
<1> USE DEF TypeOK, opVars, hubVars, Results, NeverEmptyHanded, Shape, Registered, ClosedHoldsNothing,
           LoopShape
<1>1. ASSUME NEW o \in Ops, StartBridge(o) PROVE Results'
  BY <1>1 DEF StartBridge, ReuseHub, CreateHub, HubIsOpen
<1>2. ASSUME NEW o \in Ops, StartBridgeFails(o) PROVE Results'
  BY <1>2 DEF StartBridgeFails, ReuseHub, CreateHub, HubIsOpen
<1>3. ASSUME NEW o \in Ops, UserCancel(o) PROVE Results'
  BY <1>3 DEF UserCancel, CancelFutures
<1>4. ASSUME NEW o \in Ops, Finish(o) PROVE Results'
  BY <1>4 DEF Finish, Outcomes
<1>5. ASSUME NEW o \in Ops, DropWork(o) PROVE Results'
  BY <1>5 DEF DropWork
<1>6. ASSUME NEW o \in Ops, Publish(o) PROVE Results'
  <2>1. future' = future /\ completion' = completion /\ task[o] = "stored"
    BY <1>6 DEF Publish
  <2>2. \E s \in {"claimed", "ended"} : task' = [task EXCEPT ![o] = s]
    BY <1>6 DEF Publish
  <2>3. ready' = ready \/ ready' = [ready EXCEPT ![home[o]] = @ \union {o}]
    BY <1>6 DEF Publish
  <2>4. \A p \in Ops : \A k \in Hubs : p \in ready'[k] => p = o \/ p \in ready[k]
    BY <2>3
  <2>5. \A p \in Ops : p # o => task'[p] = task[p]
    BY <2>2
  <2>6. task'[o] \in {"claimed", "ended"} /\ completion[o] # "pending"
    BY <2>1, <2>2
  <2> QED BY <2>1, <2>4, <2>5, <2>6
<1>7. ASSUME NEW o \in Ops, WorkerWake(o) PROVE Results'
  BY <1>7 DEF WorkerWake, Wake
<1>8. ASSUME NEW o \in Ops, CancelCallback(o) PROVE Results'
  BY <1>8 DEF CancelCallback
<1>9. ASSUME NEW h \in Hubs, ReceiveWake(h) PROVE Results'
  BY <1>9 DEF ReceiveWake, ReadSocket
<1>10. ASSUME NEW h \in Hubs, WakeCancelled(h) PROVE Results'
  BY <1>10 DEF WakeCancelled, CloseAndCancel, CloseHub,
               CancelFutures, LoseReader
<1>11. ASSUME NEW h \in Hubs, Drain(h) PROVE Results'
  <2>1. \A p \in Ops : p \in Batch(h) =>
          completion[p] # "pending" /\ task[p] \in {"claimed", "ended"}
    BY DEF Batch
  <2>2. \A p \in Ops : p \in Batch(h) => Settled(p) # "empty"
    BY <2>1 DEF Settled
  <2>3. \A p \in Ops : future'[p] # "empty"
    BY <1>11, <2>2 DEF Drain
  <2>4. \A p \in Ops : p \notin Batch(h) => completion'[p] = completion[p]
    BY <1>11 DEF Drain
  <2>5. \A p \in Ops : task'[p] = "stored" => completion'[p] # "pending"
    BY <1>11, <2>1, <2>4 DEF Drain
  <2>6. ASSUME NEW p \in Ops, NEW k \in Hubs, p \in ready'[k]
        PROVE  completion'[p] # "pending" /\ task'[p] \in {"claimed", "ended"}
    <3>1. k # h /\ p \in ready[k]
      BY <1>11, <2>6 DEF Drain, TakeReady
    <3>2. home[p] = k /\ p \notin Batch(h)
      BY <3>1 DEF Batch
    <3> QED BY <1>11, <2>4, <3>1, <3>2 DEF Drain
  <2> QED BY <2>3, <2>5, <2>6
<1>12. ASSUME NEW h \in Hubs, Rearm(h) PROVE Results'
  <2>1. /\ completion' = completion /\ task' = task
        /\ ready' = ready \/ ready' = [ready EXCEPT ![h] = {}]
    BY <1>12 DEF Rearm, CloseAndCancel, CloseHub
  <2>2. \A p \in Ops : future'[p] # "empty"
    BY <1>12 DEF Rearm, CloseAndCancel, CancelFutures
  <2> QED BY <2>1, <2>2
<1>13. ASSUME NEW h \in Hubs, FoundIdle(h) PROVE Results'
  BY <1>13 DEF FoundIdle, HasEntries
<1>14. ASSUME NEW h \in Hubs, ReceiveFails(h) PROVE Results'
  BY <1>14 DEF ReceiveFails
<1>15. ASSUME NEW h \in Hubs, CancelReceive(h) PROVE Results'
  BY <1>15 DEF CancelReceive
<1>16. CASE WakeIfIdle
  BY <1>16 DEF WakeIfIdle, IdleUnwoken
<1>17. CASE LoopWake
  BY <1>17 DEF LoopWake, Wake
<1>18. CASE Settle
  BY <1>18, SMTT(20) DEF Settle, CloseAndCancel, CloseHub, CancelFutures, LoseReader
<1>19. CASE Retire
  BY <1>19, SMTT(20) DEF Retire, CloseAndCancel, CloseHub, CancelFutures, LoseReader
<1>20. CASE CollectLoop
  BY <1>20, SMTT(20) DEF CollectLoop, CloseHub
<1>21. CASE UNCHANGED vars
  BY <1>21 DEF vars
<1> QED
  BY <1>1, <1>2, <1>3, <1>4, <1>5, <1>6, <1>7, <1>8, <1>9, <1>10, <1>11, <1>12,
     <1>13, <1>14, <1>15, <1>16, <1>17, <1>18, <1>19, <1>20, <1>21, NextCases

\* The two ways the last entry goes, a drain and a cancellation, both lead to
\* a wake-up or to the idle callback.
LEMMA DryHubStep ==
  ASSUME TypeOK, Shape, DryHubIsWoken, [Next]_vars PROVE DryHubIsWoken'
<1> USE DEF TypeOK, opVars, hubVars, DryHubIsWoken, Shape, OneOpenHub, ClosedHoldsNothing,
           Registered, LoopShape, Healthy
<1>1. ASSUME NEW o \in Ops, StartBridge(o) PROVE DryHubIsWoken'
  BY <1>1 DEF StartBridge, ReuseHub, CreateHub, HubIsOpen
<1>2. ASSUME NEW o \in Ops, StartBridgeFails(o) PROVE DryHubIsWoken'
  BY <1>2 DEF StartBridgeFails, ReuseHub, CreateHub, HubIsOpen
<1>3. ASSUME NEW o \in Ops, UserCancel(o) PROVE DryHubIsWoken'
  BY <1>3 DEF UserCancel, CancelFutures
<1>4. ASSUME NEW o \in Ops, Finish(o) PROVE DryHubIsWoken'
  BY <1>4 DEF Finish, Outcomes
<1>5. ASSUME NEW o \in Ops, DropWork(o) PROVE DryHubIsWoken'
  BY <1>5 DEF DropWork
<1>6. ASSUME NEW o \in Ops, Publish(o) PROVE DryHubIsWoken'
  BY <1>6 DEF Publish
<1>7. ASSUME NEW o \in Ops, WorkerWake(o) PROVE DryHubIsWoken'
  BY <1>7 DEF WorkerWake, Wake
<1>8. ASSUME NEW o \in Ops, CancelCallback(o) PROVE DryHubIsWoken'
  BY <1>8 DEF CancelCallback
<1>9. ASSUME NEW h \in Hubs, ReceiveWake(h) PROVE DryHubIsWoken'
  BY <1>9 DEF ReceiveWake, ReadSocket
<1>10. ASSUME NEW h \in Hubs, WakeCancelled(h) PROVE DryHubIsWoken'
  BY <1>10 DEF WakeCancelled, CloseAndCancel, CloseHub,
               CancelFutures, LoseReader
<1>11. ASSUME NEW h \in Hubs, Drain(h) PROVE DryHubIsWoken'
  BY <1>11 DEF Drain, TakeReady, Batch, Settled
<1>12. ASSUME NEW h \in Hubs, Rearm(h) PROVE DryHubIsWoken'
  BY <1>12 DEF Rearm, HasEntries, CloseAndCancel, CloseHub, CancelFutures
<1>13. ASSUME NEW h \in Hubs, FoundIdle(h) PROVE DryHubIsWoken'
  BY <1>13 DEF FoundIdle, HasEntries
<1>14. ASSUME NEW h \in Hubs, ReceiveFails(h) PROVE DryHubIsWoken'
  BY <1>14 DEF ReceiveFails
<1>15. ASSUME NEW h \in Hubs, CancelReceive(h) PROVE DryHubIsWoken'
  BY <1>15 DEF CancelReceive
<1>16. CASE WakeIfIdle
  BY <1>16 DEF WakeIfIdle, IdleUnwoken
<1>17. CASE LoopWake
  BY <1>17 DEF LoopWake, Wake
<1>18. CASE Settle
  BY <1>18 DEF Settle, CloseAndCancel, CloseHub, CancelFutures, LoseReader
<1>19. CASE Retire
  BY <1>19 DEF Retire, CloseAndCancel, CloseHub, CancelFutures, LoseReader
<1>20. CASE CollectLoop
  BY <1>20 DEF CollectLoop, CloseHub
<1>21. CASE UNCHANGED vars
  BY <1>21 DEF vars
<1> QED
  BY <1>1, <1>2, <1>3, <1>4, <1>5, <1>6, <1>7, <1>8, <1>9, <1>10, <1>11, <1>12,
     <1>13, <1>14, <1>15, <1>16, <1>17, <1>18, <1>19, <1>20, <1>21, NextCases

\* A task starts with the registration and never goes back.
LEMMA StartedStep ==
  ASSUME TypeOK, Started, [Next]_vars PROVE Started'
<1> USE DEF TypeOK, opVars, hubVars, Started
<1>1. ASSUME NEW o \in Ops, StartBridge(o) PROVE Started'
  BY <1>1 DEF StartBridge, ReuseHub, CreateHub, HubIsOpen
<1>2. ASSUME NEW o \in Ops, StartBridgeFails(o) PROVE Started'
  BY <1>2 DEF StartBridgeFails, ReuseHub, CreateHub, HubIsOpen
<1>3. ASSUME NEW o \in Ops, UserCancel(o) PROVE Started'
  BY <1>3 DEF UserCancel, CancelFutures
<1>4. ASSUME NEW o \in Ops, Finish(o) PROVE Started'
  BY <1>4 DEF Finish, Outcomes
<1>5. ASSUME NEW o \in Ops, DropWork(o) PROVE Started'
  BY <1>5 DEF DropWork
<1>6. ASSUME NEW o \in Ops, Publish(o) PROVE Started'
  BY <1>6 DEF Publish
<1>7. ASSUME NEW o \in Ops, WorkerWake(o) PROVE Started'
  BY <1>7 DEF WorkerWake, Wake
<1>8. ASSUME NEW o \in Ops, CancelCallback(o) PROVE Started'
  BY <1>8 DEF CancelCallback
<1>9. ASSUME NEW h \in Hubs, ReceiveWake(h) PROVE Started'
  BY <1>9 DEF ReceiveWake, ReadSocket
<1>10. ASSUME NEW h \in Hubs, WakeCancelled(h) PROVE Started'
  BY <1>10 DEF WakeCancelled, CloseAndCancel, CloseHub,
               CancelFutures, LoseReader
<1>11. ASSUME NEW h \in Hubs, Drain(h) PROVE Started'
  BY <1>11 DEF Drain, TakeReady, Batch, Settled
<1>12. ASSUME NEW h \in Hubs, Rearm(h) PROVE Started'
  BY <1>12 DEF Rearm, HasEntries, CloseAndCancel, CloseHub, CancelFutures
<1>13. ASSUME NEW h \in Hubs, FoundIdle(h) PROVE Started'
  BY <1>13 DEF FoundIdle, HasEntries
<1>14. ASSUME NEW h \in Hubs, ReceiveFails(h) PROVE Started'
  BY <1>14 DEF ReceiveFails
<1>15. ASSUME NEW h \in Hubs, CancelReceive(h) PROVE Started'
  BY <1>15 DEF CancelReceive
<1>16. CASE WakeIfIdle
  BY <1>16 DEF WakeIfIdle, IdleUnwoken
<1>17. CASE LoopWake
  BY <1>17 DEF LoopWake, Wake
<1>18. CASE Settle
  BY <1>18 DEF Settle, CloseAndCancel, CloseHub, CancelFutures, LoseReader
<1>19. CASE Retire
  BY <1>19 DEF Retire, CloseAndCancel, CloseHub, CancelFutures, LoseReader
<1>20. CASE CollectLoop
  BY <1>20 DEF CollectLoop, CloseHub
<1>21. CASE UNCHANGED vars
  BY <1>21 DEF vars
<1> QED
  BY <1>1, <1>2, <1>3, <1>4, <1>5, <1>6, <1>7, <1>8, <1>9, <1>10, <1>11, <1>12,
     <1>13, <1>14, <1>15, <1>16, <1>17, <1>18, <1>19, <1>20, <1>21, NextCases

\* Only the task fills the cell, and only the drain after that sets a future.
LEMMA UnansweredStep ==
  ASSUME TypeOK, Shape, Results, Unanswered, [Next]_vars PROVE Unanswered'
<1> USE DEF TypeOK, opVars, hubVars, Unanswered, Results, Shape, Registered
<1>1. ASSUME NEW o \in Ops, StartBridge(o) PROVE Unanswered'
  BY <1>1 DEF StartBridge, ReuseHub, CreateHub, HubIsOpen
<1>2. ASSUME NEW o \in Ops, StartBridgeFails(o) PROVE Unanswered'
  BY <1>2 DEF StartBridgeFails, ReuseHub, CreateHub, HubIsOpen
<1>3. ASSUME NEW o \in Ops, UserCancel(o) PROVE Unanswered'
  BY <1>3 DEF UserCancel, CancelFutures
<1>4. ASSUME NEW o \in Ops, Finish(o) PROVE Unanswered'
  BY <1>4 DEF Finish, Outcomes
<1>5. ASSUME NEW o \in Ops, DropWork(o) PROVE Unanswered'
  BY <1>5 DEF DropWork
<1>6. ASSUME NEW o \in Ops, Publish(o) PROVE Unanswered'
  BY <1>6 DEF Publish
<1>7. ASSUME NEW o \in Ops, WorkerWake(o) PROVE Unanswered'
  BY <1>7 DEF WorkerWake, Wake
<1>8. ASSUME NEW o \in Ops, CancelCallback(o) PROVE Unanswered'
  BY <1>8 DEF CancelCallback
<1>9. ASSUME NEW h \in Hubs, ReceiveWake(h) PROVE Unanswered'
  BY <1>9 DEF ReceiveWake, ReadSocket
<1>10. ASSUME NEW h \in Hubs, WakeCancelled(h) PROVE Unanswered'
  BY <1>10 DEF WakeCancelled, CloseAndCancel, CloseHub,
               CancelFutures, LoseReader
<1>11. ASSUME NEW h \in Hubs, Drain(h) PROVE Unanswered'
  BY <1>11 DEF Drain, TakeReady, Batch, Settled
<1>12. ASSUME NEW h \in Hubs, Rearm(h) PROVE Unanswered'
  BY <1>12 DEF Rearm, HasEntries, CloseAndCancel, CloseHub, CancelFutures
<1>13. ASSUME NEW h \in Hubs, FoundIdle(h) PROVE Unanswered'
  BY <1>13 DEF FoundIdle, HasEntries
<1>14. ASSUME NEW h \in Hubs, ReceiveFails(h) PROVE Unanswered'
  BY <1>14 DEF ReceiveFails
<1>15. ASSUME NEW h \in Hubs, CancelReceive(h) PROVE Unanswered'
  BY <1>15 DEF CancelReceive
<1>16. CASE WakeIfIdle
  BY <1>16 DEF WakeIfIdle, IdleUnwoken
<1>17. CASE LoopWake
  BY <1>17 DEF LoopWake, Wake
<1>18. CASE Settle
  BY <1>18 DEF Settle, CloseAndCancel, CloseHub, CancelFutures, LoseReader
<1>19. CASE Retire
  BY <1>19 DEF Retire, CloseAndCancel, CloseHub, CancelFutures, LoseReader
<1>20. CASE CollectLoop
  BY <1>20 DEF CollectLoop, CloseHub
<1>21. CASE UNCHANGED vars
  BY <1>21 DEF vars
<1> QED
  BY <1>1, <1>2, <1>3, <1>4, <1>5, <1>6, <1>7, <1>8, <1>9, <1>10, <1>11, <1>12,
     <1>13, <1>14, <1>15, <1>16, <1>17, <1>18, <1>19, <1>20, <1>21, NextCases

\* Closing a hub cancels every future that still waits for one of its entries.
LEMMA CloseAwaited ==
  ASSUME TypeOK, Shape, Awaited, NEW h \in Hubs, CloseAndCancel(h),
         UNCHANGED <<completion, task, signal>>, loop # "gone"
  PROVE  Awaited'
<1>1. /\ entries' = [entries EXCEPT ![h] = {}] /\ ready' = [ready EXCEPT ![h] = {}]
      /\ CancelFutures(entries[h])
  BY DEF CloseAndCancel, CloseHub
<1>2. \A k \in Hubs : /\ entries'[k] = IF k = h THEN {} ELSE entries[k]
                     /\ ready'[k] = IF k = h THEN {} ELSE ready[k]
  BY <1>1 DEF TypeOK
<1>3. ASSUME NEW o \in Ops
      PROVE  IF future[o] = "pending" /\ o \in entries[h]
               THEN future'[o] = "cancelled" /\ callback'[o] = "scheduled"
               ELSE future'[o] = future[o] /\ callback'[o] = callback[o]
  BY <1>1 DEF CancelFutures, TypeOK
<1>4. ASSUME NEW o \in Ops
      PROVE  \A k \in Hubs : o \in entries[k] => home[o] = k
  BY DEF Shape, Registered
<1>5. ASSUME NEW o \in Ops, future[o] = "pending"
      PROVE  callback[o] \notin {"scheduled", "done"} /\ ~signal[o]
  BY <1>5 DEF Awaited
<1>6. ASSUME NEW o \in Ops, future'[o] = "pending"
      PROVE  TakenInVain(o)' \/ \E k \in Hubs : o \in entries'[k]
  <2>1. future[o] = "pending" /\ o \notin entries[h]
    BY <1>3, <1>6
  <2> QED BY <1>2, <2>1 DEF Awaited, TakenInVain
<1>7. ASSUME NEW o \in Ops, NEW k \in Hubs, o \in entries'[k]
      PROVE  /\ future'[o] \in {"pending", "cancelled"}
             /\ task'[o] \in {"claimed", "ended"} => o \in ready'[k]
  <2>1. k # h /\ o \in entries[k]
    BY <1>2, <1>7
  <2>2. o \notin entries[h]
    BY <1>4, <2>1
  <2> QED BY <1>2, <1>3, <2>1, <2>2 DEF Awaited
<1>8. ASSUME NEW o \in Ops
      PROVE  /\ future'[o] = "cancelled" <=> callback'[o] \in {"scheduled", "done"}
             /\ signal'[o] <=> callback'[o] = "done"
             /\ task'[o] = "dropped" => signal'[o]
  BY <1>3, <1>5 DEF Awaited
<1> QED BY <1>6, <1>7, <1>8 DEF Awaited

\* An entry is taken away only with an answer or a cancellation.
LEMMA AwaitedStep ==
  ASSUME TypeOK, Shape, Results, Awaited, [Next]_vars PROVE Awaited'
<1> USE DEF TypeOK, opVars, hubVars, Awaited, TakenInVain, Results, Shape, Registered,
           ClosedHoldsNothing, OneOpenHub, LoopShape
<1>1. ASSUME NEW o \in Ops, StartBridge(o) PROVE Awaited'
  BY <1>1 DEF StartBridge, ReuseHub, CreateHub, HubIsOpen
<1>2. ASSUME NEW o \in Ops, StartBridgeFails(o) PROVE Awaited'
  BY <1>2 DEF StartBridgeFails, ReuseHub, CreateHub, HubIsOpen
<1>3. ASSUME NEW o \in Ops, UserCancel(o) PROVE Awaited'
  BY <1>3 DEF UserCancel, CancelFutures
<1>4. ASSUME NEW o \in Ops, Finish(o) PROVE Awaited'
  BY <1>4 DEF Finish, Outcomes
<1>5. ASSUME NEW o \in Ops, DropWork(o) PROVE Awaited'
  BY <1>5 DEF DropWork
<1>6. ASSUME NEW o \in Ops, Publish(o) PROVE Awaited'
  BY <1>6 DEF Publish
<1>7. ASSUME NEW o \in Ops, WorkerWake(o) PROVE Awaited'
  BY <1>7 DEF WorkerWake, Wake
<1>8. ASSUME NEW o \in Ops, CancelCallback(o) PROVE Awaited'
  BY <1>8 DEF CancelCallback
<1>9. ASSUME NEW h \in Hubs, ReceiveWake(h) PROVE Awaited'
  BY <1>9 DEF ReceiveWake, ReadSocket
<1>10. ASSUME NEW h \in Hubs, WakeCancelled(h) PROVE Awaited'
  <2>1. CASE CloseAndCancel(h)
    BY <1>10, <2>1, CloseAwaited DEF WakeCancelled
  <2>2. CASE LoseReader(h)
    BY <1>10, <2>2 DEF WakeCancelled, LoseReader
  <2> QED BY <1>10, <2>1, <2>2 DEF WakeCancelled
<1>11. ASSUME NEW h \in Hubs, Drain(h) PROVE Awaited'
  BY <1>11 DEF Drain, TakeReady, Batch, Settled
<1>12. ASSUME NEW h \in Hubs, Rearm(h) PROVE Awaited'
  <2>1. CASE CloseAndCancel(h)
    BY <1>12, <2>1, CloseAwaited DEF Rearm
  <2> QED BY <1>12, <2>1 DEF Rearm
<1>13. ASSUME NEW h \in Hubs, FoundIdle(h) PROVE Awaited'
  BY <1>13 DEF FoundIdle, HasEntries
<1>14. ASSUME NEW h \in Hubs, ReceiveFails(h) PROVE Awaited'
  BY <1>14 DEF ReceiveFails
<1>15. ASSUME NEW h \in Hubs, CancelReceive(h) PROVE Awaited'
  BY <1>15 DEF CancelReceive
<1>16. CASE WakeIfIdle
  BY <1>16 DEF WakeIfIdle, IdleUnwoken
<1>17. CASE LoopWake
  BY <1>17 DEF LoopWake, Wake
<1>18. CASE Settle
  <2>1. loopHub \in Hubs /\ loop = "settle" /\ loop' = "free"
    BY <1>18 DEF Settle
  <2>2. CASE CloseAndCancel(loopHub)
    BY <1>18, <2>1, <2>2, CloseAwaited DEF Settle
  <2> QED BY <1>18, <2>1, <2>2 DEF Settle, LoseReader
<1>19. CASE Retire
  BY <1>19 DEF Retire, CloseAndCancel, CloseHub, CancelFutures, LoseReader
<1>20. CASE CollectLoop
  BY <1>20 DEF CollectLoop, CloseHub
<1>21. CASE UNCHANGED vars
  BY <1>21 DEF vars
<1> QED
  BY <1>1, <1>2, <1>3, <1>4, <1>5, <1>6, <1>7, <1>8, <1>9, <1>10, <1>11, <1>12,
     <1>13, <1>14, <1>15, <1>16, <1>17, <1>18, <1>19, <1>20, <1>21, NextCases

-----------------------------------------------------------------------------
(* The theorems.                                                           *)

\* The invariant holds initially ...
LEMMA InvInit == Init => IInv
<1> SUFFICES ASSUME Init PROVE IInv
  OBVIOUS
<1>1. Shape
  BY NoHubAssumption
  DEF Init, Shape, OneOpenHub, ClosedHoldsNothing, Registered, LoopShape
<1>2. Token
  BY DEF Init, Token, QueueIsClaimed, ClaimIsWakeup, OneWakeup, Healthy
<1>3. Results /\ Started /\ Unanswered /\ Awaited
  BY DEF Init, Results, Started, NeverEmptyHanded, Unanswered, Awaited
<1>4. DryHubIsWoken
  BY DEF Init, DryHubIsWoken, Healthy
<1> QED BY <1>1, <1>2, <1>3, <1>4 DEF IInv

\* ... and every step keeps it.
LEMMA InvStep == TypeOK /\ IInv /\ [Next]_vars => IInv'
<1> SUFFICES ASSUME TypeOK, IInv, [Next]_vars PROVE IInv'
  OBVIOUS
<1>1. Shape'
  BY OpenHubStep, ClosedStep, RegisteredStep, LoopShapeStep DEF IInv, Shape
<1>2. Token'
  BY QueueStep, ClaimStep, OneWakeupStep DEF IInv, Token
<1>3. Results' /\ Started' /\ Unanswered' /\ Awaited' /\ DryHubIsWoken'
  BY ResultsStep, StartedStep, UnansweredStep, AwaitedStep, DryHubStep DEF IInv
<1> QED BY <1>1, <1>2, <1>3 DEF IInv

\* The invariant the results below follow from.
THEOREM Inductive == Spec => []IInv
<1> QED BY InvInit, InvStep, TypeCorrect, PTL DEF Spec

\* No wake-up is ever lost: in every reachable state of a healthy hub a queued
\* result has a wake-up on its way to the loop.
THEOREM NoLostWakeupHolds == Spec => []NoLostWakeup
<1>1. IInv => NoLostWakeup
  BY DEF IInv, Token, QueueIsClaimed, ClaimIsWakeup, NoLostWakeup
<1> QED BY <1>1, Inductive, PTL

\* There is never more than one wake-up, so the one-byte write never blocks.
THEOREM OneWakeupHolds == Spec => []OneWakeup
<1>1. IInv => OneWakeup
  BY DEF IInv, Token
<1> QED BY <1>1, Inductive, PTL

\* No operation is answered without its result.
THEOREM NeverEmptyHandedHolds == Spec => []NeverEmptyHanded
<1>1. IInv => NeverEmptyHanded
  BY DEF IInv, Results
<1> QED BY <1>1, Inductive, PTL

\* The loop has at most one open hub, the one that new operations find.
THEOREM OneOpenHubHolds == Spec => []OneOpenHub
<1>1. IInv => OneOpenHub
  BY DEF IInv, Shape
<1> QED BY <1>1, Inductive, PTL

\* A hub that retires has no operation left to cancel.
THEOREM RetiresEmptyHolds == Spec => []RetiresEmpty
<1>1. IInv => RetiresEmpty
  BY DEF IInv, Shape, LoopShape, RetiresEmpty
<1> QED BY <1>1, Inductive, PTL

\* A hub that has run dry is always woken, so that it can retire.
THEOREM DryHubIsWokenHolds == Spec => []DryHubIsWoken
<1>1. IInv => DryHubIsWoken
  BY DEF IInv
<1> QED BY <1>1, Inductive, PTL

\* A waiting future on a live loop is always accounted for: its work still
\* runs, or its result is stored and about to be published, or it is queued in
\* the open hub the operation registered with, or the result was an exception
\* the future refused.  This is `Delivered` without the time it takes.
AccountedFor ==
  \A o \in Ops : future[o] = "pending" /\ loop # "gone" =>
    \/ TakenInVain(o)
    \/ \E h \in Hubs :
         /\ h = home[o] /\ h = anchor /\ Open(h) /\ o \in entries[h]
         /\ task[o] \in {"running", "stored"} \/ o \in ready[h]

\* No waiting future is forgotten, whatever fails.
THEOREM AccountedForHolds == Spec => []AccountedFor
<1>1. TypeOK /\ IInv => AccountedFor
  <2> SUFFICES ASSUME TypeOK, IInv, NEW o \in Ops, future[o] = "pending", loop # "gone",
                      ~TakenInVain(o)
               PROVE  \E h \in Hubs :
                        /\ h = home[o] /\ h = anchor /\ Open(h) /\ o \in entries[h]
                        /\ task[o] \in {"running", "stored"} \/ o \in ready[h]
    BY DEF AccountedFor
  <2>1. PICK h \in Hubs : o \in entries[h]
    BY DEF IInv, Awaited
  <2>2. home[o] = h /\ Open(h) /\ anchor = h
    BY <2>1 DEF IInv, Shape, Registered, ClosedHoldsNothing, OneOpenHub
  <2>3. task[o] \notin {"none", "dropped"}
    <3>1. task[o] # "dropped"
      BY DEF IInv, Awaited
    <3>2. task[o] # "none"
      BY <2>2, NoHubAssumption DEF IInv, Started
    <3> QED BY <3>1, <3>2
  <2>4. task[o] \in {"running", "stored"} \/ o \in ready[h]
    BY <2>1, <2>3 DEF IInv, Awaited, TypeOK, TaskStates
  <2> QED BY <2>1, <2>2, <2>4
<1> QED BY <1>1, TypeCorrect, Inductive, PTL

\* Work is only thrown away for a caller that has given up: a task whose
\* operation was never cancelled always runs to its result.  With
\* CancelEndsWork this is both directions of cancellation.
DroppedOnlyIfCancelled ==
  \A o \in Ops : task[o] = "dropped" \/ signal[o] => future[o] = "cancelled"

\* No work is dropped under a caller that still waits for it.
THEOREM DroppedOnlyIfCancelledHolds == Spec => []DroppedOnlyIfCancelled
<1>1. IInv => DroppedOnlyIfCancelled
  BY DEF IInv, Awaited, DroppedOnlyIfCancelled
<1> QED BY <1>1, Inductive, PTL

-----------------------------------------------------------------------------
(* The refinement.                                                         *)

USE DEF AbstractFuture, AbstractOutcome

\* A step that changes neither the futures nor the cells, nor whether a result
\* was taken in vain, is none of the abstract operations.
LEMMA SameAnswers ==
  ASSUME UNCHANGED <<future, completion>>,
         \A o \in Ops : TakenInVain(o)' <=> TakenInVain(o)
  PROVE  UNCHANGED Abstract!vars
<1>1. AbstractFuture' = AbstractFuture
  OBVIOUS
<1>2. AbstractOutcome' = AbstractOutcome
  OBVIOUS
<1> QED BY <1>1, <1>2 DEF Abstract!vars

\* Cancelling futures cancels the abstract operations that were pending.
LEMMA CancelImplements ==
  ASSUME TypeOK, NEW S, CancelFutures(S), UNCHANGED <<completion, task>>
  PROVE  Abstract!Next
<1> DEFINE hit == {o \in Ops : o \in S /\ future[o] = "pending"}
<1>1. hit \in SUBSET Ops
  OBVIOUS
<1>2. \A o \in Ops : future'[o] = IF o \in hit THEN "cancelled" ELSE future[o]
  BY DEF CancelFutures
<1>3. AbstractFuture' = [o \in Ops |-> IF o \in hit THEN "cancelled"
                                       ELSE AbstractFuture[o]]
  BY <1>2
<1>4. AbstractOutcome' = AbstractOutcome
  BY <1>2 DEF TakenInVain
<1>5. Abstract!Cancel(hit)
  BY <1>3, <1>4 DEF Abstract!Cancel
<1> HIDE DEF hit, AbstractFuture, AbstractOutcome
<1>6. \E T \in SUBSET Ops : Abstract!Cancel(T)
  BY <1>1, <1>5
<1> QED BY <1>6 DEF Abstract!Next

\* The drain answers the waiting futures of its batch with what was produced
\* for them; a refused exception leaves its future as it was.
LEMMA DrainImplements ==
  ASSUME TypeOK, IInv, NEW h \in Hubs, Drain(h)
  PROVE  Abstract!Next
<1> DEFINE S == {o \in Ops : o \in Batch(h) /\ future[o] = "pending"
                             /\ completion[o] \in {"ok", "error"}}
<1>1. ASSUME NEW o \in Ops, o \in Batch(h)
      PROVE  completion[o] # "pending" /\ task[o] \in {"claimed", "ended"}
  BY <1>1 DEF Batch, IInv, Results
<1>2. ASSUME NEW o \in Ops
      PROVE  /\ future'[o] = IF o \in S THEN completion[o] ELSE future[o]
             /\ completion'[o] = IF o \in Batch(h) /\ future[o] = "pending"
                                   THEN "pending" ELSE completion[o]
             /\ task'[o] = task[o]
  BY <1>1 DEF Drain, Settled, TypeOK
<1>3. ASSUME NEW o \in Ops
      PROVE  AbstractFuture'[o] = IF o \in S THEN AbstractOutcome[o] ELSE AbstractFuture[o]
  BY <1>2 DEF TakenInVain
<1>4. ASSUME NEW o \in Ops PROVE AbstractOutcome'[o] = AbstractOutcome[o]
  <2>1. CASE o \in S
    BY <1>2, <2>1 DEF TakenInVain
  <2>2. CASE o \in Batch(h) /\ future[o] = "pending" /\ o \notin S
    <3>1. completion[o] = "refused"
      BY <1>1, <2>2 DEF TypeOK
    <3> QED BY <1>1, <1>2, <2>2, <3>1 DEF TakenInVain
  <2>3. CASE ~(o \in Batch(h) /\ future[o] = "pending")
    BY <1>2, <2>3 DEF TakenInVain
  <2> QED BY <2>1, <2>2, <2>3
<1>5. \A o \in S : AbstractFuture[o] = "pending" /\ AbstractOutcome[o] \in {"ok", "error"}
  BY DEF TakenInVain
<1>6. Abstract!Resolve(S)
  BY <1>3, <1>4, <1>5 DEF Abstract!Resolve
<1>7. S \in SUBSET Ops
  OBVIOUS
<1> HIDE DEF S, AbstractFuture, AbstractOutcome
<1>8. \E T \in SUBSET Ops : Abstract!Resolve(T)
  BY <1>6, <1>7
<1> QED BY <1>8 DEF Abstract!Next

\* Every step of the hub is a step of the abstract operations, or none.
LEMMA StepImplements ==
  TypeOK /\ IInv /\ [Next]_vars => [Abstract!Next]_(Abstract!vars)
<1> DEFINE Goal == Abstract!Next \/ UNCHANGED Abstract!vars
<1> SUFFICES ASSUME TypeOK, IInv, [Next]_vars PROVE Goal
  OBVIOUS
<1> USE DEF opVars, hubVars
<1>1. ASSUME NEW o \in Ops, StartBridge(o) PROVE Goal
  <2>1. /\ future[o] = "none" /\ future' = [future EXCEPT ![o] = "pending"]
        /\ task' = [task EXCEPT ![o] = "running"] /\ completion' = completion
    BY <1>1 DEF StartBridge
  <2>2. task[o] = "none" /\ completion[o] = "pending"
    BY <2>1 DEF IInv, Shape, Registered, Unanswered
  <2>3. AbstractFuture[o] = "none"
        /\ AbstractFuture' = [AbstractFuture EXCEPT ![o] = "pending"]
    BY <2>1 DEF TypeOK
  <2>4. AbstractOutcome' = AbstractOutcome
    BY <2>1, <2>2 DEF TypeOK, TakenInVain
  <2> QED BY <2>3, <2>4 DEF Abstract!Next, Abstract!Begin
<1>2. ASSUME NEW o \in Ops, StartBridgeFails(o) PROVE Goal
  <2>1. /\ future[o] = "none" /\ future' = [future EXCEPT ![o] = "spent"]
        /\ task' = task /\ completion' = completion
    BY <1>2 DEF StartBridgeFails
  <2>2. AbstractFuture' = AbstractFuture
    BY <2>1 DEF TypeOK
  <2>3. AbstractOutcome' = AbstractOutcome
    BY <2>1 DEF TypeOK, TakenInVain
  <2> QED BY <2>2, <2>3 DEF Abstract!vars
<1>3. ASSUME NEW o \in Ops, UserCancel(o) PROVE Goal
  <2>1. CancelFutures({o}) /\ UNCHANGED <<completion, task>>
    BY <1>3 DEF UserCancel
  <2> QED BY <2>1, CancelImplements
<1>4. ASSUME NEW o \in Ops, Finish(o) PROVE Goal
  <2>1. PICK result \in Outcomes : completion' = [completion EXCEPT ![o] = result]
    BY <1>4 DEF Finish
  <2>2. /\ task[o] = "running" /\ task' = [task EXCEPT ![o] = "stored"]
        /\ future' = future
    BY <1>4 DEF Finish
  <2>3. completion[o] = "pending" /\ future[o] \notin {"none", "spent", "ok", "error"}
    BY <2>2, NoHubAssumption DEF IInv, Shape, Registered, Unanswered
  <2>4. result \in Abstract!Produced
    BY DEF Outcomes, Abstract!Produced
  <2>5. AbstractFuture' = AbstractFuture /\ AbstractFuture[o] # "none"
    BY <2>2, <2>3
  <2>6. AbstractOutcome[o] = "pending"
        /\ AbstractOutcome' = [AbstractOutcome EXCEPT ![o] = result]
    BY <2>1, <2>2, <2>3, <2>4 DEF TypeOK, TakenInVain, Abstract!Produced
  <2> QED BY <2>4, <2>5, <2>6 DEF Abstract!Next, Abstract!Produce
<1>5. ASSUME NEW o \in Ops, DropWork(o) PROVE Goal
  BY <1>5, SameAnswers DEF DropWork, TakenInVain, TypeOK
<1>6. ASSUME NEW o \in Ops, Publish(o) PROVE Goal
  <2>1. /\ UNCHANGED <<future, completion>> /\ task[o] = "stored"
        /\ \A p \in Ops : p # o => task'[p] = task[p]
    BY <1>6 DEF Publish, TypeOK
  <2>2. completion[o] # "pending"
    BY <2>1 DEF IInv, Results
  <2> QED BY <2>1, <2>2, SameAnswers DEF TakenInVain
<1>7. ASSUME NEW o \in Ops, WorkerWake(o) PROVE Goal
  BY <1>7, SameAnswers DEF WorkerWake, TakenInVain, TypeOK
<1>8. ASSUME NEW o \in Ops, CancelCallback(o) PROVE Goal
  BY <1>8, SameAnswers DEF CancelCallback, TakenInVain
<1>9. ASSUME NEW h \in Hubs, ReceiveWake(h) PROVE Goal
  BY <1>9, SameAnswers DEF ReceiveWake, TakenInVain
<1>10. ASSUME NEW h \in Hubs, WakeCancelled(h) PROVE Goal
  <2>1. UNCHANGED <<completion, task>>
    BY <1>10 DEF WakeCancelled
  <2>2. UNCHANGED future \/ CancelFutures(entries[h])
    BY <1>10 DEF WakeCancelled, CloseAndCancel, LoseReader
  <2> QED BY <2>1, <2>2, CancelImplements, SameAnswers DEF TakenInVain
<1>11. ASSUME NEW h \in Hubs, Drain(h) PROVE Goal
  BY <1>11, DrainImplements
<1>12. ASSUME NEW h \in Hubs, Rearm(h) PROVE Goal
  <2>1. UNCHANGED <<completion, task>>
    BY <1>12 DEF Rearm
  <2>2. UNCHANGED future \/ CancelFutures(entries[h])
    BY <1>12 DEF Rearm, CloseAndCancel, LoseReader
  <2> QED BY <2>1, <2>2, CancelImplements, SameAnswers DEF TakenInVain
<1>13. ASSUME NEW h \in Hubs, FoundIdle(h) PROVE Goal
  BY <1>13, SameAnswers DEF FoundIdle, TakenInVain
<1>14. ASSUME NEW h \in Hubs, ReceiveFails(h) PROVE Goal
  BY <1>14, SameAnswers DEF ReceiveFails, TakenInVain
<1>15. ASSUME NEW h \in Hubs, CancelReceive(h) PROVE Goal
  BY <1>15, SameAnswers DEF CancelReceive, TakenInVain
<1>16. CASE WakeIfIdle
  BY <1>16, SameAnswers DEF WakeIfIdle, TakenInVain
<1>17. CASE LoopWake
  BY <1>17, SameAnswers DEF LoopWake, TakenInVain
<1>18. CASE Settle
  <2>1. UNCHANGED <<completion, task>>
    BY <1>18 DEF Settle
  <2>2. UNCHANGED future \/ CancelFutures(entries[loopHub])
    BY <1>18 DEF Settle, CloseAndCancel, LoseReader
  <2> QED BY <2>1, <2>2, CancelImplements, SameAnswers DEF TakenInVain
<1>19. CASE Retire
  <2>1. UNCHANGED <<completion, task>>
    BY <1>19 DEF Retire
  <2>2. UNCHANGED future \/ CancelFutures(entries[loopHub])
    BY <1>19 DEF Retire, CloseAndCancel, LoseReader
  <2> QED BY <2>1, <2>2, CancelImplements, SameAnswers DEF TakenInVain
<1>20. CASE CollectLoop
  BY <1>20, SameAnswers DEF CollectLoop, TakenInVain
<1>21. CASE UNCHANGED vars
  BY <1>21, SameAnswers DEF vars, TakenInVain
<1> QED
  BY <1>1, <1>2, <1>3, <1>4, <1>5, <1>6, <1>7, <1>8, <1>9, <1>10, <1>11, <1>12,
     <1>13, <1>14, <1>15, <1>16, <1>17, <1>18, <1>19, <1>20, <1>21, NextCases

\* The hand-off implements the abstract operations, for any number of
\* operations and hubs and whichever calls fail: an awaited operation is
\* settled at most once, with the outcome its own task produced or by its own
\* cancellation, whatever hub, wake-up and callback carries it.
THEOREM Implements == Spec => ImplementsAsyncOps
<1>1. Init => Abstract!Init
  BY DEF Init, Abstract!Init, TakenInVain
<1> QED
  BY <1>1, StepImplements, TypeCorrect, Inductive, PTL
  DEF Spec, ImplementsAsyncOps, Abstract!Spec

\* No future is settled twice: not a drain after a cancellation, not a second
\* drain, not the cancellation of a hub's entries after an answer.
SettledOnce ==
  [][\A o \in Ops : future[o] \in {"ok", "error", "cancelled"} =>
       future'[o] = future[o]]_vars

\* What an await has been answered with stays its answer.
THEOREM SettledOnceHolds == Spec => SettledOnce
<1>1. TypeOK /\ IInv /\ [Next]_vars =>
        [\A o \in Ops : future[o] \in {"ok", "error", "cancelled"} =>
           future'[o] = future[o]]_vars
  <2> SUFFICES ASSUME TypeOK, TypeOK', IInv, [Next]_vars, NEW o \in Ops,
                      future[o] \in {"ok", "error", "cancelled"}
               PROVE  future'[o] = future[o]
    BY TypeStep
  <2>1. AbstractFuture[o] = future[o]
    OBVIOUS
  <2>2. AbstractFuture'[o] = AbstractFuture[o]
    BY StepImplements, <2>1
    DEF Abstract!Next, Abstract!Begin, Abstract!Produce, Abstract!Resolve,
        Abstract!Cancel, Abstract!vars
  <2> QED BY <2>1, <2>2
<1> QED BY <1>1, TypeCorrect, Inductive, PTL DEF Spec, SettledOnce

-----------------------------------------------------------------------------
(* What the delivery of a result can depend on.                            *)

\* Nothing breaks between a worker and the future.  Whether a callback can be
\* scheduled, re-armed or attached may still fail at any time.
SocketHolds == Faults \intersect {"write", "receive", "close", "refuse"} = {}

\* With a socket that holds, an open hub is healthy until it is closed.
OpenIsHealthy ==
  SocketHolds =>
    /\ \A h \in Hubs : Open(h) => Healthy(h)
    /\ \A o \in Ops : completion[o] # "refused" /\ (future[o] = "pending" => ~TakenInVain(o))

\* Closing a hub leaves the others as they are.
LEMMA CloseHealthy ==
  ASSUME TypeOK, SocketHolds, OpenIsHealthy, NEW h \in Hubs, CloseAndCancel(h),
         UNCHANGED <<completion, task>>
  PROVE  OpenIsHealthy'
<1>1. /\ phase' = [phase EXCEPT ![h] = "closed"] /\ writer' = [writer EXCEPT ![h] = FALSE]
      /\ receive' = [receive EXCEPT ![h] = "none"]
  BY DEF CloseAndCancel, CloseHub
<1>2. \A k \in Hubs : Open(k)' => k # h /\ Open(k) /\ Healthy(k)
  BY <1>1 DEF TypeOK, OpenIsHealthy
<1>3. \A k \in Hubs : Open(k)' => Healthy(k)'
  BY <1>1, <1>2 DEF TypeOK, Healthy
<1>4. \A o \in Ops : future'[o] = "pending" => future[o] = "pending"
  BY DEF CloseAndCancel, CancelFutures
<1> QED BY <1>3, <1>4 DEF OpenIsHealthy, TakenInVain

\* A write, a receive and a close that succeed keep an open hub healthy.
LEMMA HealthyStep ==
  ASSUME TypeOK, IInv, OpenIsHealthy, [Next]_vars PROVE OpenIsHealthy'
<1> SUFFICES ASSUME SocketHolds PROVE OpenIsHealthy'
  BY DEF OpenIsHealthy
<1> USE DEF TypeOK, opVars, hubVars, IInv, OpenIsHealthy, Healthy, TakenInVain, SocketHolds,
           Shape, ClosedHoldsNothing, Registered, LoopShape, Results
<1>1. ASSUME NEW o \in Ops, StartBridge(o) PROVE OpenIsHealthy'
  <2>1. PICK h \in Hubs : ReuseHub(h) \/ CreateHub(h)
    BY <1>1 DEF StartBridge
  <2>2. /\ completion' = completion /\ future' = [future EXCEPT ![o] = "pending"]
        /\ task' = [task EXCEPT ![o] = "running"]
    BY <1>1 DEF StartBridge
  <2>3. \A k \in Hubs : Open(k)' => Healthy(k)'
    BY <2>1 DEF ReuseHub, CreateHub
  <2>4. \A p \in Ops : future'[p] = "pending" => ~TakenInVain(p)'
    BY <2>2
  <2> QED BY <2>2, <2>3, <2>4
<1>2. ASSUME NEW o \in Ops, StartBridgeFails(o) PROVE OpenIsHealthy'
  BY <1>2 DEF StartBridgeFails, ReuseHub, CreateHub, HubIsOpen
<1>3. ASSUME NEW o \in Ops, UserCancel(o) PROVE OpenIsHealthy'
  BY <1>3 DEF UserCancel, CancelFutures
<1>4. ASSUME NEW o \in Ops, Finish(o) PROVE OpenIsHealthy'
  BY <1>4 DEF Finish, Outcomes
<1>5. ASSUME NEW o \in Ops, DropWork(o) PROVE OpenIsHealthy'
  BY <1>5 DEF DropWork
<1>6. ASSUME NEW o \in Ops, Publish(o) PROVE OpenIsHealthy'
  <2>1. /\ UNCHANGED <<future, completion, phase, writer, receive>>
        /\ task[o] = "stored" /\ \A p \in Ops : p # o => task'[p] = task[p]
    BY <1>6 DEF Publish
  <2>2. completion[o] # "pending"
    BY <2>1
  <2> QED BY <2>1, <2>2
<1>7. ASSUME NEW o \in Ops, WorkerWake(o) PROVE OpenIsHealthy'
  BY <1>7 DEF WorkerWake, Wake
<1>8. ASSUME NEW o \in Ops, CancelCallback(o) PROVE OpenIsHealthy'
  BY <1>8 DEF CancelCallback
<1>9. ASSUME NEW h \in Hubs, ReceiveWake(h) PROVE OpenIsHealthy'
  BY <1>9 DEF ReceiveWake, ReadSocket
<1>10. ASSUME NEW h \in Hubs, WakeCancelled(h) PROVE OpenIsHealthy'
  BY <1>10, CloseHealthy DEF WakeCancelled, LoseReader
<1>11. ASSUME NEW h \in Hubs, Drain(h) PROVE OpenIsHealthy'
  BY <1>11 DEF Drain, TakeReady, Batch, Settled
<1>12. ASSUME NEW h \in Hubs, Rearm(h) PROVE OpenIsHealthy'
  <2>1. CASE CloseAndCancel(h)
    BY <1>12, <2>1, CloseHealthy DEF Rearm
  <2> QED BY <1>12, <2>1 DEF Rearm
<1>13. ASSUME NEW h \in Hubs, FoundIdle(h) PROVE OpenIsHealthy'
  BY <1>13 DEF FoundIdle, HasEntries
<1>14. ASSUME NEW h \in Hubs, ReceiveFails(h) PROVE OpenIsHealthy'
  BY <1>14 DEF ReceiveFails
<1>15. ASSUME NEW h \in Hubs, CancelReceive(h) PROVE OpenIsHealthy'
  BY <1>15 DEF CancelReceive
<1>16. CASE WakeIfIdle
  BY <1>16 DEF WakeIfIdle, IdleUnwoken
<1>17. CASE LoopWake
  BY <1>17 DEF LoopWake, Wake
<1>18. CASE Settle
  <2>1. loopHub \in Hubs
    BY <1>18 DEF Settle
  <2>2. CASE CloseAndCancel(loopHub)
    BY <1>18, <2>1, <2>2, CloseHealthy DEF Settle
  <2> QED BY <1>18, <2>1, <2>2 DEF Settle, LoseReader
<1>19. CASE Retire
  BY <1>19 DEF Retire, CloseAndCancel, CloseHub, CancelFutures, LoseReader
<1>20. CASE CollectLoop
  BY <1>20 DEF CollectLoop, CloseHub
<1>21. CASE UNCHANGED vars
  BY <1>21 DEF vars
<1> QED
  BY <1>1, <1>2, <1>3, <1>4, <1>5, <1>6, <1>7, <1>8, <1>9, <1>10, <1>11, <1>12,
     <1>13, <1>14, <1>15, <1>16, <1>17, <1>18, <1>19, <1>20, <1>21, NextCases

\* A result that has been published and still has somebody waiting for it is in
\* the queue of the open hub, and a wake-up for that hub is in flight: all that
\* is left is for the loop to turn.
OnItsWay ==
  SocketHolds =>
    \A o \in Ops :
      future[o] = "pending" /\ task[o] \in {"claimed", "ended"} /\ loop # "gone" =>
        \E h \in Hubs : Open(h) /\ o \in ready[h] /\ WakeInFlight(h)

\* No published result lies in a queue without a wake-up, as long as sockets hold.
THEOREM OnItsWayHolds == Spec => []OnItsWay
<1>1. Init => OpenIsHealthy
  BY DEF Init, OpenIsHealthy, TakenInVain
<1>2. TypeOK /\ IInv /\ OpenIsHealthy => OnItsWay
  <2> SUFFICES ASSUME TypeOK, IInv, OpenIsHealthy, SocketHolds, NEW o \in Ops,
                      future[o] = "pending", task[o] \in {"claimed", "ended"}, loop # "gone"
               PROVE  \E h \in Hubs : Open(h) /\ o \in ready[h] /\ WakeInFlight(h)
    BY DEF OnItsWay
  <2>1. PICK h \in Hubs : o \in entries[h]
    BY DEF IInv, Awaited, OpenIsHealthy
  <2>2. o \in ready[h] /\ Open(h)
    BY <2>1 DEF IInv, Awaited, Shape, ClosedHoldsNothing
  <2>3. WakeInFlight(h)
    BY <2>2 DEF OpenIsHealthy, IInv, Token, QueueIsClaimed, ClaimIsWakeup
  <2> QED BY <2>2, <2>3
<1> QED BY <1>1, <1>2, HealthyStep, TypeCorrect, Inductive, PTL DEF Spec

=============================================================================
