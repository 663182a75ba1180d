--------------------------- MODULE RunningProcess ---------------------------
(***************************************************************************)
(* Who owns one started run (src/running.rs): the handle's shared slot,    *)
(* the finisher an event stream starts on the handle's behalf, or one of   *)
(* the callers that race to consume the handle.                            *)
(*                                                                         *)
(* Two mutexes guard the ownership, always taken in the order `finish`,    *)
(* then process slot, and never held across an await.  A step is what one  *)
(* critical section does; the event drive is the one actor that holds      *)
(* `finish` across several of them (start_joint_finish).                   *)
(*                                                                         *)
(* The run itself belongs to the processkit crate.  As running.rs relies   *)
(* on it: a kill ends the direct child; a consuming future publishes the   *)
(* exit once it has reaped the child, and finish() then waits for the      *)
(* output pipe, which descendants may hold; dropping the run takes the     *)
(* whole tree down.                                                        *)
(***************************************************************************)
EXTENDS Naturals, FiniteSets

CONSTANTS
  Callers,   \* Threads or tasks; each makes one consuming call.
  Hazards    \* What callers do at the worst time: see HazardKinds.

\* "interrupt"  a waiting call is cancelled or hit by Ctrl+C, or its awaitable
\*              is dropped
\* "collect"    the handle is dropped while an __anext__ is in flight
HazardKinds == {"interrupt", "collect"}

ASSUME HazardsAssumption == Hazards \subseteq HazardKinds

VARIABLES
  handle,    \* The Python object: "held", "dropping", "gone".
  slot,      \* The process slot is Some.
  finish,    \* JointFinish.
  finisher,  \* The task start_joint_finish spawned.
  tree,      \* "child" runs; the "rest" of its tree holds the pipe; "gone".
  published, \* The event stream has been given the exit.
  stream,    \* The event stream and its drive: see StreamStates.
  reaping,   \* EventsDrive.reap_started.
  verb,      \* What each caller called.
  lazy,      \* Callers whose a-verb's awaitable nobody has awaited yet.
  pc,        \* How far it is.
  answer     \* What it was told.

handleVars == <<handle, slot, finish>>
runVars    == <<finisher, tree, published>>
driveVars  == <<stream, reaping>>
callVars   == <<verb, lazy, pc, answer>>
vars       == <<handleVars, runVars, driveVars, callVars>>

\* `outcome` (and its a-twin) waits for the child, `finish` and `output` for
\* the output too; `shutdown` and a context-manager `exit` kill first.  `output`
\* stands for output_bytes and profile as well.
Verbs  == {"outcome", "finish", "output", "shutdown", "exit"}
Drains == {"finish", "output"}
Kills  == {"shutdown", "exit"}

Claiming == {"check", "claim", "take", "recheck"}   \* inside the synchronous part
Waiting  == {"process", "joint"}                    \* awaiting what was claimed

\* "parked": no __anext__ in flight.  "probed": the child is known to have
\* exited.  "locked" and "took": inside start_joint_finish.
InFlight     == {"waiting", "probed", "locked", "took"}
StreamStates == InFlight \union {"none", "parked", "ended"}

Init ==
  /\ handle = "held" /\ slot = TRUE /\ finish = "NotStarted"
  /\ finisher = "none" /\ tree = "child" /\ published = FALSE
  /\ stream = "none" /\ reaping = FALSE
  /\ verb   = [t \in Callers |-> "none"]
  /\ lazy   = {}
  /\ pc     = [t \in Callers |-> "idle"]
  /\ answer = [t \in Callers |-> "none"]

FinishUnlocked == stream \notin {"locked", "took"}

-----------------------------------------------------------------------------
(* The run.                                                                *)

\* start_kill on the direct child.
Killed == IF tree = "child" THEN "rest" ELSE tree

ChildExits ==
  /\ tree = "child"
  /\ tree' = "rest"
  /\ UNCHANGED <<handleVars, finisher, published, driveVars, callVars>>

PipeCloses ==
  /\ tree = "rest"
  /\ tree' = "gone"
  /\ UNCHANGED <<handleVars, finisher, published, driveVars, callVars>>

\* RunningProcess.kill.
Kill ==
  /\ handle = "held" /\ slot
  /\ tree' = Killed
  /\ UNCHANGED <<handleVars, finisher, published, driveVars, callVars>>

-----------------------------------------------------------------------------
(* A consuming call.  The claim is made when the verb is called.  A plain   *)
(* verb, or an a-verb's future once it is awaited, then waits for what was  *)
(* claimed; an awaitable that is not awaited just keeps it.                 *)

Call(t, v) ==
  /\ handle = "held" /\ pc[t] = "idle"
  /\ verb' = [verb EXCEPT ![t] = v]
  /\ lazy' \in {lazy, lazy \union {t}}
  /\ pc'   = [pc EXCEPT ![t] = IF v = "output" THEN "check" ELSE "claim"]
  /\ UNCHANGED <<handleVars, runVars, driveVars, answer>>

\* The call is over, and t is told a.
Return(t, a) ==
  /\ pc'     = [pc EXCEPT ![t] = "end"]
  /\ answer' = [answer EXCEPT ![t] = a]

\* take_running_uncaptured: refuse a run whose output was streamed.
CheckUncaptured(t) ==
  /\ pc[t] = "check" /\ FinishUnlocked
  /\ IF finish = "NotStarted"
       THEN pc' = [pc EXCEPT ![t] = "take"] /\ UNCHANGED answer
       ELSE Return(t, "streamed")
  /\ UNCHANGED <<handleVars, runVars, driveVars, verb, lazy>>

\* Mutant: the joint finisher is read but left in its slot.
TakeJointCopied(t) ==
  /\ finish = "Running"
  /\ pc' = [pc EXCEPT ![t] = "joint"]
  /\ UNCHANGED <<finish, answer>>

\* take_claim takes the joint finisher, if there is one, under `finish` ...
TakeJoint(t) ==
  /\ finish = "Running"
  /\ finish' = "Taken"
  /\ pc' = [pc EXCEPT ![t] = "joint"]
  /\ UNCHANGED answer

ClaimJoint(t) ==
  /\ pc[t] = "claim" /\ FinishUnlocked
  /\ \/ TakeJoint(t)
     \/ /\ finish # "Running"
        /\ pc' = [pc EXCEPT ![t] = "take"]
        /\ UNCHANGED <<finish, answer>>
  /\ UNCHANGED <<handle, slot, runVars, driveVars, verb, lazy>>

\* ... then the process out of the slot ...
ClaimProcess(t) ==
  /\ pc[t] = "take"
  /\ \/ /\ slot
        /\ slot' = FALSE
        /\ pc' = [pc EXCEPT ![t] = "process"]
        /\ UNCHANGED answer
     \/ /\ ~slot /\ verb[t] # "output"
        /\ pc' = [pc EXCEPT ![t] = "recheck"]
        /\ UNCHANGED <<slot, answer>>
     \/ /\ ~slot /\ verb[t] = "output"
        /\ Return(t, "consumed")
        /\ UNCHANGED slot
  /\ UNCHANGED <<handle, finish, runVars, driveVars, verb, lazy>>

\* Mutant: an empty slot is the end of it.
RecheckSkipped(t) ==
  /\ pc[t] = "recheck" /\ FinishUnlocked
  /\ Return(t, "consumed")
  /\ UNCHANGED <<handleVars, runVars, driveVars, verb, lazy>>

\* ... and, the slot being empty, looks for the joint finisher once more.
Recheck(t) ==
  /\ pc[t] = "recheck" /\ FinishUnlocked
  /\ \/ TakeJoint(t)
     \/ /\ finish # "Running"
        /\ Return(t, "consumed")
        /\ UNCHANGED finish
  /\ UNCHANGED <<handle, slot, runVars, driveVars, verb, lazy>>

\* PyLazyFuture.__await__ hands the work to the runtime.
Await(t) ==
  /\ t \in lazy /\ pc[t] \in Waiting
  /\ lazy' = lazy \ {t}
  /\ UNCHANGED <<handleVars, runVars, driveVars, verb, pc, answer>>

\* The runtime, or the thread that called, drives what t has claimed.
Driven(t, claimed) == pc[t] = claimed /\ t \notin lazy

Done(t) == IF verb[t] = "exit" THEN "closed" ELSE "outcome"

\* shutdown and kill_and_reap: the kill comes before the wait.
KillFirst(t) ==
  /\ Driven(t, "process") /\ verb[t] \in Kills /\ tree = "child"
  /\ tree' = Killed
  /\ UNCHANGED <<handleVars, finisher, published, driveVars, callVars>>

\* The crate's future has reaped the child.
ReapProcess(t) ==
  /\ Driven(t, "process") /\ ~published /\ tree # "child"
  /\ published' = TRUE
  /\ UNCHANGED <<handleVars, finisher, tree, driveVars, callVars>>

\* It returns, and the run it consumed is dropped.
EndProcess(t) ==
  /\ Driven(t, "process")
  /\ published /\ (verb[t] \in Drains => tree = "gone")
  /\ Return(t, Done(t))
  /\ tree' = "gone"
  /\ UNCHANGED <<handleVars, finisher, published, driveVars, verb, lazy>>

\* Or it fails (a kill, a wait or a read that errs), with the same effect.
FailProcess(t) ==
  /\ Driven(t, "process")
  /\ Return(t, "failed")
  /\ tree' = "gone"
  /\ UNCHANGED <<handleVars, finisher, published, driveVars, verb, lazy>>

\* Mutant: teardown waits for the finisher without aborting it.
AbortJointSkipped(t) == FALSE

\* teardown aborts the finisher it claimed ...
AbortJoint(t) ==
  /\ Driven(t, "joint") /\ verb[t] = "exit" /\ finisher = "running"
  /\ finisher' = "aborted"
  /\ UNCHANGED <<handleVars, tree, published, driveVars, callVars>>

\* Mutant: teardown returns as soon as it has aborted.
JoinedEarly == {"done", "dropped", "aborted"}

\* ... and every claimant of the finisher waits for its end.
Joined == {"done", "dropped"}

EndJoint(t) ==
  /\ Driven(t, "joint") /\ finisher \in Joined
  /\ \/ verb[t] = "exit" /\ Return(t, "closed")
     \/ verb[t] # "exit" /\ finisher = "done" /\ Return(t, "outcome")
     \/ verb[t] # "exit" /\ finisher = "dropped" /\ Return(t, "failed")
  /\ UNCHANGED <<handleVars, runVars, driveVars, verb, lazy>>

\* The future is dropped while it waits, before anyone has awaited it, or because
\* the bridge cannot start it.  With it goes the process it holds, or just the
\* JoinHandle: the finisher runs on, detached.
Interrupt(t) ==
  /\ "interrupt" \in Hazards
  /\ pc[t] \in Waiting
  /\ Return(t, "cancelled")
  /\ tree' = IF pc[t] = "process" THEN "gone" ELSE tree
  /\ UNCHANGED <<handleVars, finisher, published, driveVars, verb, lazy>>

-----------------------------------------------------------------------------
(* The joint finisher: a task that owns the run and finishes it.           *)

FinisherReaps ==
  /\ finisher = "running" /\ ~published /\ tree # "child"
  /\ published' = TRUE
  /\ UNCHANGED <<handleVars, finisher, tree, driveVars, callVars>>

FinisherDone ==
  /\ finisher = "running" /\ published /\ tree = "gone"
  /\ finisher' = "done"
  /\ UNCHANGED <<handleVars, tree, published, driveVars, callVars>>

\* The runtime drops the aborted task, and the run with it.
FinisherDropped ==
  /\ finisher = "aborted"
  /\ finisher' = "dropped"
  /\ tree' = "gone"
  /\ UNCHANGED <<handleVars, published, driveVars, callVars>>

-----------------------------------------------------------------------------
(* The event stream and its drive.                                         *)

\* output_events, stderr_lines, lifecycle_events: once per run.
OpenStream ==
  /\ handle = "held" /\ slot /\ stream = "none"
  /\ stream' = "parked"
  /\ UNCHANGED <<handleVars, runVars, reaping, callVars>>

\* __anext__; and its end, with a line or abandoned by its consumer.  The
\* drive's only await points are in the "waiting" state.
Pull ==
  /\ stream = "parked" /\ handle # "dropping"
  /\ stream' = "waiting"
  /\ UNCHANGED <<handleVars, runVars, reaping, callVars>>

Pause ==
  /\ stream = "waiting"
  /\ stream' = "parked"
  /\ UNCHANGED <<handleVars, runVars, reaping, callVars>>

\* The idle window lapses: IdleGuard.kill, then IdleTimeout.
IdleLapse ==
  /\ stream = "waiting"
  /\ stream' = "parked"
  /\ tree' = IF slot THEN Killed ELSE tree
  /\ UNCHANGED <<handleVars, finisher, published, reaping, callVars>>

\* Nobody holds the run any more.
RunDropped ==
  /\ ~slot /\ stream # "took" /\ finisher \notin {"running", "aborted"}
  /\ \A t \in Callers : pc[t] # "process"

\* stream.next() gives the terminal event, or the end of a dropped run.
StreamEnd ==
  /\ stream = "waiting" /\ (published \/ RunDropped)
  /\ stream' = "ended"
  /\ UNCHANGED <<handleVars, runVars, reaping, callVars>>

\* Mutant: the probe does not wait for the exit.
ProbeEager ==
  /\ stream = "waiting" /\ ~reaping /\ slot
  /\ stream' = "probed"
  /\ UNCHANGED <<handleVars, runVars, reaping, callVars>>

\* Mutant: a child found running is not asked again.
ProbeOnce ==
  /\ stream = "waiting" /\ ~reaping
  /\ IF slot /\ tree # "child"
       THEN stream' = "probed" /\ UNCHANGED reaping
       ELSE reaping' = TRUE /\ UNCHANGED stream
  /\ UNCHANGED <<handleVars, runVars, callVars>>

\* probe_exit_now, under the slot's lock; a run still going is asked again.
Probe ==
  /\ stream = "waiting" /\ ~reaping
  /\ \/ /\ slot /\ tree # "child"
        /\ stream' = "probed"
        /\ UNCHANGED reaping
     \/ /\ ~slot
        /\ reaping' = TRUE
        /\ UNCHANGED stream
  /\ UNCHANGED <<handleVars, runVars, callVars>>

\* start_joint_finish: lock `finish`, leave if it is not NotStarted ...
JointLock ==
  /\ stream = "probed"
  /\ \/ finish = "NotStarted" /\ stream' = "locked" /\ UNCHANGED reaping
     \/ finish # "NotStarted" /\ stream' = "waiting" /\ reaping' = TRUE
  /\ UNCHANGED <<handleVars, runVars, callVars>>

\* ... take the process, unless a consuming verb was faster ...
JointTake ==
  /\ stream = "locked"
  /\ \/ slot /\ slot' = FALSE /\ stream' = "took" /\ UNCHANGED reaping
     \/ ~slot /\ stream' = "waiting" /\ reaping' = TRUE /\ UNCHANGED slot
  /\ UNCHANGED <<handle, finish, runVars, callVars>>

\* ... spawn the finisher, publish it, unlock.
JointSpawn ==
  /\ stream = "took"
  /\ finish' = "Running" /\ finisher' = "running"
  /\ stream' = "waiting" /\ reaping' = TRUE
  /\ UNCHANGED <<handle, slot, tree, published, callVars>>

-----------------------------------------------------------------------------
(* Dropping the handle.  No method is running then, but an a-verb's future  *)
(* and an __anext__ may be.                                                *)

Unused ==
  /\ \A t \in Callers : pc[t] \notin Claiming
  /\ "collect" \in Hazards \/ stream \notin InFlight

\* Mutant: Drop aborts a finisher that a verb has claimed.
DropFinishAnyone ==
  /\ handle = "held" /\ Unused /\ FinishUnlocked
  /\ handle' = "dropping"
  /\ finisher' = IF finisher = "running" THEN "aborted" ELSE finisher
  /\ UNCHANGED <<slot, finish, tree, published, driveVars, callVars>>

\* Drop, first under `finish`: abort the finisher still there ...
DropFinish ==
  /\ handle = "held" /\ Unused /\ FinishUnlocked
  /\ handle' = "dropping"
  /\ finisher' = IF finish = "Running" /\ finisher = "running" THEN "aborted" ELSE finisher
  /\ UNCHANGED <<slot, finish, tree, published, driveVars, callVars>>

\* ... then empty the slot.
DropProcess ==
  /\ handle = "dropping"
  /\ handle' = "gone"
  /\ slot' = FALSE
  /\ tree' = IF slot THEN "gone" ELSE tree
  /\ UNCHANGED <<finish, finisher, published, driveVars, callVars>>

-----------------------------------------------------------------------------

CallerStep(t) ==
  \/ CheckUncaptured(t) \/ ClaimJoint(t) \/ ClaimProcess(t) \/ Recheck(t)
  \/ KillFirst(t) \/ ReapProcess(t) \/ EndProcess(t) \/ AbortJoint(t) \/ EndJoint(t)

Finisher == FinisherReaps \/ FinisherDone \/ FinisherDropped

Drive == StreamEnd \/ Probe \/ JointLock \/ JointTake \/ JointSpawn

Next ==
  \/ ChildExits \/ PipeCloses \/ Kill
  \/ \E t \in Callers : \/ \E v \in Verbs : Call(t, v)
                        \/ CallerStep(t) \/ Await(t) \/ FailProcess(t) \/ Interrupt(t)
  \/ Finisher
  \/ OpenStream \/ Pull \/ Pause \/ IdleLapse \/ Drive
  \/ DropFinish \/ DropProcess

\* The runtime polls the drive, the finisher and what has been awaited, and a
\* claim that was begun is made.  A child need not exit, its descendants need not
\* let go of the pipe, and nobody has to pull, call, await or drop anything.
Fairness ==
  /\ \A t \in Callers : WF_vars(CallerStep(t))
  /\ WF_vars(Finisher)
  /\ WF_vars(Drive)

Spec == Init /\ [][Next]_vars

FairSpec == Spec /\ Fairness

-----------------------------------------------------------------------------
(* Safety.                                                                 *)

TypeOK ==
  /\ handle    \in {"held", "dropping", "gone"}
  /\ slot      \in BOOLEAN
  /\ finish    \in {"NotStarted", "Running", "Taken"}
  /\ finisher  \in {"none", "running", "aborted", "done", "dropped"}
  /\ tree      \in {"child", "rest", "gone"}
  /\ published \in BOOLEAN
  /\ stream    \in StreamStates
  /\ reaping   \in BOOLEAN
  /\ verb      \in [Callers -> Verbs \union {"none"}]
  /\ lazy      \in SUBSET Callers
  /\ pc        \in [Callers -> Claiming \union Waiting \union {"idle", "end"}]
  /\ answer    \in [Callers -> {"none", "outcome", "closed", "consumed", "streamed",
                                "failed", "cancelled"}]

\* The places the run, or the one handle on its finisher, can be claimed from
\* or is being waited for in.
SlotHolds   == IF slot THEN {"slot"} ELSE {}
DriveHolds  == IF stream = "took" THEN {"drive"} ELSE {}
FinishHolds   == IF finish = "Running" THEN {"finish"} ELSE {}
CallersHold == {t \in Callers : pc[t] \in Waiting}
Claims      == SlotHolds \union DriveHolds \union FinishHolds

\* One owner: the run is never in two places at once, so it is reaped, killed
\* or reported by one party only (take_claim against start_joint_finish).
OneOwner ==
  /\ \A a, b \in Claims : a = b
  /\ \A t, u \in CallersHold : t = u
  /\ CallersHold # {} => Claims = {}

\* A caller that has had the run, whatever became of it.
Claimed(t) ==
  \/ pc[t] \in Waiting
  \/ answer[t] \in {"outcome", "closed", "failed", "cancelled"}

\* A verb says "the process handle has been consumed", and a context-manager
\* exit does nothing, only when some caller took the run: never because the
\* binding's own event drive was just moving it into the finisher.
NeverFalselyConsumed ==
  \A t \in Callers :
    answer[t] = "consumed" /\ verb[t] # "output" =>
      \E u \in Callers \ {t} : Claimed(u)

\* A context-manager exit that took the run returns with the tree gone, not
\* merely doomed (teardown awaits the aborted finisher).
ClosedMeansGone ==
  \A t \in Callers : answer[t] = "closed" => tree = "gone"

\* Dropping the handle never aborts a finisher some verb is waiting for.
DropSparesReport ==
  \A t \in Callers :
    pc[t] = "joint" /\ verb[t] # "exit" => finisher \in {"running", "done"}

\* Streaming events spends nothing while the child lives: the process is in
\* the slot, where kill(), take_stdin() and a teardown find it, until some
\* caller takes it or the handle goes.
LiveHandle ==
  handle = "held" /\ tree = "child" /\ (\A t \in Callers : ~Claimed(t)) => slot

\* A running finisher is never the only thing left between the caller and an
\* orphaned tree: the handle or a waiting caller can still end it.
NoOrphan ==
  finisher = "running" =>
    \/ finish = "Running" /\ handle # "gone"
    \/ \E t \in Callers : pc[t] = "joint"

-----------------------------------------------------------------------------
(* Liveness.                                                               *)

\* An a-verb has taken the process, and nobody has awaited it.
LeftUnawaited == \E t \in lazy : pc[t] = "process"

\* Draining the events of a child that has exited comes to an end: the drive
\* never waits for a reap that waits for the stream to be drained.  Only an
\* a-verb that took the process and is not awaited can hold it up, and no longer
\* than that; one that took the joint finisher cannot.
StreamEnds ==
  stream \in InFlight /\ tree # "child" ~>
    stream \in {"parked", "ended"} \/ LeftUnawaited

\* Leaving a `with` block, or an `async with` whose __aexit__ is awaited, returns,
\* even over descendants that hold the pipe.
ExitReturns ==
  \A t \in Callers : verb[t] = "exit" /\ t \notin lazy ~> pc[t] = "end"

-----------------------------------------------------------------------------
(* What a run promises its callers: see ClaimedRun.                        *)

AbstractRun ==
  IF \E t \in Callers : Claimed(t) THEN "taken"
  ELSE IF handle = "held" THEN "there" ELSE "lost"

\* `output` refuses a run whose output has been streamed; it is also refused,
\* without a second look, while the event drive moves the run.
Declined(t) == answer[t] = "streamed" \/ (answer[t] = "consumed" /\ verb[t] = "output")

AbstractTold ==
  [t \in Callers |-> IF Declined(t) THEN "declined"
                     ELSE IF answer[t] = "none" THEN "nothing" ELSE answer[t]]

Abstract == INSTANCE ClaimedRun WITH run     <- AbstractRun,
                                     holding <- CallersHold,
                                     told    <- AbstractTold

\* Callers, finisher, drive and Drop together are one run that one caller takes,
\* whose answer is its own, while the others are refused truthfully (take_claim).
ImplementsClaimedRun == Abstract!Spec

=============================================================================
