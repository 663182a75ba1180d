----------------------------- MODULE Supervision -----------------------------
(***************************************************************************)
(* One Supervisor, the session it may start, and the calls that race for   *)
(* them (src/supervisor.rs, with WhenCaptureRunner of src/runner.rs).      *)
(*                                                                         *)
(* The supervisor and the session sit each in a locked slot that a         *)
(* terminal call empties; an a-verb's awaitable holds what the call took,  *)
(* awaited or not.  The restart loop runs in the crate and calls back into *)
(* Python.  Its callbacks cannot fail, so the binding keeps what a Python  *)
(* callable raised in a cell and answers the loop with a verdict; whoever  *)
(* collects the loop's result looks into the cells first.                  *)
(*                                                                         *)
(* Of the crate, supervisor.rs relies on this: its gates run in the order  *)
(* stop_when, policy, give_up_when, max_restarts; a failed health check    *)
(* kills the incarnation, which counts as a crash that stop_when does not  *)
(* see; dropping the loop's future or an open session ends the incarnation.*)
(***************************************************************************)
EXTENDS Naturals, FiniteSets

CONSTANTS
  Calls,         \* Calls made on the supervisor and its session.
  MaxRestarts    \* The largest max_restarts= that is tried.

ASSUME MaxRestartsAssumption == MaxRestarts \in Nat

Unlimited == MaxRestarts + 1      \* max_restarts=None

VARIABLES
  policy,        \* restart=, fixed at construction.
  limit,         \* max_restarts=.
  forked,        \* The process is a fork of one that had used the runtime.
  supervisor,    \* PySupervisor.inner is full.
  session,       \* PySupervisionSession.inner: no such object, full, emptied.
  verb,          \* What each open call is.
  call,          \* How far it is.
  answer,        \* What it has come to.
  loop,          \* What the restart loop is doing.
  attempt,       \* How the latest incarnation came out.
  restarts,      \* Restarts so far, when they are limited.
  slot,          \* error_slot: a control callback or a probe has raised.
  completed,     \* when_runner.completed: a runner's predicate has raised.
  raised         \* History: which kinds of callback have raised.

config     == <<policy, limit, forked>>
callVars   == <<verb, call, answer>>
loopVars   == <<loop, attempt, restarts>>
cells      == <<slot, completed, raised>>
vars       == <<config, supervisor, session, callVars, loopVars, cells>>

Starts    == {"run", "arun", "start", "astart"}        \* take the supervisor
Exits     == {"exit", "aexit"}                         \* of a with block
Stopping  == {"stop", "astop"} \union Exits
Ends      == {"wait", "await_wait"} \union Stopping     \* take the session
Verbs     == Starts \union Ends
Lazy      == {"arun", "astart", "await_wait", "astop", "aexit"}

Active    == {"launch", "up", "judging"}       \* the loop can still do something

Init ==
  /\ policy \in {"always", "on_crash", "never"}
  /\ limit \in 0 .. Unlimited
  /\ forked \in BOOLEAN
  /\ supervisor = TRUE
  /\ session    = "none"
  /\ verb       = [c \in Calls |-> "none"]
  /\ call       = [c \in Calls |-> "idle"]
  /\ answer     = [c \in Calls |-> "none"]
  /\ loop       = "none"
  /\ attempt    = "none"
  /\ restarts   = 0
  /\ slot       = FALSE
  /\ completed  = FALSE
  /\ raised     = {}

-----------------------------------------------------------------------------
(* The restart loop and its callbacks.                                     *)

\* record_slot_error: the callback's error is kept for the collecting call.
RaiseInto(who) ==
  /\ slot' = TRUE
  /\ raised' = raised \union {who}
  /\ UNCHANGED completed

\* WhenCaptureRunner: the verb runs under a sink of its own, and what the
\* runner's predicate raised into it is recorded when the verb is through.
RunnerVerb ==
  \E raises \in BOOLEAN :
    /\ completed' = (completed \/ raises)
    /\ raised' = IF raises THEN raised \union {"when"} ELSE raised
    /\ UNCHANGED slot

\* The next incarnation starts.
Launch ==
  /\ loop = "launch"
  /\ loop' = "up"
  /\ attempt' = "none"
  /\ RunnerVerb
  /\ UNCHANGED <<config, supervisor, session, callVars, restarts>>

\* It cannot be started at all; the runner may have asked its predicate before.
LaunchFails ==
  /\ loop = "launch"
  /\ loop' = "judging"
  /\ attempt' = "failed"
  /\ RunnerVerb
  /\ UNCHANGED <<config, supervisor, session, callVars, restarts>>

\* It runs to an end of its own.
Exit ==
  /\ loop = "up"
  /\ loop' = "judging"
  /\ attempt' \in {"clean", "crash"}
  /\ UNCHANGED <<config, supervisor, session, callVars, restarts, cells>>

\* make_health_probe: a probe that raises counts as a failed one.  It may be
\* the one failure too many of the streak: the incarnation is killed.
ProbeFails ==
  /\ loop = "up"
  /\ RaiseInto("health") \/ UNCHANGED cells
  /\ \/ loop' = "judging" /\ attempt' = "killed"
     \/ UNCHANGED <<loop, attempt>>
  /\ UNCHANGED <<config, supervisor, session, callVars, restarts>>

HasResult == attempt \in {"clean", "crash"}
PolicyEnds == policy = "never" \/ (policy = "on_crash" /\ attempt = "clean")
Exhausted == limit # Unlimited /\ restarts >= limit

Halt == loop' = "ended" /\ UNCHANGED <<attempt, restarts>>

\* The closure installed as stop_when, ahead of the policy: an error the runner
\* recorded stops the loop before the caller's predicate is asked.
StopByRunner ==
  /\ loop = "judging" /\ HasResult /\ completed
  /\ Halt
  /\ UNCHANGED <<config, supervisor, session, callVars, cells>>

\* Mutant: a predicate that raises reads as "do not stop".
StopByPredicateOrGuess ==
  /\ loop = "judging" /\ HasResult /\ ~completed
  /\ \/ UNCHANGED cells /\ Halt
     \/ RaiseInto("control") /\ loop' = "launch" /\ UNCHANGED <<attempt, restarts>>
  /\ UNCHANGED <<config, supervisor, session, callVars>>

\* make_stop_predicate: a predicate that raises stops the loop.
StopByPredicate ==
  /\ loop = "judging" /\ HasResult /\ ~completed
  /\ RaiseInto("control") \/ UNCHANGED cells
  /\ Halt
  /\ UNCHANGED <<config, supervisor, session, callVars>>

\* No stop: the policy's turn.
Passed == loop = "judging" /\ ~(HasResult /\ completed)

StopByPolicy ==
  /\ Passed /\ PolicyEnds
  /\ Halt
  /\ UNCHANGED <<config, supervisor, session, callVars, cells>>

\* make_give_up_classifier: asked of anything but a clean exit; one that raises
\* gives up.
GiveUp ==
  /\ Passed /\ ~PolicyEnds /\ attempt # "clean"
  /\ RaiseInto("control") \/ UNCHANGED cells
  /\ Halt
  /\ UNCHANGED <<config, supervisor, session, callVars>>

StopByLimit ==
  /\ Passed /\ ~PolicyEnds /\ Exhausted
  /\ Halt
  /\ UNCHANGED <<config, supervisor, session, callVars, cells>>

Restart ==
  /\ Passed /\ ~PolicyEnds /\ ~Exhausted
  /\ loop' = "launch"
  /\ restarts' = IF limit = Unlimited THEN restarts ELSE restarts + 1
  /\ UNCHANGED <<config, supervisor, session, callVars, attempt, cells>>

\* Mutant: a stop request ends the incarnation and nothing else.
StopIncarnation ==
  /\ loop = "up"
  /\ \E c \in Calls : verb[c] \in Stopping /\ call[c] = "busy"
  /\ loop' = "judging" /\ attempt' = "crash"
  /\ UNCHANGED <<config, supervisor, session, callVars, restarts, cells>>

\* session.stop: the incarnation is asked to end, and killed after the grace;
\* the loop's judgement of a result cannot be interrupted.
StopLoop ==
  /\ loop \in {"launch", "up"}
  /\ \E c \in Calls : verb[c] \in Stopping /\ call[c] = "busy"
  /\ Halt
  /\ UNCHANGED <<config, supervisor, session, callVars, cells>>

-----------------------------------------------------------------------------
(* Terminal calls.                                                         *)

Open(c, v, stage) ==
  /\ verb' = [verb EXCEPT ![c] = v]
  /\ call' = [call EXCEPT ![c] = stage]
  /\ UNCHANGED answer

Ended(c, a) ==
  /\ verb'   = [verb EXCEPT ![c] = "none"]
  /\ call'   = [call EXCEPT ![c] = "done"]
  /\ answer' = [answer EXCEPT ![c] = a]

\* Dropping the loop's future, or the crate's open session.
Abort == loop' = (IF loop \in Active THEN "aborted" ELSE loop)

\* reject_reentrant_runtime or require_event_loop, ahead of everything else.
Refuse(c) ==
  /\ call[c] = "idle"
  /\ Ended(c, "refused")
  /\ UNCHANGED <<config, supervisor, session, loopVars, cells>>

\* Mutant: start() enters the runtime unguarded.
DriveUnguarded(c, v) ==
  IF forked /\ v # "start"
    THEN Ended(c, "forked") /\ UNCHANGED <<session, loop>>
    ELSE /\ loop' = "launch"
         /\ IF v = "start"
              THEN Ended(c, "session") /\ session' = "open"
              ELSE Open(c, v, "busy") /\ UNCHANGED session

\* supervisor.run(), or supervisor.start() with the runtime entered: the first
\* to drive the runtime, refused in a forked child.
Drive(c, v) ==
  IF forked
    THEN Ended(c, "forked") /\ UNCHANGED <<session, loop>>
    ELSE /\ loop' = "launch"
         /\ IF v = "start"
              THEN Ended(c, "session") /\ session' = "open"
              ELSE Open(c, v, "busy") /\ UNCHANGED session

\* run, arun, start, astart: take_supervisor, then drive it or hand out the
\* awaitable that will.
TakeSupervisor(c) ==
  /\ call[c] = "idle"
  /\ supervisor' = FALSE
  /\ \/ ~supervisor /\ Ended(c, "consumed") /\ UNCHANGED <<session, loop>>
     \/ supervisor /\ \E v \in Starts \cap Lazy : Open(c, v, "lazy") /\ UNCHANGED <<session, loop>>
     \/ supervisor /\ \E v \in Starts \ Lazy : Drive(c, v)
  /\ UNCHANGED <<config, attempt, restarts, cells>>

\* Mutant: the session is looked at instead of taken.
TakeSessionShared(c) ==
  /\ call[c] = "idle" /\ session = "open"
  /\ \E v \in Ends : Open(c, v, IF v \in Lazy THEN "lazy" ELSE "busy")
  /\ UNCHANGED <<config, supervisor, session, loopVars, cells>>

\* wait, await_wait, stop and astop take the session; so do the exits, which
\* leave one that is gone alone.
TakeSession(c) ==
  /\ call[c] = "idle" /\ session # "none"
  /\ session' = "taken"
  /\ \E v \in Ends :
       IF session = "taken"
         THEN Ended(c, IF v \in Exits THEN "noop" ELSE "consumed")
         ELSE Open(c, v, IF v \in Lazy THEN "lazy" ELSE "busy")
  /\ UNCHANGED <<config, supervisor, loopVars, cells>>

\* The awaitable is awaited.  In a forked child it refuses and keeps what it holds.
Await(c) ==
  /\ call[c] = "lazy"
  /\ IF forked
       THEN answer' = [answer EXCEPT ![c] = "forked"] /\ UNCHANGED <<verb, call, session, loop>>
       ELSE IF verb[c] \in Starts
         THEN Drive(c, verb[c])
         ELSE Open(c, verb[c], "busy") /\ UNCHANGED <<session, loop>>
  /\ UNCHANGED <<config, supervisor, attempt, restarts, cells>>

\* astart hands its session over.
Deliver(c) ==
  /\ verb[c] = "astart" /\ call[c] = "busy"
  /\ Ended(c, "session")
  /\ session' = "open"
  /\ UNCHANGED <<config, supervisor, loopVars, cells>>

\* What the collecting call returns: the runner's error first, then that of a
\* control callback, then the outcome (an error of the crate, if no incarnation
\* was ever there to report on).  Each look empties its cell.
Collected(result) == IF completed \/ slot THEN "raised" ELSE result

EmptyCells ==
  /\ completed' = FALSE
  /\ slot' = (IF completed THEN slot ELSE FALSE)
  /\ UNCHANGED raised

\* Mutant: a session's call does not look into the cells.
CollectBlindly(c) ==
  /\ call[c] = "busy" /\ verb[c] # "astart" /\ loop = "ended"
  /\ IF verb[c] \in Ends
       THEN Ended(c, "outcome") /\ UNCHANGED cells
       ELSE Ended(c, Collected("outcome")) /\ EmptyCells
  /\ UNCHANGED <<config, supervisor, session, loopVars>>

\* run, arun, convert_result, convert_py_result: the loop has ended.
Collect(c) ==
  /\ call[c] = "busy" /\ verb[c] # "astart" /\ loop = "ended"
  /\ Ended(c, Collected(IF attempt = "failed" THEN "error" ELSE "outcome"))
  /\ EmptyCells
  /\ UNCHANGED <<config, supervisor, session, loopVars>>

\* Ctrl+C leaves a blocked call, or the awaiting task is cancelled.  A blocked
\* call still looks into the cells.
Interrupt(c) ==
  /\ call[c] = "busy"
  /\ Abort
  /\ IF verb[c] \in Lazy
       THEN Ended(c, "cancelled") /\ UNCHANGED cells
       ELSE Ended(c, Collected("cancelled")) /\ EmptyCells
  /\ UNCHANGED <<config, supervisor, session, attempt, restarts>>

\* An awaitable is dropped without having been awaited, and what it holds too.
Drop(c) ==
  /\ call[c] = "lazy"
  /\ Ended(c, "dropped")
  /\ Abort
  /\ UNCHANGED <<config, supervisor, session, attempt, restarts, cells>>

\* Mutant: a session that is collected leaves its loop to itself.
DropSessionDetached ==
  /\ session = "open"
  /\ session' = "taken"
  /\ UNCHANGED <<config, supervisor, callVars, loopVars, cells>>

\* The open session is collected.
DropSession ==
  /\ session = "open"
  /\ session' = "taken"
  /\ Abort
  /\ UNCHANGED <<config, supervisor, callVars, attempt, restarts, cells>>

-----------------------------------------------------------------------------

\* stop_when, the policy, give_up_when and max_restarts, in that order.
Judge ==
  \/ StopByRunner \/ StopByPredicate \/ StopByPolicy \/ GiveUp \/ StopByLimit
  \/ Restart

Next ==
  \/ Launch \/ LaunchFails \/ Exit \/ ProbeFails \/ Judge \/ StopLoop
  \/ DropSession
  \/ \E c \in Calls :
       \/ Refuse(c) \/ TakeSupervisor(c) \/ TakeSession(c) \/ Await(c)
       \/ Deliver(c) \/ Collect(c) \/ Interrupt(c) \/ Drop(c)

\* The loop keeps going and looks for a stop request whenever it waits, and a
\* call that can return does.  An incarnation may run for ever, and an awaitable
\* may never be awaited.
Fairness ==
  /\ WF_vars(Judge)
  /\ WF_vars(Launch \/ LaunchFails)
  /\ SF_vars(StopLoop)
  /\ \A c \in Calls : WF_vars(Collect(c) \/ Deliver(c))

Spec == Init /\ [][Next]_vars

FairSpec == Spec /\ Fairness

-----------------------------------------------------------------------------
(* Safety.                                                                 *)

TypeOK ==
  /\ policy     \in {"always", "on_crash", "never"}
  /\ limit      \in 0 .. Unlimited
  /\ forked     \in BOOLEAN
  /\ supervisor \in BOOLEAN
  /\ session    \in {"none", "open", "taken"}
  /\ verb       \in [Calls -> Verbs \union {"none"}]
  /\ call       \in [Calls -> {"idle", "lazy", "busy", "done"}]
  /\ answer     \in [Calls -> {"none", "refused", "forked", "consumed", "noop",
                                 "session", "outcome", "error", "raised",
                                "cancelled", "dropped"}]
  /\ loop       \in Active \union {"none", "ended", "aborted"}
  /\ attempt    \in {"none", "clean", "crash", "failed", "killed"}
  /\ restarts   \in 0 .. MaxRestarts
  /\ slot       \in BOOLEAN
  /\ completed  \in BOOLEAN
  /\ raised     \subseteq {"when", "control", "health"}

\* Fail loud: nobody is given an outcome, or an error of the crate, of a
\* supervision in which a Python callback raised; the verdicts the binding gave
\* in its place make both meaningless (supervisor.rs, run).
FailLoud ==
  raised # {} => \A c \in Calls : answer[c] \notin {"outcome", "error"}

\* Who can still end the loop or drop it.
Holds(c) ==
  \/ verb[c] \in Starts /\ call[c] = "busy"
  \/ verb[c] \in Ends /\ call[c] \in {"lazy", "busy"}

LoopHolders == {c \in Calls : Holds(c)}

\* A loop that goes on belongs to exactly one: the open session or the one call
\* that waits for it.  So no child is restarted for nobody, and no two calls
\* collect one result.
LoopIsOwned ==
  loop \in Active =>
    IF session = "open" THEN LoopHolders = {} ELSE Cardinality(LoopHolders) = 1

\* In a forked child every way to the runtime is refused before it is driven:
\* the loop never starts (guard_against_fork).
ForkRefused == forked => loop = "none"

-----------------------------------------------------------------------------
(* Liveness.                                                               *)

\* Stopping a session, or leaving its block, returns, also with a loop that is
\* crashing and restarting all the time.
StopReturns ==
  \A c \in Calls : verb[c] \in Stopping /\ call[c] = "busy" ~> call[c] = "done"

\* A control predicate that raises ends the loop, however the policy reads, and
\* the call that waits for it is told.
RaiseSurfaces ==
  \A c \in Calls :
    call[c] = "busy" /\ verb[c] # "astart" /\ "control" \in raised
      ~> answer[c] \in {"raised", "cancelled"}

-----------------------------------------------------------------------------
(* One supervision, one report: however many calls race for the supervisor *)
(* and its session, they implement the abstract run.                       *)

AbstractRun ==
  IF loop = "none" THEN "idle"
  ELSE IF loop \in Active THEN "going"
  ELSE IF loop = "aborted" THEN "abandoned" ELSE "ended"

AbstractTold ==
  [c \in Calls |-> IF answer[c] \in {"outcome", "error", "raised"}
                     THEN answer[c] ELSE "nothing"]

Abstract == INSTANCE SupervisedRun WITH
  run <- AbstractRun, broken <- raised # {}, told <- AbstractTold

ImplementsSupervisedRun == Abstract!Spec

=============================================================================
