-------------------------------- MODULE Aio --------------------------------
(***************************************************************************)
(* The helpers of src/processkit/_aio.py that own asyncio tasks:           *)
(* wait_until and wait_for_line, which poll or scan under a deadline; the  *)
(* connection probes over _retry_probe; and _stream_as_completed, which    *)
(* runs a batch and yields each result as it comes.                        *)
(*                                                                         *)
(* A helper may be cancelled at every await, and again while it drains the *)
(* tasks that it has cancelled.  Of a task, nothing is assumed: it ends on *)
(* its own, with a result or an exception, and when it is cancelled it may *)
(* still do either.                                                        *)
(*                                                                         *)
(* Of asyncio: wait() returns what is done when its caller is resumed, and *)
(* raises whenever the caller is cancelled; wait_for() that times out has  *)
(* cancelled its task and seen it end, yet raises TimeoutError when task   *)
(* and timer end in one tick.  A cancelled wait_for() raises, and may leave*)
(* its task running; but instead it may come to what its task has come to, *)
(* if that is a result or an error: in Python 3.10 and 3.11 when the task  *)
(* ended first, from 3.12 on when it ended so although it was cancelled.   *)
(***************************************************************************)
EXTENDS Naturals, FiniteSets

CONSTANTS
  Helpers,       \* Which helpers are called: some of those below.
  Size           \* The slots of a stream; bound: the polls or attempts of the others.

ASSUME AioAssumption ==
  /\ Helpers \subseteq {"wait_until", "wait_for_line", "probe", "stream"}
  /\ Size \in Nat \ {0}

Tasks == 1 .. Size

VARIABLES
  helper,        \* What is called.
  at,            \* Where it is.
  round,         \* How many polls or attempts it has begun.
  expired,       \* The deadline has passed.
  cancel,        \* A cancellation is about to be raised into the helper.
  landed,        \* History: one has been, and wait_for() has not dropped it.
  task,          \* How far each task is.
  own,           \* The tasks the helper made; a predicate may return a future.
  asked,         \* The tasks that have been cancelled.
  set,           \* The tasks it waits for: `pending`, or what it drains.
  why,           \* Why it drains.
  fresh,         \* pending_cancel.
  settling,      \* The tasks with _settle_probe as their callback.
  judged,        \* The results given to evaluate.
  released,      \* How often each result has been cleaned up.
  limit, permits, \* The semaphore of a stream.
  done,          \* The tasks a stream has still to yield.
  yielded,       \* History: how often it has yielded each slot.
  outcome        \* What becomes of the call.

loopVars   == <<expired, cancel, landed>>
taskVars   == <<task, own, asked, permits>>
probeVars  == <<settling, judged, released>>
streamVars == <<done, yielded>>
fixed      == <<helper, limit>>
vars == <<helper, at, round, loopVars, taskVars, set, why, fresh, probeVars,
          limit, streamVars, outcome>>

Init ==
  /\ helper \in Helpers
  /\ at = "start" /\ round = 0
  /\ expired = FALSE /\ cancel = FALSE /\ landed = FALSE
  /\ task = [i \in Tasks |-> "none"] /\ own = {} /\ asked = {}
  /\ set = {} /\ why = "none" /\ fresh = FALSE
  /\ settling = {} /\ judged = {} /\ released = [i \in Tasks |-> 0]
  /\ limit \in Tasks /\ permits = limit
  /\ done = {} /\ yielded = [i \in Tasks |-> 0]
  /\ outcome = "none"

Polls == {"wait_until", "wait_for_line"}
Ended == {"true", "false", "failed", "cancelled"}
Live(i) == task[i] \in {"queued", "running"}

-----------------------------------------------------------------------------
(* The event loop.                                                         *)

Suspended == at \in {"waiting", "draining", "sleeping", "evaluating"}

Expire ==
  /\ ~ expired
  /\ helper # "stream"
  /\ expired' = TRUE
  /\ UNCHANGED <<fixed, at, round, cancel, landed, taskVars, set, why, fresh, probeVars,
                 streamVars, outcome>>

Cancel ==
  /\ Suspended
  /\ ~ cancel
  /\ cancel' = TRUE
  /\ landed' = TRUE
  /\ UNCHANGED <<fixed, at, round, expired, taskVars, set, why, fresh, probeVars,
                 streamVars, outcome>>

\* A task ends, a slot after it has released the semaphore; a scan ends with a
\* line or an error, an attempt with a connection or an error.
End(i) ==
  /\ task[i] = "running"
  /\ \E e \in Ended :
       /\ e = "cancelled" => i \in asked \/ i \notin own
       /\ e = "false" => helper = "wait_until"
       /\ task' = [task EXCEPT ![i] = e]
  /\ permits' = IF helper = "stream" THEN permits + 1 ELSE permits
  /\ UNCHANGED <<fixed, at, round, loopVars, own, asked, set, why, fresh, probeVars,
                 streamVars, outcome>>

\* `async with semaphore`: a slot goes on to its command.
Acquire(i) ==
  /\ task[i] = "queued"
  /\ permits > 0
  /\ task' = [task EXCEPT ![i] = "running"]
  /\ permits' = permits - 1
  /\ UNCHANGED <<fixed, at, round, loopVars, own, asked, set, why, fresh, probeVars,
                 streamVars, outcome>>

\* Mutant: the slot releases what it has not acquired.
LeaveQueueReleasing(i) ==
  /\ task[i] = "queued"
  /\ i \in asked
  /\ task' = [task EXCEPT ![i] = "cancelled"]
  /\ permits' = permits + 1
  /\ UNCHANGED <<fixed, at, round, loopVars, own, asked, set, why, fresh, probeVars,
                 streamVars, outcome>>

LeaveQueue(i) ==
  /\ task[i] = "queued"
  /\ i \in asked
  /\ task' = [task EXCEPT ![i] = "cancelled"]
  /\ UNCHANGED <<fixed, at, round, loopVars, own, asked, permits, set, why, fresh, probeVars,
                 streamVars, outcome>>

-----------------------------------------------------------------------------
(* How a helper goes on.                                                   *)

Over(o) ==
  /\ at' = "over"
  /\ outcome' = o

Ask(S) == asked' = asked \union {i \in S : Live(i)}

\* _quiesce and _reap_slots begin: cancel and wait.
Drain(S, w) ==
  /\ at' = "draining"
  /\ set' = S
  /\ why' = w
  /\ Ask(S)
  /\ UNCHANGED outcome

\* The end of a round: time is up, or another one after the interval.
Again ==
  \/ expired /\ Over("timeout")
  \/ ~ expired /\ at' = "sleeping" /\ UNCHANGED outcome

WakeUp ==
  /\ at = "sleeping"
  /\ IF cancel THEN Over("cancelled") ELSE at' = "start" /\ UNCHANGED outcome
  /\ UNCHANGED <<fixed, round, loopVars, taskVars, set, why, fresh, probeVars, streamVars>>

\* Mutant: the cancellation ends the drain.
DrainNoMore ==
  /\ at = "draining"
  /\ cancel
  /\ cancel' = FALSE
  /\ Over("cancelled")
  /\ UNCHANGED <<fixed, round, expired, landed, taskVars, set, why, fresh, probeVars, streamVars>>

\* CancelledError out of the wait of _quiesce and _reap_slots.
DrainOn ==
  /\ at = "draining"
  /\ cancel
  /\ cancel' = FALSE
  /\ fresh' = TRUE
  /\ Ask(set)
  /\ UNCHANGED <<fixed, at, round, expired, landed, task, own, permits, set, why, probeVars,
                 streamVars, outcome>>

Drained == at = "draining" /\ ~ cancel /\ \A i \in set : ~ Live(i)

\* A fresh cancellation wins; else what the task did in the tick of the deadline
\* counts, and what the drain was for.
DrainEnds ==
  /\ Drained
  /\ IF fresh THEN Over("cancelled")
     ELSE IF why # "deadline" THEN Over(why)
     ELSE CASE task[round] = "failed" -> Over("raised")
            [] task[round] = "true"   -> Over("met")
            [] OTHER                  -> Over("timeout")
  /\ UNCHANGED <<fixed, round, loopVars, taskVars, set, why, fresh, probeVars, streamVars>>

-----------------------------------------------------------------------------
(* wait_until and wait_for_line.                                           *)

\* The helper waits for S, of which it has made `mine`, as far as `states` says.
Wait(S, mine, states) ==
  /\ at' = "waiting"
  /\ set' = S
  /\ own' = own \union mine
  /\ task' = [i \in Tasks |-> IF i \in S THEN states[i] ELSE task[i]]
  /\ UNCHANGED <<asked, permits, outcome>>

PollSync ==
  /\ at = "start"
  /\ helper = "wait_until"
  /\ round < Size
  /\ round' = round + 1
  /\ Over("met") \/ Over("raised") \/ Again
  /\ UNCHANGED <<fixed, loopVars, taskVars, set, why, fresh, probeVars, streamVars>>

\* The predicate returns a coroutine, or a future that is not the helper's.
PollAsync ==
  /\ at = "start"
  /\ helper = "wait_until"
  /\ round < Size
  /\ round' = round + 1
  /\ \/ Wait({round'}, {round'}, [i \in Tasks |-> "running"])
     \/ \E e \in Ended \union {"running"} : Wait({round'}, {}, [i \in Tasks |-> e])
  /\ UNCHANGED <<fixed, loopVars, why, fresh, probeVars, streamVars>>

Scan ==
  /\ at = "start"
  /\ helper = "wait_for_line"
  /\ round' = 1
  /\ Wait({1}, {1}, [i \in Tasks |-> "running"])
  /\ UNCHANGED <<fixed, loopVars, why, fresh, probeVars, streamVars>>

PollCancelled ==
  /\ at = "waiting"
  /\ helper \in Polls
  /\ cancel
  /\ cancel' = FALSE
  /\ IF round \in own THEN Drain({round}, "cancelled")
     ELSE Over("cancelled") /\ UNCHANGED <<asked, set, why>>
  /\ UNCHANGED <<fixed, round, expired, landed, task, own, permits, fresh, probeVars, streamVars>>

PollDone ==
  /\ at = "waiting"
  /\ helper \in Polls
  /\ ~ cancel
  /\ ~ Live(round)
  /\ \/ task[round] = "true" /\ Over("met")
     \/ task[round] = "false" /\ Again
     \/ task[round] = "failed" /\ Over("raised")
     \/ task[round] = "cancelled" /\ Over("cancelled")
  /\ UNCHANGED <<fixed, round, loopVars, taskVars, set, why, fresh, probeVars, streamVars>>

\* Mutant: a deadline is a deadline.
PollExpiredAtOnce ==
  /\ at = "waiting"
  /\ helper \in Polls
  /\ ~ cancel
  /\ expired
  /\ Live(round)
  /\ Over("timeout")
  /\ Ask({round} \intersect own)
  /\ UNCHANGED <<fixed, round, loopVars, task, own, permits, set, why, fresh, probeVars, streamVars>>

PollExpired ==
  /\ at = "waiting"
  /\ helper \in Polls
  /\ ~ cancel
  /\ expired
  /\ Live(round)
  /\ IF round \in own THEN Drain({round}, "deadline")
     ELSE Over("timeout") /\ UNCHANGED <<asked, set, why>>
  /\ UNCHANGED <<fixed, round, loopVars, task, own, permits, fresh, probeVars, streamVars>>

-----------------------------------------------------------------------------
(* _retry_probe.                                                           *)

\* The first attempt is made whatever the deadline.
Attempt ==
  /\ at = "start"
  /\ helper = "probe"
  /\ IF round > 0 /\ expired
     THEN /\ Over("timeout")
          /\ UNCHANGED <<round, set, taskVars>>
     ELSE /\ round < Size
          /\ round' = round + 1
          /\ Wait({round'}, {round'}, [i \in Tasks |-> "running"])
  /\ UNCHANGED <<fixed, loopVars, why, fresh, probeVars, streamVars>>

\* wait_for() times out, or is cancelled, and waits for the task it cancels.
StopAttempt ==
  /\ at = "waiting"
  /\ helper = "probe"
  /\ expired \/ cancel
  /\ Live(round)
  /\ round \notin asked
  /\ Ask({round})
  /\ UNCHANGED <<fixed, at, round, loopVars, task, own, permits, set, why, fresh, probeVars,
                 streamVars, outcome>>

\* A connection, also one made in the tick of the deadline, is evaluated; an
\* error is one to retry or not; a cancelled attempt is a TimeoutError.  A
\* cancellation that wait_for() drops for a result or an error is lost.
AttemptEnds ==
  /\ at = "waiting"
  /\ helper = "probe"
  /\ ~ Live(round)
  /\ cancel => task[round] # "cancelled"
  /\ cancel' = FALSE
  /\ landed' = (landed /\ ~ cancel)
  /\ \/ /\ task[round] = "true"
        /\ at' = "evaluating"
        /\ judged' = judged \union {round}
        /\ UNCHANGED outcome
     \/ /\ task[round] = "failed"
        /\ Again \/ Over("raised")
        /\ UNCHANGED judged
     \/ /\ task[round] = "cancelled"
        /\ Again
        /\ UNCHANGED judged
  /\ UNCHANGED <<fixed, round, expired, taskVars, set, why, fresh, settling, released, streamVars>>

Evaluate ==
  /\ at = "evaluating"
  /\ IF cancel THEN Over("cancelled") ELSE Over("met") \/ Over("raised") \/ Again
  /\ UNCHANGED <<fixed, round, loopVars, taskVars, set, why, fresh, probeVars, streamVars>>

Release(i) == released' = [released EXCEPT ![i] = @ + 1]

\* _settle_probe.
Settle(i) ==
  IF Live(i)
  THEN /\ Ask({i})
       /\ settling' = settling \union {i}
       /\ UNCHANGED released
  ELSE /\ IF task[i] = "true" THEN Release(i) ELSE UNCHANGED released
       /\ UNCHANGED <<asked, settling>>

\* wait_for() raises the cancellation, whatever has become of its task.
AttemptCancelled ==
  /\ at = "waiting"
  /\ helper = "probe"
  /\ cancel
  /\ cancel' = FALSE
  /\ Settle(round)
  /\ Over("cancelled")
  /\ UNCHANGED <<fixed, round, expired, landed, task, own, permits, set, why, fresh, judged,
                 streamVars>>

\* The callback of the task.
Settled(i) ==
  /\ i \in settling
  /\ ~ Live(i)
  /\ settling' = settling \ {i}
  /\ IF task[i] = "true" THEN Release(i) ELSE UNCHANGED released
  /\ UNCHANGED <<fixed, at, round, loopVars, taskVars, set, why, fresh, judged, streamVars, outcome>>

-----------------------------------------------------------------------------
(* _stream_as_completed.                                                   *)

\* The `finally` of the generator.
Reap(w) ==
  IF set = {} THEN Over(w) /\ UNCHANGED <<asked, set, why>> ELSE Drain(set, w)

Stream ==
  /\ at = "start"
  /\ helper = "stream"
  /\ Wait(Tasks, Tasks, [i \in Tasks |-> "queued"])
  /\ UNCHANGED <<fixed, round, loopVars, why, fresh, probeVars, streamVars>>

SomeDone ==
  /\ at = "waiting"
  /\ helper = "stream"
  /\ ~ cancel
  /\ done' = {i \in set : ~ Live(i)}
  /\ done' # {}
  /\ set' = set \ done'
  /\ at' = "yielding"
  /\ UNCHANGED <<fixed, round, loopVars, taskVars, why, fresh, probeVars, yielded, outcome>>

StreamCancelled ==
  /\ at = "waiting"
  /\ helper = "stream"
  /\ cancel
  /\ cancel' = FALSE
  /\ Reap("cancelled")
  /\ UNCHANGED <<fixed, round, expired, landed, task, own, permits, fresh, probeVars, streamVars>>

Yield ==
  /\ at = "yielding"
  /\ \E i \in done :
       /\ done' = done \ {i}
       /\ IF task[i] = "true"
          THEN /\ at' = "yielded"
               /\ yielded' = [yielded EXCEPT ![i] = @ + 1]
               /\ UNCHANGED <<asked, set, why, outcome>>
          ELSE /\ Reap("raised")
               /\ UNCHANGED yielded
  /\ UNCHANGED <<fixed, round, loopVars, task, own, permits, fresh, probeVars>>

StreamOn ==
  /\ at = "yielding"
  /\ done = {}
  /\ IF set = {} THEN Over("met") ELSE at' = "waiting" /\ UNCHANGED outcome
  /\ UNCHANGED <<fixed, round, loopVars, taskVars, set, why, fresh, probeVars, streamVars>>

\* The consumer asks for the next item, or the generator is closed.
Resume ==
  /\ at = "yielded"
  /\ at' = "yielding"
  /\ UNCHANGED <<fixed, round, loopVars, taskVars, set, why, fresh, probeVars, streamVars, outcome>>

Close ==
  /\ at = "yielded"
  /\ Reap("closed")
  /\ UNCHANGED <<fixed, round, loopVars, task, own, permits, fresh, probeVars, streamVars>>

-----------------------------------------------------------------------------
Next ==
  \/ Expire \/ Cancel
  \/ \E i \in Tasks : End(i) \/ Acquire(i) \/ LeaveQueue(i) \/ Settled(i)
  \/ WakeUp \/ DrainOn \/ DrainEnds
  \/ PollSync \/ PollAsync \/ Scan \/ PollCancelled \/ PollDone \/ PollExpired
  \/ Attempt \/ StopAttempt \/ AttemptEnds \/ Evaluate \/ AttemptCancelled
  \/ Stream \/ SomeDone \/ StreamCancelled \/ Yield \/ StreamOn \/ Resume \/ Close

Spec == Init /\ [][Next]_vars

-----------------------------------------------------------------------------
TypeOK ==
  /\ helper \in Helpers
  /\ at \in {"start", "waiting", "draining", "sleeping", "evaluating", "yielding", "yielded", "over"}
  /\ round \in 0 .. Size
  /\ expired \in BOOLEAN /\ cancel \in BOOLEAN /\ landed \in BOOLEAN /\ fresh \in BOOLEAN
  /\ task \in [Tasks -> {"none", "queued", "running"} \union Ended]
  /\ own \subseteq Tasks /\ asked \subseteq Tasks /\ set \subseteq Tasks
  /\ why \in {"none", "cancelled", "deadline", "raised", "closed"}
  /\ settling \subseteq Tasks /\ judged \subseteq Tasks
  /\ released \in [Tasks -> Nat]
  /\ limit \in Tasks /\ permits \in 0 .. Size
  /\ done \subseteq Tasks
  /\ yielded \in [Tasks -> Nat]
  /\ outcome \in {"none", "met", "raised", "timeout", "cancelled", "closed"}

(***************************************************************************)
(* Nothing outlives the helper.  When it is over, no task that it made is  *)
(* live, however often it was cancelled while it drained them; an attempt  *)
(* to connect may be, but is cancelled and has its callback, and each      *)
(* connection is either evaluated or released, once.  A future that is not *)
(* the helper's is never cancelled.                                        *)
(***************************************************************************)
NothingOutlives ==
  /\ asked \subseteq own
  /\ at = "over" =>
       \A i \in own :
         IF helper = "probe" THEN Live(i) => i \in asked \intersect settling ELSE ~ Live(i)
  /\ \A i \in Tasks :
       LET uses == released[i] + (IF i \in judged THEN 1 ELSE 0)
       IN /\ uses <= 1
          /\ helper = "probe" /\ at = "over" /\ task[i] = "true" /\ i \notin settling => uses = 1

(***************************************************************************)
(* The verdict stands.  A timeout is raised only past the deadline, and    *)
(* not over a condition that was met, or a failure of the predicate or the *)
(* scan, in the same tick.  A cancellation that was raised into the helper *)
(* comes out of it whatever the tasks did, unless asyncio.wait_for() drops *)
(* it for what an attempt to connect has come to; one that is raised later *)
(* comes out again.  A stream that is exhausted has yielded every slot     *)
(* once.                                                                   *)
(***************************************************************************)
VerdictStands ==
  at = "over" =>
    /\ landed => outcome = "cancelled"
    /\ outcome = "timeout" =>
         /\ expired
         /\ round \in own /\ helper \in Polls => task[round] \in {"false", "cancelled"}
         /\ \A i \in own : task[i] = "true" => i \in judged
    /\ outcome = "met" /\ helper = "stream" => \A i \in Tasks : yielded[i] = 1

(***************************************************************************)
(* No more children run at once than the concurrency asked for, whatever   *)
(* the slots come to and whenever they are cancelled.                      *)
(***************************************************************************)
CapHeld == helper = "stream" => Cardinality({i \in Tasks : task[i] = "running"}) <= limit
=============================================================================
