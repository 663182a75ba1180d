------------------------------ MODULE AioProofs ------------------------------
(***************************************************************************)
(* Theorems about Aio, for any number of slots, polls and attempts.        *)
(***************************************************************************)
EXTENDS Aio, FiniteSetTheorems, TLAPS

(***************************************************************************)
(* The inductive invariant: one part for each kind of helper, and what     *)
(* they share, where a cancellation is until it comes out.                 *)
(***************************************************************************)
Running == {i \in Tasks : task[i] = "running"}

\* The semaphore of a stream; the others have none and queue nothing.
Permits ==
  IF helper = "stream" THEN permits + Cardinality(Running) = limit
  ELSE permits = limit /\ \A i \in Tasks : task[i] # "queued"

\* A cancellation that has been raised into the helper is about to be, is why it
\* drains, or is what became of it; or wait_for() has dropped it.
Cancellation ==
  landed => \/ cancel /\ Suspended
            \/ at = "draining" /\ (fresh \/ why = "cancelled")
            \/ at = "over" /\ outcome = "cancelled"

\* Of the tasks a poll or scan has made only the last can be other than "false".
PollsInv ==
  /\ at \in {"start", "sleeping", "waiting", "draining", "over"}
  /\ helper = "wait_for_line" => round <= 1
  /\ settling = {} /\ judged = {} /\ \A i \in Tasks : released[i] = 0
  /\ asked \subseteq own
  /\ \A i \in own :
       /\ i <= round /\ task[i] \in {"running"} \union Ended
       /\ task[i] # "false" => i = round /\ at \in {"waiting", "draining", "over"}
       /\ at = "over" => task[i] # "running"
  /\ at = "waiting" => round > 0
  /\ at = "draining" => set = {round} /\ round \in own /\ why \in {"cancelled", "deadline"}
  /\ why = "deadline" => expired
  /\ at = "over" /\ outcome = "timeout" =>
       expired /\ \A i \in own : task[i] \in {"false", "cancelled"}

\* A connection is the last attempt's while it is made or settled, and else used.
ProbeInv ==
  /\ at \in {"start", "sleeping", "waiting", "evaluating", "over"}
  /\ asked \subseteq own
  /\ \A i \in own : i <= round
  /\ at = "waiting" => round \in own /\ round \notin judged /\ settling = {} /\ released[round] = 0
  /\ settling # {} => at = "over" /\ outcome = "cancelled"
  /\ \A i \in Tasks :
       /\ i \notin own => task[i] = "none" /\ released[i] = 0 /\ i \notin judged /\ i \notin settling
       /\ i \in own => task[i] \in {"running"} \union Ended
       /\ task[i] = "running" =>
            /\ i = round
            /\ \/ at = "waiting"
               \/ at = "over" /\ outcome = "cancelled" /\ i \in asked /\ i \in settling
       /\ i \in judged => released[i] = 0 /\ i \notin settling
       /\ i \in settling => released[i] = 0
       /\ released[i] \in {0, 1}
       /\ released[i] = 1 => at = "over" /\ outcome = "cancelled"
       /\ task[i] = "true" => \/ i \in judged \/ released[i] = 1 \/ i \in settling
                              \/ i = round /\ at = "waiting"
  /\ at = "over" /\ outcome = "timeout" => expired

\* Whatever is live is waited for, and what is not waited for has been yielded.
StreamInv ==
  /\ at \in {"start", "waiting", "draining", "yielding", "yielded", "over"}
  /\ settling = {} /\ judged = {} /\ \A i \in Tasks : released[i] = 0
  /\ at = "start" => /\ done = {} /\ own = {} /\ asked = {}
                     /\ \A i \in Tasks : task[i] = "none" /\ yielded[i] = 0
  /\ at # "start" => own = Tasks
  /\ \A i \in Tasks : Live(i) => i \in set /\ at # "over"
  /\ at \in {"waiting", "yielding", "yielded"} =>
       \A i \in Tasks : yielded[i] = IF i \in set \union done THEN 0 ELSE 1
  /\ at = "waiting" => done = {}
  /\ done \intersect set = {}
  /\ at = "draining" => why \in {"cancelled", "raised", "closed"}
  /\ at = "over" => /\ outcome # "timeout"
                    /\ outcome = "met" => \A i \in Tasks : yielded[i] = 1

HelperInv ==
  /\ helper \in Polls => PollsInv
  /\ helper = "probe" => ProbeInv
  /\ helper = "stream" => StreamInv

IInv == Permits /\ Cancellation /\ HelperInv

USE DEF loopVars, taskVars, probeVars, streamVars, fixed

-----------------------------------------------------------------------------
(* The semaphore.                                                          *)

\* Which slots run is a finite matter.
LEMMA RunningFinite ==
  ASSUME NEW S, S \subseteq Tasks
  PROVE  IsFiniteSet(S) /\ Cardinality(S) \in Nat
<1>1. Size \in Int /\ 1 \in Int
  BY AioAssumption
<1>2. IsFiniteSet(Tasks)
  BY <1>1, FS_Interval DEF Tasks
<1> QED BY <1>2, FS_Subset, FS_CardinalityType

\* A step that changes no task keeps the permits.
LEMMA PermitsSame ==
  ASSUME Permits, UNCHANGED <<helper, limit, permits, task>>
  PROVE  Permits'
BY DEF Permits, Running

\* A step gives back a permit with the slot that stops running, and with no other.
LEMMA PermitsStep ==
  ASSUME TypeOK, IInv, [Next]_vars
  PROVE  Permits'
<1>0. Permits
  BY DEF IInv
<1>1. ASSUME NEW i \in Tasks, End(i) PROVE Permits'
  <2>1. /\ UNCHANGED <<helper, limit>> /\ task[i] = "running"
        /\ \A j \in Tasks : j # i => task'[j] = task[j]
        /\ task'[i] \in Ended
    BY <1>1 DEF End, TypeOK
  <2>2. CASE helper = "stream"
    <3>0. \A j \in Tasks : task'[j] = "running" <=> j # i /\ task[j] = "running"
      BY <2>1 DEF Ended
    <3>1. Running' = Running \ {i} /\ i \in Running
      BY <2>1, <3>0 DEF Running
    <3>2. Cardinality(Running') = Cardinality(Running) - 1
      BY <3>1, RunningFinite, FS_RemoveElement DEF Running
    <3>3. permits' = permits + 1
      BY <1>1, <2>2 DEF End
    <3>4. Cardinality(Running) \in Nat
      BY RunningFinite DEF Running
    <3> QED BY <1>0, <2>1, <2>2, <3>2, <3>3, <3>4 DEF Permits, TypeOK
  <2>3. CASE helper # "stream"
    BY <1>0, <1>1, <2>1, <2>3 DEF Permits, End, Ended
  <2> QED BY <2>2, <2>3
<1>2. ASSUME NEW i \in Tasks, Acquire(i) PROVE Permits'
  <2>1. /\ UNCHANGED <<helper, limit>> /\ task[i] = "queued"
        /\ \A j \in Tasks : task'[j] = IF j = i THEN "running" ELSE task[j]
        /\ permits' = permits - 1
    BY <1>2 DEF Acquire, TypeOK
  <2>2. helper = "stream"
    BY <1>0, <2>1 DEF Permits
  <2>3. Running' = Running \union {i} /\ i \notin Running
    BY <2>1 DEF Running
  <2>4. Cardinality(Running') = Cardinality(Running) + 1
    BY <2>3, RunningFinite, FS_AddElement DEF Running
  <2>5. Cardinality(Running) \in Nat
    BY RunningFinite DEF Running
  <2> QED BY <1>0, <2>1, <2>2, <2>4, <2>5 DEF Permits, TypeOK
<1>3. ASSUME NEW i \in Tasks, LeaveQueue(i) PROVE Permits'
  <2>1. /\ UNCHANGED <<helper, limit, permits>> /\ task[i] = "queued"
        /\ \A j \in Tasks : task'[j] = IF j = i THEN "cancelled" ELSE task[j]
    BY <1>3 DEF LeaveQueue, TypeOK
  <2>2. helper = "stream" /\ Running' = Running
    BY <1>0, <2>1 DEF Permits, Running
  <2> QED BY <1>0, <2>1, <2>2 DEF Permits
<1>4. CASE Stream
  <2>1. /\ UNCHANGED <<helper, limit, permits>> /\ helper = "stream" /\ at = "start"
        /\ \A j \in Tasks : task'[j] = "queued"
    BY <1>4 DEF Stream, Wait
  <2>2. Running' = Running
    BY <2>1 DEF Running, IInv, HelperInv, StreamInv
  <2> QED BY <1>0, <2>1, <2>2 DEF Permits
<1>5. CASE PollAsync \/ Scan \/ Attempt
  <2>1. /\ UNCHANGED <<helper, limit, permits>> /\ helper # "stream"
        /\ \A j \in Tasks : task'[j] \in {task[j], "running"} \union Ended
    BY <1>5 DEF PollAsync, Scan, Attempt, Wait
  <2> QED BY <1>0, <2>1 DEF Permits, Ended
<1>6. CASE UNCHANGED <<helper, limit, permits, task>>
  BY <1>0, <1>6, PermitsSame
<1>7. ASSUME NEW i \in Tasks, Settled(i) PROVE Permits'
  BY <1>6, <1>7 DEF Settled
<1>8. CASE Expire \/ Cancel \/ WakeUp \/ DrainOn \/ DrainEnds
  BY <1>6, <1>8 DEF Expire, Cancel, WakeUp, DrainOn, DrainEnds
<1>9. CASE PollSync \/ PollCancelled \/ PollDone \/ PollExpired
  BY <1>6, <1>9 DEF PollSync, PollCancelled, PollDone, PollExpired
<1>10. CASE StopAttempt \/ AttemptEnds \/ Evaluate \/ AttemptCancelled
  BY <1>6, <1>10 DEF StopAttempt, AttemptEnds, Evaluate, AttemptCancelled
<1>11. CASE SomeDone \/ StreamCancelled \/ Yield \/ StreamOn \/ Resume \/ Close
  BY <1>6, <1>11 DEF SomeDone, StreamCancelled, Yield, StreamOn, Resume, Close
<1>12. CASE UNCHANGED vars
  BY <1>6, <1>12 DEF vars
<1> QED BY <1>1, <1>2, <1>3, <1>4, <1>5, <1>7, <1>8, <1>9, <1>10, <1>11, <1>12 DEF Next

-----------------------------------------------------------------------------
(* The cancellation.                                                       *)

\* No step but wait_for()'s return loses a cancellation on its way out.
LEMMA CancellationStep ==
  ASSUME TypeOK, IInv, [Next]_vars
  PROVE  Cancellation'
<1> USE DEF Cancellation, Suspended
<1>0. Cancellation
  BY DEF IInv
<1>1. ASSUME NEW i \in Tasks, End(i) \/ Acquire(i) \/ LeaveQueue(i) \/ Settled(i)
      PROVE  Cancellation'
  BY <1>0, <1>1 DEF End, Acquire, LeaveQueue, Settled
<1>2. CASE Expire \/ Cancel \/ WakeUp \/ DrainOn
  BY <1>0, <1>2 DEF Expire, Cancel, WakeUp, DrainOn, Over
<1>3. CASE DrainEnds
  BY <1>0, <1>3 DEF DrainEnds, Drained, Over
<1>4. CASE PollSync \/ PollAsync \/ Scan \/ Attempt \/ Stream
  BY <1>0, <1>4 DEF PollSync, PollAsync, Scan, Attempt, Stream, Over, Again, Wait
<1>5. CASE PollCancelled \/ AttemptCancelled \/ StreamCancelled
  BY <1>0, <1>5 DEF PollCancelled, AttemptCancelled, StreamCancelled, Over, Drain, Reap
<1>6. CASE PollDone \/ PollExpired \/ AttemptEnds \/ SomeDone
  BY <1>0, <1>6 DEF PollDone, PollExpired, AttemptEnds, SomeDone, Over, Drain, Again
<1>7. CASE StopAttempt \/ Evaluate
  BY <1>0, <1>7 DEF StopAttempt, Evaluate, Over, Again
<1>8. CASE Yield \/ StreamOn \/ Resume \/ Close
  BY <1>0, <1>8 DEF Yield, StreamOn, Resume, Close, Over, Reap, Drain
<1>9. CASE UNCHANGED vars
  BY <1>0, <1>9 DEF vars
<1> QED BY <1>1, <1>2, <1>3, <1>4, <1>5, <1>6, <1>7, <1>8, <1>9 DEF Next

-----------------------------------------------------------------------------
(* wait_until and wait_for_line.                                           *)

\* What a polling helper does keeps track of its polls.
LEMMA PollsStep ==
  ASSUME TypeOK, PollsInv, [Next]_vars, helper \in Polls
  PROVE  PollsInv'
<1>0. helper' = helper /\ helper # "probe" /\ helper # "stream"
  BY DEF Polls, Next, vars, Expire, Cancel, End, Acquire, LeaveQueue, Settled, WakeUp, DrainOn,
         DrainEnds, PollSync, PollAsync, Scan, PollCancelled, PollDone, PollExpired, Attempt,
         StopAttempt, AttemptEnds, Evaluate, AttemptCancelled, Stream, SomeDone,
         StreamCancelled, Yield, StreamOn, Resume, Close
<1>1. CASE Expire \/ Cancel \/ UNCHANGED vars
  BY <1>0, <1>1 DEF PollsInv, Expire, Cancel, vars
<1>2. ASSUME NEW i \in Tasks, End(i) PROVE PollsInv'
  <2>1. /\ task[i] = "running"
        /\ \A j \in Tasks : j # i => task'[j] = task[j]
        /\ task'[i] \in Ended
        /\ UNCHANGED <<fixed, at, round, loopVars, own, asked, set, why, fresh, probeVars,
                       streamVars, outcome>>
    BY <1>2 DEF End, TypeOK
  <2> QED BY <2>1 DEF PollsInv, Ended, TypeOK
<1>3. ASSUME NEW i \in Tasks, Acquire(i) \/ LeaveQueue(i) PROVE PollsInv'
  <2>1. /\ task[i] = "queued"
        /\ \A j \in Tasks : j # i => task'[j] = task[j]
        /\ UNCHANGED <<fixed, at, round, loopVars, own, asked, set, why, fresh, probeVars,
                       streamVars, outcome>>
    BY <1>3 DEF Acquire, LeaveQueue, TypeOK
  <2>2. i \notin own
    BY <2>1 DEF PollsInv, Ended
  <2> QED BY <2>1, <2>2 DEF PollsInv, TypeOK
<1>4. CASE WakeUp
  BY <1>4 DEF PollsInv, WakeUp, Over
<1>5. CASE DrainOn
  BY <1>5 DEF PollsInv, DrainOn, Ask
<1>6. CASE DrainEnds
  <2>1. /\ set = {round} /\ round \in own /\ at' = "over" /\ task[round] # "running"
        /\ UNCHANGED <<fixed, round, loopVars, taskVars, set, why, fresh, probeVars, streamVars>>
        /\ outcome' = "timeout" => why = "deadline" /\ task[round] \notin {"failed", "true"}
    BY <1>6 DEF PollsInv, DrainEnds, Drained, Over, Live
  <2> QED BY <2>1 DEF PollsInv, Ended
<1>7. CASE PollSync
  <2>1. /\ at' \in {"over", "sleeping"} /\ round' = round + 1 /\ at = "start"
        /\ helper = "wait_until"
        /\ outcome' = "timeout" /\ at' = "over" => expired
        /\ UNCHANGED <<fixed, loopVars, taskVars, set, why, fresh, probeVars, streamVars>>
    BY <1>7 DEF PollSync, Over, Again
  <2>2. \A i \in own : i <= round' /\ task[i] = "false"
    BY <2>1 DEF PollsInv, TypeOK, Tasks
  <2> QED BY <2>1, <2>2 DEF PollsInv, Ended
<1>8. CASE PollAsync
  <2>0. round < Size /\ round' = round + 1
    BY <1>8 DEF PollAsync
  <2>1. /\ at = "start" /\ at' = "waiting" /\ round' = round + 1 /\ helper = "wait_until"
        /\ round' \in Tasks
        /\ UNCHANGED <<fixed, loopVars, asked, why, fresh, probeVars, streamVars, outcome>>
    <3>1. round' \in Tasks
      BY <2>0, AioAssumption DEF TypeOK, Tasks
    <3>2. /\ at = "start" /\ at' = "waiting" /\ helper = "wait_until"
          /\ UNCHANGED <<fixed, loopVars, asked, why, fresh, probeVars, streamVars, outcome>>
      BY <1>8 DEF PollAsync, Wait
    <3> QED BY <2>0, <3>1, <3>2
  <2>2. /\ \A i \in own' : i = round' \/ i \in own
        /\ round' \in own' => round' \in own \/ task'[round'] = "running"
        /\ \A i \in Tasks : i # round' => task'[i] = task[i]
        /\ own \subseteq own'
    BY <1>8, <2>1 DEF PollAsync, Wait
  <2>3. \A i \in own : i # round' /\ i <= round' /\ i \in Tasks /\ task[i] = "false"
    BY <2>1 DEF PollsInv, TypeOK, Tasks
  <2>4. \A i \in own' :
          /\ i <= round' /\ task'[i] \in {"running"} \union Ended
          /\ task'[i] # "false" => i = round' /\ at' \in {"waiting", "draining", "over"}
          /\ at' = "over" => task'[i] # "running"
    BY <2>1, <2>2, <2>3 DEF Ended, Tasks
  <2>5. asked' \subseteq own' /\ round' > 0
    BY <2>1, <2>2 DEF PollsInv, Tasks
  <2> QED BY <2>1, <2>4, <2>5 DEF PollsInv
<1>9. CASE Scan
  <2>1. /\ at = "start" /\ at' = "waiting" /\ round' = 1 /\ helper = "wait_for_line"
        /\ own' = own \union {1} /\ task'[1] = "running"
        /\ \A i \in Tasks : i # 1 => task'[i] = task[i]
        /\ UNCHANGED <<fixed, loopVars, asked, why, fresh, probeVars, streamVars, outcome>>
    BY <1>9, AioAssumption DEF Scan, Wait, TypeOK, Tasks
  <2>2. \A i \in own : i <= 1 /\ i \in Tasks /\ task[i] = "false"
    BY <2>1 DEF PollsInv, TypeOK, Tasks
  <2>3. \A i \in own' :
          /\ i <= round' /\ task'[i] \in {"running"} \union Ended
          /\ task'[i] # "false" => i = round' /\ at' \in {"waiting", "draining", "over"}
          /\ at' = "over" => task'[i] # "running"
    BY <2>1, <2>2 DEF Ended
  <2>4. asked' \subseteq own'
    BY <2>1 DEF PollsInv
  <2> QED BY <2>1, <2>3, <2>4 DEF PollsInv
<1>10. CASE PollCancelled
  BY <1>10 DEF PollsInv, PollCancelled, Drain, Over, Ask, Live
<1>11. CASE PollDone
  BY <1>11 DEF PollsInv, PollDone, Over, Again, Live
<1>12. CASE PollExpired
  BY <1>12 DEF PollsInv, PollExpired, Drain, Over, Ask, Live, Ended
<1>13. ASSUME NEW i \in Tasks, Settled(i) PROVE FALSE
  BY <1>13 DEF PollsInv, Settled
<1>14. ~ (Attempt \/ StopAttempt \/ AttemptEnds \/ AttemptCancelled)
  BY <1>0 DEF Attempt, StopAttempt, AttemptEnds, AttemptCancelled
<1>15. ~ (Stream \/ SomeDone \/ StreamCancelled \/ Evaluate)
  BY <1>0 DEF PollsInv, Stream, SomeDone, StreamCancelled, Evaluate
<1>16. ~ (Yield \/ StreamOn \/ Resume \/ Close)
  BY DEF PollsInv, Yield, StreamOn, Resume, Close
<1> QED BY <1>1, <1>2, <1>3, <1>4, <1>5, <1>6, <1>7, <1>8, <1>9, <1>10, <1>11, <1>12, <1>13,
           <1>14, <1>15, <1>16
        DEF Next

-----------------------------------------------------------------------------
(* The probes.                                                             *)

\* What a probe does keeps track of its attempts and their connections.
LEMMA ProbeStep ==
  ASSUME TypeOK, ProbeInv, [Next]_vars, helper = "probe"
  PROVE  ProbeInv'
<1>1. CASE Expire \/ Cancel \/ UNCHANGED vars
  BY <1>1 DEF ProbeInv, Expire, Cancel, vars
<1>2. ASSUME NEW i \in Tasks, End(i) PROVE ProbeInv'
  <2>1. /\ task[i] = "running"
        /\ \A j \in Tasks : j # i => task'[j] = task[j]
        /\ task'[i] \in Ended
        /\ UNCHANGED <<fixed, at, round, loopVars, own, asked, set, why, fresh, probeVars,
                       streamVars, outcome>>
    BY <1>2 DEF End, TypeOK
  <2>2. /\ i \in own /\ i = round
        /\ \/ at = "waiting"
           \/ at = "over" /\ outcome = "cancelled" /\ i \in asked /\ i \in settling
    BY <2>1 DEF ProbeInv
  <2>3. task'[i] \notin {"none", "running"}
    BY <2>1 DEF Ended
  <2> QED BY <2>1, <2>2, <2>3 DEF ProbeInv, TypeOK
<1>3. ASSUME NEW i \in Tasks, Acquire(i) \/ LeaveQueue(i) PROVE FALSE
  BY <1>3 DEF ProbeInv, Ended, Acquire, LeaveQueue
<1>4. ASSUME NEW i \in Tasks, Settled(i) PROVE ProbeInv'
  <2>1. /\ i \in settling /\ task[i] # "running"
        /\ settling' = settling \ {i}
        /\ \A j \in Tasks : released'[j] = IF j = i /\ task[i] = "true" THEN released[i] + 1
                                           ELSE released[j]
        /\ UNCHANGED <<fixed, at, round, loopVars, taskVars, set, why, fresh, judged,
                       streamVars, outcome>>
    BY <1>4 DEF Settled, Release, Live, TypeOK
  <2>2. /\ at = "over" /\ outcome = "cancelled" /\ released[i] = 0 /\ i \in own /\ i \notin judged
    BY <2>1 DEF ProbeInv, TypeOK
  <2> QED BY <2>1, <2>2 DEF ProbeInv
<1>5. CASE WakeUp
  BY <1>5 DEF ProbeInv, WakeUp, Over
<1>6. CASE Attempt
  <2>1. CASE round > 0 /\ expired
    BY <1>6, <2>1 DEF ProbeInv, Attempt, Over
  <2>2. CASE ~ (round > 0 /\ expired)
    <3>0. round < Size /\ round' = round + 1
      BY <1>6, <2>2 DEF Attempt
    <3>1. round' \in Tasks
      BY <3>0, AioAssumption DEF TypeOK, Tasks
    <3>2. /\ at = "start" /\ at' = "waiting" /\ own' = own \union {round'}
          /\ task' = [j \in Tasks |-> IF j \in {round'} THEN "running" ELSE task[j]]
          /\ UNCHANGED <<fixed, loopVars, asked, why, fresh, probeVars, streamVars, outcome>>
      BY <1>6, <2>2 DEF Attempt, Wait
    <3>3. /\ task'[round'] = "running"
          /\ \A j \in Tasks : j # round' => task'[j] = task[j]
      BY <3>1, <3>2
    <3>4. \A j \in own : j # round' /\ j <= round' /\ j # round + 1
      BY <3>0 DEF ProbeInv, TypeOK, Tasks
    <3>5. round' \notin own /\ settling = {}
      BY <3>2, <3>4 DEF ProbeInv
    <3>6. released[round'] = 0 /\ round' \notin judged
      BY <3>1, <3>5 DEF ProbeInv
    <3>7. /\ asked' \subseteq own'
          /\ \A j \in own' : j <= round'
      BY <3>0, <3>2, <3>4 DEF ProbeInv, TypeOK
    <3>8. \A j \in Tasks : j # round' => task'[j] # "running" /\ (task[j] = "true" => j \in judged)
      BY <3>2, <3>3 DEF ProbeInv
    <3> QED BY <3>1, <3>2, <3>3, <3>5, <3>6, <3>7, <3>8 DEF ProbeInv
  <2> QED BY <2>1, <2>2
<1>7. CASE StopAttempt
  BY <1>7 DEF ProbeInv, StopAttempt, Ask
<1>8. CASE AttemptEnds
  <2>1. /\ at = "waiting" /\ task[round] # "running"
        /\ at' \in {"over", "sleeping", "evaluating"}
        /\ outcome' = "timeout" /\ at' = "over" => expired
        /\ judged' = IF task[round] = "true" THEN judged \union {round} ELSE judged
        /\ UNCHANGED <<fixed, round, expired, taskVars, set, why, fresh, settling, released,
                       streamVars>>
    BY <1>8 DEF AttemptEnds, Over, Again, Live
  <2> QED BY <2>1 DEF ProbeInv, TypeOK
<1>9. CASE Evaluate
  <2>1. /\ at = "evaluating" /\ at' \in {"over", "sleeping"}
        /\ outcome' = "timeout" /\ at' = "over" => expired
        /\ UNCHANGED <<fixed, round, loopVars, taskVars, set, why, fresh, probeVars, streamVars>>
    BY <1>9 DEF Evaluate, Over, Again
  <2> QED BY <2>1 DEF ProbeInv
<1>10. CASE AttemptCancelled
  <2>0. /\ at = "waiting" /\ at' = "over" /\ outcome' = "cancelled"
        /\ Settle(round)
        /\ UNCHANGED <<fixed, round, landed, task, own, permits, set, why, fresh, judged,
                       streamVars>>
    BY <1>10 DEF AttemptCancelled, Over
  <2>1. /\ round \in own /\ round \in Tasks /\ released[round] = 0 /\ round \notin judged
        /\ settling = {}
    BY <2>0 DEF ProbeInv, TypeOK
  <2>2. CASE Live(round)
    <3>1. /\ asked' = asked \union {round}
          /\ settling' = {round} /\ released' = released
      BY <2>0, <2>1, <2>2 DEF Settle, Ask
    <3> QED BY <2>0, <2>1, <2>2, <3>1 DEF ProbeInv
  <2>3. CASE ~ Live(round)
    <3>1. /\ asked' = asked /\ settling' = {}
          /\ \A j \in Tasks : released'[j] = IF j = round /\ task[j] = "true" THEN 1 ELSE released[j]
      BY <2>0, <2>1, <2>3 DEF Settle, Release, TypeOK
    <3>2. task[round] # "running"
      BY <2>3 DEF Live
    <3> QED BY <2>0, <2>1, <3>1, <3>2 DEF ProbeInv
  <2> QED BY <2>2, <2>3
<1>11. ~ (DrainOn \/ DrainEnds)
  BY DEF ProbeInv, DrainOn, DrainEnds, Drained
<1>12. ~ (PollSync \/ PollAsync \/ Scan \/ PollCancelled \/ PollDone \/ PollExpired)
  BY DEF Polls, PollSync, PollAsync, Scan, PollCancelled, PollDone, PollExpired
<1>13. ~ (Stream \/ SomeDone \/ StreamCancelled)
  BY DEF Stream, SomeDone, StreamCancelled
<1>14. ~ (Yield \/ StreamOn \/ Resume \/ Close)
  BY DEF ProbeInv, Yield, StreamOn, Resume, Close
<1> QED BY <1>1, <1>2, <1>3, <1>4, <1>5, <1>6, <1>7, <1>8, <1>9, <1>10, <1>11, <1>12, <1>13,
           <1>14
        DEF Next

-----------------------------------------------------------------------------
(* A stream.                                                               *)

\* The generator ends, or drains what is pending.
LEMMA ReapStep ==
  ASSUME TypeOK, StreamInv, helper = "stream", NEW w \in {"cancelled", "raised", "closed"},
         Reap(w), at \in {"waiting", "yielding", "yielded"},
         UNCHANGED <<helper, task, own, probeVars, yielded>>, done' \subseteq done
  PROVE  StreamInv'
<1>1. own = Tasks /\ asked \subseteq Tasks /\ done' \intersect set = {}
  BY DEF StreamInv, TypeOK
<1>2. CASE set = {}
  BY <1>1, <1>2 DEF StreamInv, Reap, Over, Live
<1>3. CASE set # {}
  BY <1>1, <1>3 DEF StreamInv, Reap, Drain, Live
<1> QED BY <1>2, <1>3

\* What a stream does keeps track of its slots and their results.
LEMMA StreamStep ==
  ASSUME TypeOK, StreamInv, [Next]_vars, helper = "stream"
  PROVE  StreamInv'
<1>1. CASE Expire \/ Cancel \/ UNCHANGED vars
  BY <1>1 DEF StreamInv, Expire, Cancel, vars, Live
<1>2. ASSUME NEW i \in Tasks, End(i) \/ Acquire(i) \/ LeaveQueue(i) PROVE StreamInv'
  <2>1. /\ Live(i)
        /\ \A j \in Tasks : j # i => task'[j] = task[j]
        /\ UNCHANGED <<fixed, at, round, loopVars, own, asked, set, why, fresh, probeVars,
                       streamVars, outcome>>
    BY <1>2 DEF End, Acquire, LeaveQueue, TypeOK, Live
  <2>2. i \in set /\ at # "over" /\ at # "start"
    BY <2>1 DEF StreamInv, Live
  <2> QED BY <2>1, <2>2 DEF StreamInv, Live
<1>3. ASSUME NEW i \in Tasks, Settled(i) PROVE FALSE
  BY <1>3 DEF StreamInv, Settled
<1>4. CASE DrainOn
  BY <1>4 DEF StreamInv, DrainOn, Ask, Live
<1>5. CASE DrainEnds
  <2>1. /\ at = "draining" /\ at' = "over" /\ outcome' \in {"cancelled", "raised", "closed"}
        /\ \A i \in set : ~ Live(i)
        /\ UNCHANGED <<fixed, round, loopVars, taskVars, set, why, fresh, probeVars, streamVars>>
    BY <1>5 DEF StreamInv, DrainEnds, Drained, Over
  <2> QED BY <2>1 DEF StreamInv, Live
<1>6. CASE Stream
  <2>1. /\ at = "start" /\ at' = "waiting" /\ set' = Tasks /\ own' = own \union Tasks
        /\ UNCHANGED <<fixed, round, loopVars, why, fresh, probeVars, streamVars>>
    BY <1>6 DEF Stream, Wait
  <2> QED BY <2>1 DEF StreamInv
<1>7. CASE SomeDone
  <2>1. /\ at = "waiting" /\ at' = "yielding" /\ done' = {i \in set : ~ Live(i)} /\ set' = set \ done'
        /\ UNCHANGED <<fixed, round, loopVars, taskVars, why, fresh, probeVars, yielded, outcome>>
    BY <1>7 DEF SomeDone
  <2>2. done = {} /\ set' \union done' = set
    BY <2>1 DEF StreamInv
  <2> QED BY <2>1, <2>2 DEF StreamInv, Live
<1>8. CASE StreamCancelled
  BY <1>8, ReapStep DEF StreamCancelled
<1>9. CASE Close
  BY <1>9, ReapStep DEF Close
<1>10. CASE Yield
  <2>1. PICK i \in done :
          /\ done' = done \ {i}
          /\ IF task[i] = "true"
             THEN /\ at' = "yielded"
                  /\ yielded' = [yielded EXCEPT ![i] = @ + 1]
                  /\ UNCHANGED <<asked, set, why, outcome>>
             ELSE /\ Reap("raised")
                  /\ UNCHANGED yielded
    BY <1>10 DEF Yield
  <2>2. /\ at = "yielding"
        /\ UNCHANGED <<fixed, round, loopVars, task, own, permits, fresh, probeVars>>
    BY <1>10 DEF Yield
  <2>3. CASE task[i] = "true"
    <3>1. i \in Tasks /\ i \notin set /\ yielded[i] = 0
      BY <2>2 DEF StreamInv, TypeOK
    <3>2. \A j \in Tasks : yielded'[j] = IF j = i THEN 1 ELSE yielded[j]
      BY <2>1, <2>3, <3>1 DEF TypeOK
    <3>3. at' = "yielded" /\ done' = done \ {i} /\ UNCHANGED <<asked, set, why, outcome>>
      BY <2>1, <2>3
    <3>4. \A j \in Tasks : yielded'[j] = IF j \in set' \union done' THEN 0 ELSE 1
      BY <2>2, <3>1, <3>2, <3>3 DEF StreamInv
    <3> QED BY <2>2, <3>3, <3>4 DEF StreamInv, Live
  <2>4. CASE task[i] # "true"
    BY <2>1, <2>2, <2>4, ReapStep
  <2> QED BY <2>3, <2>4
<1>11. CASE StreamOn
  BY <1>11 DEF StreamInv, StreamOn, Over, Live
<1>12. CASE Resume
  BY <1>12 DEF StreamInv, Resume, Live
<1>13. ~ (PollSync \/ PollAsync \/ Scan \/ PollCancelled \/ PollDone \/ PollExpired)
  BY DEF Polls, PollSync, PollAsync, Scan, PollCancelled, PollDone, PollExpired
<1>14. ~ (Attempt \/ StopAttempt \/ AttemptEnds \/ AttemptCancelled)
  BY DEF Attempt, StopAttempt, AttemptEnds, AttemptCancelled
<1>15. ~ (Evaluate \/ WakeUp)
  BY DEF StreamInv, Evaluate, WakeUp
<1> QED BY <1>1, <1>2, <1>3, <1>4, <1>5, <1>6, <1>7, <1>8, <1>9, <1>10, <1>11, <1>12, <1>13,
           <1>14, <1>15
        DEF Next

-----------------------------------------------------------------------------
(* What a drain waits for, what a stream gives back and what it gives out.  *)

(***************************************************************************)
(* A drain waits for no task that it has not cancelled: it cannot be held  *)
(* up by a poll, a scan or a command that goes on undisturbed.             *)
(***************************************************************************)
DrainsWhatItAsked == at = "draining" => \A i \in set : Live(i) => i \in asked

\* No task becomes live while it is drained.
LEMMA DrainsStep ==
  ASSUME TypeOK, DrainsWhatItAsked, [Next]_vars
  PROVE  DrainsWhatItAsked'
<1> USE DEF DrainsWhatItAsked
<1>1. ASSUME UNCHANGED <<at, task, asked, set>> PROVE DrainsWhatItAsked'
  BY <1>1 DEF Live
<1>2. ASSUME at' # "draining" PROVE DrainsWhatItAsked'
  BY <1>2
<1>3. ASSUME at' = "draining", task' = task, asked' = asked \union {i \in set' : Live(i)}
      PROVE  DrainsWhatItAsked'
  BY <1>3 DEF Live
<1>4. ASSUME NEW i \in Tasks, End(i) \/ Acquire(i) \/ LeaveQueue(i) PROVE DrainsWhatItAsked'
  <2>1. /\ UNCHANGED <<at, asked, set>> /\ Live(i)
        /\ \A j \in Tasks : j # i => task'[j] = task[j]
    BY <1>4 DEF End, Acquire, LeaveQueue, Live, TypeOK
  <2>2. set \subseteq Tasks
    BY DEF TypeOK
  <2> QED BY <2>1, <2>2 DEF Live
<1>5. ASSUME NEW i \in Tasks, Settled(i) PROVE DrainsWhatItAsked'
  BY <1>1, <1>5 DEF Settled
<1>6. CASE Expire \/ Cancel \/ UNCHANGED vars
  BY <1>1, <1>6 DEF Expire, Cancel, vars
<1>7. CASE WakeUp \/ DrainEnds \/ StreamOn \/ Resume \/ SomeDone
  BY <1>2, <1>7 DEF WakeUp, DrainEnds, StreamOn, Resume, SomeDone, Over
<1>8. CASE DrainOn
  BY <1>3, <1>8 DEF DrainOn, Ask
<1>9. CASE PollSync \/ PollAsync \/ Scan \/ PollDone \/ Stream
  BY <1>2, <1>9 DEF PollSync, PollAsync, Scan, PollDone, Stream, Wait, Over, Again
<1>10. CASE Attempt \/ StopAttempt \/ AttemptEnds \/ Evaluate \/ AttemptCancelled
  BY <1>2, <1>10 DEF Attempt, StopAttempt, AttemptEnds, Evaluate, AttemptCancelled,
                     Wait, Over, Again
<1>11. CASE PollCancelled \/ PollExpired
  BY <1>2, <1>3, <1>11 DEF PollCancelled, PollExpired, Drain, Ask, Over
<1>12. CASE StreamCancelled \/ Close
  BY <1>2, <1>3, <1>12 DEF StreamCancelled, Close, Reap, Drain, Ask, Over
<1>13. CASE Yield
  <2>1. at' = "yielded" \/ Reap("raised")
    BY <1>13 DEF Yield
  <2>2. task' = task
    BY <1>13 DEF Yield
  <2> QED BY <1>2, <1>3, <2>1, <2>2 DEF Reap, Drain, Ask, Over
<1> QED BY <1>4, <1>5, <1>6, <1>7, <1>8, <1>9, <1>10, <1>11, <1>12, <1>13 DEF Next

(***************************************************************************)
(* Each slot is yielded once at the most, and only with its result, also   *)
(* by a stream that is closed, cancelled or ended by another slot's error. *)
(***************************************************************************)
YieldsResults ==
  \A i \in Tasks : yielded[i] <= 1 /\ (yielded[i] = 1 => task[i] = "true")

\* Only a stream that has begun has yielded anything.
Yields ==
  \A i \in Tasks :
    /\ yielded[i] \in {0, 1}
    /\ yielded[i] = 1 => helper = "stream" /\ at # "start" /\ task[i] = "true"

\* A slot is yielded once it has a result, and never again.
LEMMA YieldsStep ==
  ASSUME TypeOK, IInv, Yields, [Next]_vars
  PROVE  Yields'
<1> USE DEF Yields
<1>1. ASSUME UNCHANGED <<helper, task, yielded>>, at' # "start" \/ helper # "stream"
      PROVE  Yields'
  BY <1>1
<1>2. ASSUME NEW i \in Tasks, End(i) \/ Acquire(i) \/ LeaveQueue(i) PROVE Yields'
  <2>1. /\ UNCHANGED <<helper, at, yielded>> /\ task[i] # "true"
        /\ \A j \in Tasks : j # i => task'[j] = task[j]
    BY <1>2 DEF End, Acquire, LeaveQueue, TypeOK
  <2> QED BY <2>1
<1>3. ASSUME NEW i \in Tasks, Settled(i) PROVE Yields'
  BY <1>3 DEF Settled
<1>4. CASE Expire \/ Cancel \/ DrainOn \/ UNCHANGED vars
  BY <1>4 DEF Expire, Cancel, DrainOn, vars
<1>5. CASE DrainEnds \/ StreamOn \/ Resume \/ SomeDone \/ StreamCancelled \/ Close
  BY <1>1, <1>5 DEF DrainEnds, StreamOn, Resume, SomeDone, StreamCancelled, Close, Reap,
                    Drain, Over
<1>6. CASE WakeUp
  <2>1. helper # "stream"
    BY <1>6 DEF WakeUp, IInv, HelperInv, StreamInv
  <2> QED BY <1>1, <1>6, <2>1 DEF WakeUp
<1>7. CASE PollSync \/ PollCancelled \/ PollDone \/ PollExpired
  BY <1>1, <1>7 DEF PollSync, PollCancelled, PollDone, PollExpired, Polls
<1>8. CASE StopAttempt \/ AttemptEnds \/ Evaluate \/ AttemptCancelled
  <2>1. at' # "start"
    BY <1>8 DEF StopAttempt, AttemptEnds, Evaluate, AttemptCancelled, Over, Again
  <2> QED BY <1>1, <1>8, <2>1 DEF StopAttempt, AttemptEnds, Evaluate, AttemptCancelled
<1>9. CASE PollAsync \/ Scan \/ Attempt \/ Stream
  <2>1. at = "start" /\ UNCHANGED <<helper, yielded>>
    BY <1>9 DEF PollAsync, Scan, Attempt, Stream
  <2>2. \A i \in Tasks : yielded[i] = 0
    <3>1. CASE helper = "stream"
      BY <2>1, <3>1
    <3>2. CASE helper # "stream"
      BY <3>2
    <3> QED BY <3>1, <3>2
  <2> QED BY <2>1, <2>2
<1>10. CASE Yield
  <2>1. helper = "stream"
    BY <1>10, AioAssumption DEF Yield, IInv, HelperInv, PollsInv, ProbeInv, Polls, TypeOK
  <2>2. PICK i \in done :
          IF task[i] = "true"
          THEN at' = "yielded" /\ yielded' = [yielded EXCEPT ![i] = @ + 1]
          ELSE Reap("raised") /\ UNCHANGED yielded
    BY <1>10 DEF Yield
  <2>3. UNCHANGED <<helper, task>>
    BY <1>10 DEF Yield
  <2>4. CASE task[i] = "true"
    <3>1. i \in Tasks /\ yielded[i] = 0
      BY <1>10, <2>1 DEF Yield, IInv, HelperInv, StreamInv, TypeOK
    <3>2. \A j \in Tasks : yielded'[j] = IF j = i THEN 1 ELSE yielded[j]
      BY <2>2, <2>4, <3>1 DEF TypeOK
    <3>3. at' = "yielded"
      BY <2>2, <2>4
    <3> QED BY <2>1, <2>3, <2>4, <3>1, <3>2, <3>3
  <2>5. CASE task[i] # "true"
    <3>1. at' # "start" /\ UNCHANGED yielded
      BY <2>2, <2>5 DEF Reap, Drain, Over
    <3> QED BY <1>1, <2>3, <3>1
  <2> QED BY <2>4, <2>5
<1> QED BY <1>2, <1>3, <1>4, <1>5, <1>6, <1>7, <1>8, <1>9, <1>10 DEF Next

-----------------------------------------------------------------------------
(* The types.                                                              *)

\* The types after a helper begins to wait.
LEMMA WaitTypes ==
  ASSUME TypeOK, NEW S \in SUBSET Tasks, NEW states \in [Tasks -> {"queued", "running"} \union Ended],
         NEW mine \in SUBSET S, Wait(S, mine, states), round' \in 0 .. Size,
         UNCHANGED <<fixed, loopVars, why, fresh, probeVars, streamVars>>
  PROVE  TypeOK'
<1>1. task' \in [Tasks -> {"none", "queued", "running"} \union Ended]
  BY DEF Wait, TypeOK
<1>2. own' \subseteq Tasks /\ set' \subseteq Tasks /\ at' = "waiting"
      /\ UNCHANGED <<asked, permits, outcome>>
  BY DEF Wait, TypeOK
<1> QED BY <1>1, <1>2 DEF TypeOK

\* The types after a helper begins to drain.
LEMMA DrainTypes ==
  ASSUME TypeOK, NEW S \in SUBSET Tasks, NEW w \in {"cancelled", "deadline", "raised", "closed"},
         Drain(S, w)
  PROVE  /\ at' = "draining" /\ set' \subseteq Tasks /\ asked' \subseteq Tasks
         /\ why' \in {"none", "cancelled", "deadline", "raised", "closed"}
         /\ outcome' = outcome
BY DEF TypeOK, Drain, Ask

\* The types after a stream begins to reap its slots.
LEMMA ReapTypes ==
  ASSUME TypeOK, NEW w \in {"cancelled", "raised", "closed"}, Reap(w)
  PROVE  /\ at' \in {"draining", "over"} /\ set' \subseteq Tasks /\ asked' \subseteq Tasks
         /\ why' \in {"none", "cancelled", "deadline", "raised", "closed"}
         /\ outcome' \in {outcome, w}
<1>1. CASE set = {}
  BY <1>1 DEF TypeOK, Reap, Over
<1>2. CASE set # {}
  <2>1. Drain(set, w) /\ set \in SUBSET Tasks
    BY <1>2 DEF TypeOK, Reap
  <2> QED BY <2>1, DrainTypes
<1> QED BY <1>1, <1>2

\* A step keeps the types.
LEMMA TypeStep ==
  ASSUME TypeOK, IInv, [Next]_vars
  PROVE  TypeOK'
<1>0. ASSUME UNCHANGED <<fixed, round, taskVars, set, why, probeVars, streamVars>>,
             expired' \in BOOLEAN, cancel' \in BOOLEAN, landed' \in BOOLEAN, fresh' = fresh,
             at' \in {at, "start", "sleeping", "evaluating", "over"},
             outcome' \in {outcome, "met", "raised", "timeout", "cancelled"}
      PROVE  TypeOK'
  BY <1>0 DEF TypeOK
<1>1. CASE Expire \/ Cancel \/ WakeUp \/ UNCHANGED vars
  <2>1. CASE Expire
    BY <2>1 DEF TypeOK, Expire
  <2>2. CASE Cancel
    BY <2>2 DEF TypeOK, Cancel
  <2>3. CASE WakeUp
    BY <2>3 DEF TypeOK, WakeUp, Over
  <2>4. CASE UNCHANGED vars
    BY <2>4 DEF TypeOK, vars
  <2> QED BY <1>1, <2>1, <2>2, <2>3, <2>4
<1>2. ASSUME NEW i \in Tasks, End(i) PROVE TypeOK'
  <2>1. PICK e \in Ended : task' = [task EXCEPT ![i] = e]
    BY <1>2 DEF End
  <2>2. task' \in [Tasks -> {"none", "queued", "running"} \union Ended]
    BY <2>1 DEF TypeOK
  <2>3. permits' \in 0 .. Size
    <3>1. CASE helper = "stream"
      <4>1. permits' = permits + 1 /\ UNCHANGED <<helper, limit>>
        BY <1>2, <3>1 DEF End
      <4>2. permits' + Cardinality(Running') = limit
        BY <3>1, <4>1, PermitsStep DEF Permits
      <4>3. Running' \subseteq Tasks
        BY DEF Running, Tasks
      <4>4. Cardinality(Running') \in Nat
        BY <4>3, RunningFinite
      <4> QED BY <4>1, <4>2, <4>4, AioAssumption DEF TypeOK, Tasks
    <3>2. CASE helper # "stream"
      BY <1>2, <3>2 DEF End, TypeOK
    <3> QED BY <3>1, <3>2
  <2>4. UNCHANGED <<fixed, at, round, loopVars, own, asked, set, why, fresh, probeVars,
                    streamVars, outcome>>
    BY <1>2 DEF End
  <2> QED BY <2>2, <2>3, <2>4 DEF TypeOK
<1>3. ASSUME NEW i \in Tasks, Acquire(i) \/ LeaveQueue(i) PROVE TypeOK'
  <2>1. /\ task' \in [Tasks -> {"none", "queued", "running"} \union Ended]
        /\ UNCHANGED <<fixed, at, round, loopVars, own, asked, set, why, fresh, probeVars,
                       streamVars, outcome>>
    BY <1>3 DEF Acquire, LeaveQueue, TypeOK, Ended
  <2>2. permits' \in 0 .. Size
    BY <1>3, AioAssumption DEF Acquire, LeaveQueue, TypeOK
  <2> QED BY <2>1, <2>2 DEF TypeOK
<1>4. ASSUME NEW i \in Tasks, Settled(i) PROVE TypeOK'
  <2>1. /\ settling' \subseteq settling
        /\ released' = released \/ released' = [released EXCEPT ![i] = @ + 1]
        /\ UNCHANGED <<fixed, at, round, loopVars, taskVars, set, why, fresh, judged,
                       streamVars, outcome>>
    BY <1>4 DEF Settled, Release
  <2> QED BY <2>1 DEF TypeOK
<1>5. CASE DrainOn
  BY <1>5 DEF TypeOK, DrainOn, Ask
<1>6. CASE DrainEnds
  <2>1. /\ at' = "over" /\ outcome' \in {"cancelled", "met", "raised", "timeout", "closed", "none"}
        /\ UNCHANGED <<fixed, round, loopVars, taskVars, set, why, fresh, probeVars, streamVars>>
    BY <1>6 DEF TypeOK, DrainEnds, Over
  <2> QED BY <2>1 DEF TypeOK
<1>7. CASE PollSync
  <2>1. /\ at' \in {"over", "sleeping"} /\ round < Size /\ round' = round + 1
        /\ outcome' \in {outcome, "met", "raised", "timeout"}
        /\ UNCHANGED <<fixed, loopVars, taskVars, set, why, fresh, probeVars, streamVars>>
    BY <1>7 DEF PollSync, Over, Again
  <2> QED BY <2>1, AioAssumption DEF TypeOK
<1>8. CASE PollAsync
  <2>1. /\ round < Size /\ round' = round + 1
        /\ UNCHANGED <<fixed, loopVars, why, fresh, probeVars, streamVars>>
    BY <1>8 DEF PollAsync
  <2>2. round' \in Tasks /\ round' \in 0 .. Size
    BY <2>1, AioAssumption DEF TypeOK, Tasks
  <2>3. CASE Wait({round'}, {round'}, [i \in Tasks |-> "running"])
    BY <2>1, <2>2, <2>3, WaitTypes
  <2>4. ASSUME NEW e \in Ended \union {"running"}, Wait({round'}, {}, [i \in Tasks |-> e])
        PROVE  TypeOK'
    BY <2>1, <2>2, <2>4, WaitTypes
  <2> QED BY <1>8, <2>3, <2>4 DEF PollAsync
<1>9. CASE Scan
  <2>1. /\ round' = 1 /\ Wait({1}, {1}, [i \in Tasks |-> "running"])
        /\ UNCHANGED <<fixed, loopVars, why, fresh, probeVars, streamVars>>
    BY <1>9 DEF Scan
  <2>2. round' \in Tasks /\ round' \in 0 .. Size
    BY <2>1, AioAssumption DEF TypeOK, Tasks
  <2> QED BY <2>1, <2>2, WaitTypes
<1>10. CASE Attempt
  <2>1. CASE round > 0 /\ expired
    BY <1>10, <2>1 DEF TypeOK, Attempt, Over
  <2>2. CASE ~ (round > 0 /\ expired)
    <3>1. /\ round < Size /\ round' = round + 1
          /\ Wait({round'}, {round'}, [i \in Tasks |-> "running"])
          /\ UNCHANGED <<fixed, loopVars, why, fresh, probeVars, streamVars>>
      BY <1>10, <2>2 DEF Attempt
    <3>2. round' \in Tasks /\ round' \in 0 .. Size
      BY <3>1, AioAssumption DEF TypeOK, Tasks
    <3> QED BY <3>1, <3>2, WaitTypes
  <2> QED BY <2>1, <2>2
<1>11. CASE Stream
  <2>1. /\ Wait(Tasks, Tasks, [i \in Tasks |-> "queued"])
        /\ UNCHANGED <<fixed, round, loopVars, why, fresh, probeVars, streamVars>>
    BY <1>11 DEF Stream
  <2>2. round' \in 0 .. Size
    BY <2>1 DEF TypeOK
  <2> QED BY <2>1, <2>2, WaitTypes
<1>12. CASE PollCancelled \/ PollExpired
  <2>1. /\ at' \in {"draining", "over"} /\ set' \subseteq Tasks /\ asked' \subseteq Tasks
        /\ why' \in {"none", "cancelled", "deadline", "raised", "closed"}
        /\ outcome' \in {outcome, "cancelled", "timeout"}
        /\ cancel' \in BOOLEAN
    BY <1>12 DEF TypeOK, PollCancelled, PollExpired, Drain, Over, Ask
  <2>2. UNCHANGED <<fixed, round, expired, landed, task, own, permits, fresh, probeVars, streamVars>>
    BY <1>12 DEF PollCancelled, PollExpired
  <2> QED BY <2>1, <2>2 DEF TypeOK
<1>13. CASE PollDone \/ Evaluate
  BY <1>0, <1>13 DEF TypeOK, PollDone, Evaluate, Over, Again
<1>14. CASE StopAttempt
  <2>1. /\ asked' \subseteq Tasks
        /\ UNCHANGED <<fixed, at, round, loopVars, task, own, permits, set, why, fresh, probeVars,
                       streamVars, outcome>>
    <3>1. at = "waiting" /\ helper = "probe"
      BY <1>14 DEF StopAttempt
    <3>2. round \in Tasks
      BY <3>1 DEF IInv, HelperInv, ProbeInv, TypeOK
    <3> QED BY <1>14, <3>2 DEF StopAttempt, Ask, TypeOK
  <2> QED BY <2>1 DEF TypeOK
<1>15. CASE AttemptEnds
  <2>1. /\ at' \in {"over", "sleeping", "evaluating"}
        /\ outcome' \in {outcome, "raised", "timeout"}
        /\ judged' = judged \/ judged' = judged \union {round}
        /\ UNCHANGED <<fixed, round, expired, taskVars, set, why, fresh, settling, released,
                       streamVars>>
        /\ cancel' = FALSE /\ landed' \in BOOLEAN
    BY <1>15 DEF AttemptEnds, Over, Again, TypeOK
  <2>2. task[round] = "true" => judged' \subseteq Tasks
    <3>1. at = "waiting" /\ helper = "probe"
      BY <1>15 DEF AttemptEnds
    <3> QED BY <2>1, <3>1 DEF IInv, HelperInv, ProbeInv, TypeOK
  <2>3. judged' \subseteq Tasks
    BY <1>15, <2>2 DEF AttemptEnds, TypeOK
  <2> QED BY <2>1, <2>3 DEF TypeOK
<1>16. CASE AttemptCancelled
  <2>1. /\ at = "waiting" /\ helper = "probe" /\ Settle(round)
        /\ at' = "over" /\ outcome' = "cancelled" /\ cancel' = FALSE
        /\ UNCHANGED <<fixed, round, expired, landed, task, own, permits, set, why, fresh, judged,
                       streamVars>>
    BY <1>16 DEF AttemptCancelled, Over
  <2>2. round \in Tasks
    BY <2>1 DEF IInv, HelperInv, ProbeInv, TypeOK
  <2>3. /\ settling' \subseteq Tasks /\ asked' \subseteq Tasks
        /\ released' \in [Tasks -> Nat]
    <3>1. CASE Live(round)
      BY <2>1, <2>2, <3>1 DEF Settle, Ask, TypeOK
    <3>2. CASE ~ Live(round)
      <4>1. /\ UNCHANGED <<asked, settling>>
            /\ released' = released \/ Release(round)
        BY <2>1, <3>2 DEF Settle
      <4>2. CASE released' = released
        BY <4>1, <4>2 DEF TypeOK
      <4>3. CASE Release(round)
        <5>1. released' = [released EXCEPT ![round] = released[round] + 1]
          BY <4>3 DEF Release
        <5>2. released[round] + 1 \in Nat
          BY <2>2 DEF TypeOK
        <5>3. released' \in [Tasks -> Nat]
          BY <5>1, <5>2 DEF TypeOK
        <5> QED BY <4>1, <5>3 DEF TypeOK
      <4> QED BY <4>1, <4>2, <4>3
    <3> QED BY <3>1, <3>2
  <2> QED BY <2>1, <2>3 DEF TypeOK
<1>17. CASE SomeDone \/ StreamOn \/ Resume
  BY <1>17 DEF TypeOK, SomeDone, StreamOn, Resume, Over
<1>18. CASE StreamCancelled
  <2>1. /\ Reap("cancelled") /\ cancel' = FALSE
        /\ UNCHANGED <<fixed, round, expired, landed, task, own, permits, fresh, probeVars, streamVars>>
    BY <1>18 DEF StreamCancelled
  <2> QED BY <2>1, ReapTypes DEF TypeOK
<1>19. CASE Close
  <2>1. /\ Reap("closed")
        /\ UNCHANGED <<fixed, round, loopVars, task, own, permits, fresh, probeVars, streamVars>>
    BY <1>19 DEF Close
  <2> QED BY <2>1, ReapTypes DEF TypeOK
<1>20. CASE Yield
  <2>1. PICK i \in done :
          /\ done' = done \ {i}
          /\ IF task[i] = "true"
             THEN /\ at' = "yielded"
                  /\ yielded' = [yielded EXCEPT ![i] = @ + 1]
                  /\ UNCHANGED <<asked, set, why, outcome>>
             ELSE /\ Reap("raised")
                  /\ UNCHANGED yielded
    BY <1>20 DEF Yield
  <2>2. UNCHANGED <<fixed, round, loopVars, task, own, permits, fresh, probeVars>>
    BY <1>20 DEF Yield
  <2>3. CASE task[i] = "true"
    BY <2>1, <2>2, <2>3 DEF TypeOK
  <2>4. CASE task[i] # "true"
    BY <2>1, <2>2, <2>4, ReapTypes DEF TypeOK
  <2> QED BY <2>3, <2>4
<1> QED BY <1>1, <1>2, <1>3, <1>4, <1>5, <1>6, <1>7, <1>8, <1>9, <1>10, <1>11, <1>12, <1>13,
           <1>14, <1>15, <1>16, <1>17, <1>18, <1>19, <1>20
        DEF Next

-----------------------------------------------------------------------------
(* The theorems.                                                           *)

\* A helper begins with the invariant.
LEMMA InitHolds ==
  ASSUME Init
  PROVE  TypeOK /\ IInv
<1>1. TypeOK
  <2>1. limit \in 0 .. Size /\ 0 \in 0 .. Size
    BY AioAssumption DEF Init, Tasks
  <2> QED BY <2>1 DEF Init, TypeOK
<1>2. Permits
  <2>1. Running = {}
    BY DEF Init, Running
  <2> QED BY <2>1, <1>1, FS_EmptySet DEF Init, Permits, TypeOK, Tasks
<1>3. Cancellation
  BY DEF Init, Cancellation
<1>4. PollsInv /\ ProbeInv /\ StreamInv
  BY DEF Init, PollsInv, ProbeInv, StreamInv, Live
<1> QED BY <1>1, <1>2, <1>3, <1>4 DEF IInv, HelperInv

\* A step keeps the invariant, whichever helper takes it.
LEMMA InvStep ==
  ASSUME TypeOK, IInv, [Next]_vars
  PROVE  IInv'
<1>1. helper' = helper
  BY DEF Next, vars, Expire, Cancel, End, Acquire, LeaveQueue, Settled, WakeUp, DrainOn,
         DrainEnds, PollSync, PollAsync, Scan, PollCancelled, PollDone, PollExpired, Attempt,
         StopAttempt, AttemptEnds, Evaluate, AttemptCancelled, Stream, SomeDone,
         StreamCancelled, Yield, StreamOn, Resume, Close
<1>2. HelperInv'
  BY <1>1, PollsStep, ProbeStep, StreamStep DEF IInv, HelperInv
<1> QED BY <1>2, PermitsStep, CancellationStep DEF IInv

(***************************************************************************)
(* The types and the inductive invariant hold of every reachable state.    *)
(***************************************************************************)
THEOREM Inductive == Spec => [](TypeOK /\ IInv)
<1>1. Init => TypeOK /\ IInv
  BY InitHolds
<1>2. TypeOK /\ IInv /\ [Next]_vars => (TypeOK /\ IInv)'
  BY TypeStep, InvStep
<1> QED BY <1>1, <1>2, PTL DEF Spec

(***************************************************************************)
(* NothingOutlives, for any number of slots, polls and attempts, and any   *)
(* number of cancellations, also while the helper drains.                  *)
(***************************************************************************)
THEOREM NothingOutlivesHolds == Spec => []NothingOutlives
<1>1. TypeOK /\ IInv => NothingOutlives
  <2> SUFFICES ASSUME TypeOK, IInv PROVE NothingOutlives
    OBVIOUS
  <2>1. CASE helper \in Polls
    <3>1. PollsInv /\ helper # "probe"
      BY <2>1 DEF IInv, HelperInv, Polls
    <3>2. \A i \in Tasks : task[i] # "queued"
      BY <2>1 DEF IInv, Permits, Polls
    <3> QED BY <3>1, <3>2 DEF NothingOutlives, PollsInv, Live, TypeOK
  <2>2. CASE helper = "probe"
    <3>1. ProbeInv
      BY <2>2 DEF IInv, HelperInv
    <3>2. \A i \in Tasks : task[i] # "queued"
      BY <2>2 DEF IInv, Permits
    <3> QED BY <2>2, <3>1, <3>2 DEF NothingOutlives, ProbeInv, Live, TypeOK
  <2>3. CASE helper = "stream"
    <3>1. StreamInv
      BY <2>3 DEF IInv, HelperInv
    <3>2. asked \subseteq own
      BY <3>1 DEF StreamInv, TypeOK
    <3> QED BY <2>3, <3>1, <3>2 DEF NothingOutlives, StreamInv, TypeOK
  <2> QED BY <2>1, <2>2, <2>3, AioAssumption DEF TypeOK, Polls
<1> QED BY <1>1, Inductive, PTL

(***************************************************************************)
(* VerdictStands, likewise: a cancellation comes out of the helper, unless *)
(* asyncio.wait_for() has dropped it for an attempt that ended, and a      *)
(* timeout hides no condition that was met in its tick.                    *)
(***************************************************************************)
THEOREM VerdictStandsHolds == Spec => []VerdictStands
<1>1. TypeOK /\ IInv => VerdictStands
  <2> SUFFICES ASSUME TypeOK, IInv, at = "over" PROVE VerdictStands
    BY DEF VerdictStands
  <2>0. landed => outcome = "cancelled"
    BY DEF IInv, Cancellation, Suspended
  <2>1. CASE helper \in Polls
    <3>1. PollsInv /\ helper # "probe" /\ helper # "stream"
      BY <2>1 DEF IInv, HelperInv, Polls
    <3> QED BY <2>0, <3>1 DEF VerdictStands, PollsInv
  <2>2. CASE helper = "probe"
    <3>1. ProbeInv /\ helper \notin Polls
      BY <2>2 DEF IInv, HelperInv, Polls
    <3> QED BY <2>0, <2>2, <3>1 DEF VerdictStands, ProbeInv, TypeOK
  <2>3. CASE helper = "stream"
    <3>1. StreamInv /\ helper \notin Polls
      BY <2>3 DEF IInv, HelperInv, Polls
    <3> QED BY <2>0, <2>3, <3>1 DEF VerdictStands, StreamInv
  <2> QED BY <2>1, <2>2, <2>3, AioAssumption DEF TypeOK, Polls
<1> QED BY <1>1, Inductive, PTL

(***************************************************************************)
(* CapHeld, for any number of slots and any limit.                         *)
(***************************************************************************)
THEOREM CapHeldHolds == Spec => []CapHeld
<1>1. TypeOK /\ IInv => CapHeld
  <2> SUFFICES ASSUME TypeOK, IInv, helper = "stream" PROVE CapHeld
    BY DEF CapHeld
  <2>1. permits + Cardinality(Running) = limit
    BY DEF IInv, Permits
  <2>2. Cardinality(Running) \in Nat
    BY RunningFinite DEF Running
  <2> QED BY <2>1, <2>2, AioAssumption DEF CapHeld, Running, TypeOK, Tasks
<1> QED BY <1>1, Inductive, PTL

(***************************************************************************)
(* DrainsWhatItAsked, for any number of slots and of cancellations.        *)
(***************************************************************************)
THEOREM DrainsWhatItAskedHolds == Spec => []DrainsWhatItAsked
<1>1. Init => DrainsWhatItAsked
  BY DEF Init, DrainsWhatItAsked
<1>2. TypeOK /\ DrainsWhatItAsked /\ [Next]_vars => DrainsWhatItAsked'
  BY DrainsStep
<1> QED BY <1>1, <1>2, Inductive, PTL DEF Spec

(***************************************************************************)
(* YieldsResults, for any number of slots, whatever ends the stream.       *)
(***************************************************************************)
THEOREM YieldsResultsHolds == Spec => []YieldsResults
<1>1. Init => Yields
  BY DEF Init, Yields
<1>2. TypeOK /\ IInv /\ Yields /\ [Next]_vars => Yields'
  BY YieldsStep
<1>3. Yields => YieldsResults
  BY DEF Yields, YieldsResults
<1> QED BY <1>1, <1>2, <1>3, Inductive, PTL DEF Spec

(***************************************************************************)
(* A stream that is over, whatever ended it, has given back every permit   *)
(* of its semaphore: no slot is gone with the one that it had acquired.    *)
(***************************************************************************)
PermitsRestored == helper = "stream" /\ at = "over" => permits = limit

\* The permits are all back, since no slot runs when a stream is over.
THEOREM PermitsRestoredHolds == Spec => []PermitsRestored
<1>1. TypeOK /\ IInv => PermitsRestored
  <2> SUFFICES ASSUME TypeOK, IInv, helper = "stream", at = "over" PROVE permits = limit
    BY DEF PermitsRestored
  <2>1. permits + Cardinality(Running) = limit
    BY DEF IInv, Permits
  <2>2. Running = {}
    BY DEF IInv, HelperInv, StreamInv, Running, Live
  <2> QED BY <2>1, <2>2, FS_EmptySet DEF TypeOK, Tasks
<1> QED BY <1>1, Inductive, PTL

=============================================================================
