------------------------- MODULE SupervisionProofs -------------------------
(***************************************************************************)
(* Theorems about Supervision, for any set of calls and any max_restarts.  *)
(***************************************************************************)
EXTENDS Supervision, FiniteSetTheorems, TLAPS

(***************************************************************************)
(* The inductive invariant.  What there is to drive the loop with is one   *)
(* thing, in one place: the supervisor in its slot, or in an awaitable     *)
(* that has not been awaited; then, once there is a loop, the session in   *)
(* its slot, or the one call that holds it.  Hence a result is collected   *)
(* by one call, and the cells that this call empties are looked into by    *)
(* nobody after it.                                                        *)
(***************************************************************************)
Pends(c) == verb[c] \in Starts /\ call[c] = "lazy"

Collectable == session = "open" \/ \E c \in Calls : Holds(c)

Token ==
  /\ supervisor => \A c \in Calls : ~ Pends(c)
  /\ \A c, d \in Calls : Pends(c) /\ Pends(d) => c = d
  /\ supervisor \/ (\E c \in Calls : Pends(c)) => loop = "none"
  /\ loop = "none" => ~ Collectable
  /\ session = "open" => \A c \in Calls : ~ Holds(c)
  /\ \A c, d \in Calls : Holds(c) /\ Holds(d) => c = d
  /\ loop \in Active => Collectable

Told ==
  /\ loop = "none" => raised = {}
  /\ \A c \in Calls : answer[c] \in {"outcome", "error"} => loop = "ended" /\ ~ Collectable /\ raised = {}
  /\ raised # {} /\ loop # "aborted" /\ Collectable => completed \/ slot

Staged ==
  /\ \A c \in Calls : call[c] = "idle" => answer[c] = "none"
  /\ \A c \in Calls : verb[c] = "none" <=> call[c] \in {"idle", "done"}

IInv == Token /\ Told /\ Staged /\ ForkRefused

USE DEF config, callVars, loopVars, cells

-----------------------------------------------------------------------------
(* Types.                                                                  *)

\* A step keeps the types.
LEMMA TypeStep ==
  ASSUME TypeOK, [Next]_vars
  PROVE  TypeOK'
<1> USE MaxRestartsAssumption
<1> USE DEF TypeOK, Unlimited, Active, Starts, Exits, Stopping, Ends, Verbs, Lazy, RaiseInto,
            RunnerVerb, Halt, Open, Ended, Abort, Collected, EmptyCells, Exhausted
<1>1. CASE Launch \/ LaunchFails
  BY <1>1 DEF Launch, LaunchFails
<1>2. CASE Exit \/ ProbeFails
  BY <1>2, ZenonT(40) DEF Exit, ProbeFails
<1>3. CASE Judge /\ ~ Restart
  <2>1. /\ UNCHANGED <<config, supervisor, session, callVars, attempt, restarts>>
        /\ loop' = "ended"
        /\ RaiseInto("control") \/ UNCHANGED cells
    BY <1>3 DEF Judge, StopByRunner, StopByPredicate, StopByPolicy, GiveUp, StopByLimit
  <2> QED BY <2>1, ZenonT(40)
<1>4. CASE Restart
  BY <1>4 DEF Restart, Passed
<1>5. CASE StopLoop
  BY <1>5 DEF StopLoop
<1>15. CASE DropSession
  BY <1>15 DEF DropSession
<1>6. ASSUME NEW c \in Calls, Refuse(c) PROVE TypeOK'
  BY <1>6 DEF Refuse
<1>7. ASSUME NEW c \in Calls, TakeSupervisor(c) PROVE TypeOK'
  <2>1. supervisor' = FALSE /\ UNCHANGED <<config, attempt, restarts, cells>>
    BY <1>7 DEF TakeSupervisor
  <2>2. CASE Ended(c, "consumed") /\ UNCHANGED <<session, loop>>
    BY <2>1, <2>2, ZenonT(40)
  <2>3. ASSUME NEW v \in Starts \cap Lazy, Open(c, v, "lazy"), UNCHANGED <<session, loop>>
        PROVE  TypeOK'
    BY <2>1, <2>3, ZenonT(40)
  <2>4. ASSUME NEW v \in Starts \ Lazy, Drive(c, v) PROVE TypeOK'
    <3>1. \/ Ended(c, "forked") /\ UNCHANGED <<session, loop>>
          \/ Ended(c, "session") /\ session' = "open" /\ loop' = "launch"
          \/ Open(c, v, "busy") /\ session' = session /\ loop' = "launch"
      BY <2>4 DEF Drive
    <3>2. CASE Ended(c, "forked") /\ UNCHANGED <<session, loop>>
      BY <2>1, <3>2, ZenonT(40)
    <3>3. CASE Ended(c, "session") /\ session' = "open" /\ loop' = "launch"
      BY <2>1, <3>3
    <3>4. CASE Open(c, v, "busy") /\ session' = session /\ loop' = "launch"
      BY <2>1, <3>4
    <3> QED BY <3>1, <3>2, <3>3, <3>4
  <2> QED BY <1>7, <2>2, <2>3, <2>4 DEF TakeSupervisor
<1>8. ASSUME NEW c \in Calls, TakeSession(c) PROVE TypeOK'
  BY <1>8 DEF TakeSession
<1>9. ASSUME NEW c \in Calls, Await(c) PROVE TypeOK'
  BY <1>9 DEF Await, Drive
<1>10. ASSUME NEW c \in Calls, Deliver(c) PROVE TypeOK'
  BY <1>10 DEF Deliver
<1>11. ASSUME NEW c \in Calls, Collect(c) PROVE TypeOK'
  BY <1>11 DEF Collect
<1>12. ASSUME NEW c \in Calls, Interrupt(c) PROVE TypeOK'
  BY <1>12, ZenonT(40) DEF Interrupt
<1>13. ASSUME NEW c \in Calls, Drop(c) PROVE TypeOK'
  BY <1>13 DEF Drop
<1>14. CASE UNCHANGED vars
  BY <1>14 DEF vars
<1> QED
  BY <1>1, <1>2, <1>3, <1>4, <1>5, <1>6, <1>7, <1>8, <1>9, <1>10, <1>11, <1>12, <1>13, <1>14, <1>15
  DEF Next, Judge

\* Every variable keeps its type.
THEOREM TypeCorrect == Spec => []TypeOK
<1>1. Init => TypeOK
  <2> SUFFICES ASSUME Init PROVE TypeOK
    OBVIOUS
  <2>1. raised \subseteq {"when", "control", "health"} /\ restarts \in 0 .. MaxRestarts
    BY MaxRestartsAssumption DEF Init
  <2> QED BY <2>1 DEF Init, TypeOK, Active, Verbs
<1> QED BY <1>1, TypeStep, PTL DEF Spec

-----------------------------------------------------------------------------
(* The invariant.                                                          *)

\* A step of the loop, which may have raised into a cell.
LEMMA LoopStep ==
  ASSUME TypeOK, IInv,
         UNCHANGED <<config, supervisor, session, callVars>>,
         loop \in Active, loop' \in Active \union {"ended"},
         raised' # raised \/ completed \/ slot => completed' \/ slot'
  PROVE  IInv'
<1> USE DEF Active
<1>1. \A c \in Calls : (Pends(c)' <=> Pends(c)) /\ (Holds(c)' <=> Holds(c))
  BY DEF Pends, Holds
<1>2. Token'
  BY <1>1 DEF IInv, Token, Collectable
<1>3. Told'
  BY <1>1 DEF IInv, Told, Collectable
<1>4. Staged' /\ ForkRefused'
  BY DEF IInv, Staged, ForkRefused
<1> QED BY <1>2, <1>3, <1>4 DEF IInv

\* A call that ends holds nothing, and the others hold what they held.
LEMMA EndedHolds ==
  ASSUME TypeOK, NEW c \in Calls, NEW a, Ended(c, a)
  PROVE  \A d \in Calls :
           /\ Pends(d)' <=> d # c /\ Pends(d)
           /\ Holds(d)' <=> d # c /\ Holds(d)
           /\ call'[d] = IF d = c THEN "done" ELSE call[d]
           /\ verb'[d] = IF d = c THEN "none" ELSE verb[d]
           /\ answer'[d] = IF d = c THEN a ELSE answer[d]
<1>1. \A d \in Calls : /\ call'[d] = IF d = c THEN "done" ELSE call[d]
                       /\ verb'[d] = IF d = c THEN "none" ELSE verb[d]
                       /\ answer'[d] = IF d = c THEN a ELSE answer[d]
  BY DEF TypeOK, Ended
<1>2. \A d \in Calls : Pends(d)' <=> d # c /\ Pends(d)
  BY <1>1 DEF Pends
<1>3. \A d \in Calls : Holds(d)' <=> d # c /\ Holds(d)
  BY <1>1 DEF Holds
<1> QED BY <1>1, <1>2, <1>3

\* A call that goes on as v holds what v needs.
LEMMA OpenHolds ==
  ASSUME TypeOK, NEW c \in Calls, NEW v, NEW stage, Open(c, v, stage)
  PROVE  \A d \in Calls :
           /\ Pends(d)' <=> IF d = c THEN v \in Starts /\ stage = "lazy" ELSE Pends(d)
           /\ Holds(d)' <=> IF d = c THEN \/ v \in Starts /\ stage = "busy"
                                          \/ v \in Ends /\ stage \in {"lazy", "busy"}
                            ELSE Holds(d)
           /\ call'[d] = IF d = c THEN stage ELSE call[d]
           /\ verb'[d] = IF d = c THEN v ELSE verb[d]
           /\ answer'[d] = answer[d]
<1>1. \A d \in Calls : /\ call'[d] = IF d = c THEN stage ELSE call[d]
                       /\ verb'[d] = IF d = c THEN v ELSE verb[d]
                       /\ answer'[d] = answer[d]
  BY DEF TypeOK, Open
<1>2. \A d \in Calls :
        Pends(d)' <=> IF d = c THEN v \in Starts /\ stage = "lazy" ELSE Pends(d)
  BY <1>1 DEF Pends
<1>3. \A d \in Calls :
        Holds(d)' <=> IF d = c THEN \/ v \in Starts /\ stage = "busy"
                                    \/ v \in Ends /\ stage \in {"lazy", "busy"}
                      ELSE Holds(d)
  BY <1>1 DEF Holds
<1> QED BY <1>1, <1>2, <1>3

\* A call that was refused has taken nothing.
LEMMA RefuseStep ==
  ASSUME TypeOK, IInv, NEW c \in Calls, Refuse(c)
  PROVE  IInv'
<1>0. ~ Pends(c) /\ ~ Holds(c)
  BY DEF Refuse, Pends, Holds
<1>1. \A d \in Calls : /\ Pends(d)' <=> Pends(d)
                       /\ Holds(d)' <=> Holds(d)
                       /\ call'[d] = IF d = c THEN "done" ELSE call[d]
                       /\ verb'[d] = IF d = c THEN "none" ELSE verb[d]
                       /\ answer'[d] = IF d = c THEN "refused" ELSE answer[d]
  BY <1>0, EndedHolds DEF Refuse
<1>3. UNCHANGED <<config, supervisor, session, loopVars, cells>>
  BY DEF Refuse
<1>4. Token'
  BY <1>1, <1>3 DEF IInv, Token, Collectable
<1>5. Told'
  BY <1>1, <1>3 DEF IInv, Told, Collectable
<1>6. Staged'
  BY <1>1, <1>3 DEF IInv, Staged, Refuse
<1> QED BY <1>3, <1>4, <1>5, <1>6 DEF IInv, ForkRefused

\* The supervisor is taken: consumed already, held by an awaitable, or driven.
LEMMA TakeSupervisorStep ==
  ASSUME TypeOK, IInv, NEW c \in Calls, TakeSupervisor(c)
  PROVE  IInv'
<1>1. /\ supervisor' = FALSE /\ UNCHANGED <<config, attempt, restarts, cells>>
      /\ call[c] = "idle" /\ ~ Pends(c) /\ ~ Holds(c)
  BY DEF TakeSupervisor, Pends, Holds
<1>2. CASE Ended(c, "consumed") /\ UNCHANGED <<session, loop>> /\ ~ supervisor
  <2>1. \A d \in Calls : /\ Pends(d)' <=> Pends(d)
                         /\ Holds(d)' <=> Holds(d)
                         /\ call'[d] = IF d = c THEN "done" ELSE call[d]
                         /\ verb'[d] = IF d = c THEN "none" ELSE verb[d]
                         /\ answer'[d] = IF d = c THEN "consumed" ELSE answer[d]
    BY <1>1, <1>2, EndedHolds
  <2>2. Token'
    BY <1>1, <1>2, <2>1 DEF IInv, Token, Collectable
  <2>3. Told'
    BY <1>1, <1>2, <2>1 DEF IInv, Told, Collectable
  <2>4. Staged' /\ ForkRefused'
    BY <1>1, <1>2, <2>1 DEF IInv, Staged, ForkRefused
  <2> QED BY <2>2, <2>3, <2>4 DEF IInv
<1>3. ASSUME NEW v \in Starts \cap Lazy, Open(c, v, "lazy"), UNCHANGED <<session, loop>>,
             supervisor
      PROVE  IInv'
  <2>1. \A d \in Calls : /\ Pends(d)' <=> d = c \/ Pends(d)
                         /\ Holds(d)' <=> Holds(d)
                         /\ call'[d] = IF d = c THEN "lazy" ELSE call[d]
                         /\ verb'[d] = IF d = c THEN v ELSE verb[d]
                         /\ answer'[d] = answer[d]
    BY <1>1, <1>3, OpenHolds DEF Starts, Ends, Stopping, Exits
  <2>2. Token'
    BY <1>1, <1>3, <2>1 DEF IInv, Token, Collectable, Active
  <2>3. Told'
    BY <1>1, <1>3, <2>1 DEF IInv, Told, Collectable
  <2>4. Staged' /\ ForkRefused'
    BY <1>1, <1>3, <2>1 DEF IInv, Staged, ForkRefused, Starts
  <2> QED BY <2>2, <2>3, <2>4 DEF IInv
<1>4. ASSUME NEW v \in Starts \ Lazy, Drive(c, v), supervisor
      PROVE  IInv'
  <2>1. loop = "none" /\ raised = {} /\ ~ Collectable /\ \A d \in Calls : ~ Pends(d)
    BY <1>4 DEF IInv, Token, Told
  <2>2. CASE forked
    <3>1. /\ UNCHANGED <<session, loop>>
          /\ \A d \in Calls : /\ Pends(d)' <=> Pends(d)
                              /\ Holds(d)' <=> Holds(d)
                              /\ call'[d] = IF d = c THEN "done" ELSE call[d]
                              /\ verb'[d] = IF d = c THEN "none" ELSE verb[d]
                              /\ answer'[d] = IF d = c THEN "forked" ELSE answer[d]
      BY <1>1, <1>4, <2>2, EndedHolds DEF Drive
    <3>2. Token'
      BY <1>1, <2>1, <3>1 DEF IInv, Token, Collectable
    <3>3. Told'
      BY <1>1, <2>1, <3>1 DEF IInv, Told, Collectable
    <3>4. Staged' /\ ForkRefused'
      BY <1>1, <2>1, <3>1 DEF IInv, Staged, ForkRefused
    <3> QED BY <3>2, <3>3, <3>4 DEF IInv
  <2>3. CASE ~ forked /\ v = "start"
    <3>1. /\ loop' = "launch" /\ session' = "open"
          /\ \A d \in Calls : /\ Pends(d)' <=> Pends(d)
                              /\ Holds(d)' <=> Holds(d)
                              /\ call'[d] = IF d = c THEN "done" ELSE call[d]
                              /\ verb'[d] = IF d = c THEN "none" ELSE verb[d]
                              /\ answer'[d] = IF d = c THEN "session" ELSE answer[d]
      BY <1>1, <1>4, <2>3, EndedHolds DEF Drive
    <3>2. Token'
      BY <1>1, <2>1, <3>1 DEF IInv, Token, Collectable
    <3>3. Told'
      BY <1>1, <2>1, <3>1 DEF IInv, Told, Collectable
    <3>4. Staged' /\ ForkRefused'
      BY <1>1, <2>1, <2>3, <3>1 DEF IInv, Staged, ForkRefused
    <3> QED BY <3>2, <3>3, <3>4 DEF IInv
  <2>4. CASE ~ forked /\ v # "start"
    <3>1. /\ loop' = "launch" /\ session' = session
          /\ \A d \in Calls : /\ Pends(d)' <=> Pends(d)
                              /\ Holds(d)' <=> d = c \/ Holds(d)
                              /\ call'[d] = IF d = c THEN "busy" ELSE call[d]
                              /\ verb'[d] = IF d = c THEN v ELSE verb[d]
                              /\ answer'[d] = answer[d]
      BY <1>1, <1>4, <2>4, OpenHolds DEF Drive
    <3>2. Token'
      BY <1>1, <2>1, <3>1 DEF IInv, Token, Collectable
    <3>3. Told'
      BY <1>1, <2>1, <3>1 DEF IInv, Told, Collectable
    <3>4. Staged' /\ ForkRefused'
      BY <1>1, <2>1, <2>4, <3>1 DEF IInv, Staged, ForkRefused, Starts
    <3> QED BY <3>2, <3>3, <3>4 DEF IInv
  <2> QED BY <2>2, <2>3, <2>4
<1> QED BY <1>2, <1>3, <1>4 DEF TakeSupervisor

\* The session is taken, or it was gone.
LEMMA TakeSessionStep ==
  ASSUME TypeOK, IInv, NEW c \in Calls, TakeSession(c)
  PROVE  IInv'
<1>1. /\ session' = "taken" /\ UNCHANGED <<config, supervisor, loopVars, cells>>
      /\ call[c] = "idle" /\ ~ Pends(c) /\ ~ Holds(c)
      /\ session \in {"open", "taken"}
  BY DEF TakeSession, Pends, Holds, TypeOK
<1>2. CASE session = "taken"
  <2>0. PICK a : a \in {"noop", "consumed"} /\ Ended(c, a)
    BY <1>2 DEF TakeSession
  <2>1. \A d \in Calls : /\ Pends(d)' <=> Pends(d)
                         /\ Holds(d)' <=> Holds(d)
                         /\ call'[d] = IF d = c THEN "done" ELSE call[d]
                         /\ verb'[d] = IF d = c THEN "none" ELSE verb[d]
                         /\ answer'[d] = IF d = c THEN a ELSE answer[d]
    BY <1>1, <2>0, EndedHolds
  <2>2. Token'
    BY <1>1, <1>2, <2>1 DEF IInv, Token, Collectable
  <2>3. Told'
    BY <1>1, <1>2, <2>0, <2>1 DEF IInv, Told, Collectable
  <2>4. Staged' /\ ForkRefused'
    BY <1>1, <1>2, <2>0, <2>1 DEF IInv, Staged, ForkRefused
  <2> QED BY <2>2, <2>3, <2>4 DEF IInv
<1>3. CASE session = "open"
  <2>0. PICK v \in Ends, stage \in {"lazy", "busy"} : Open(c, v, stage)
    BY <1>3 DEF TakeSession
  <2>1. \A d \in Calls : /\ Pends(d)' <=> Pends(d)
                         /\ Holds(d)' <=> d = c \/ Holds(d)
                         /\ call'[d] = IF d = c THEN stage ELSE call[d]
                         /\ verb'[d] = IF d = c THEN v ELSE verb[d]
                         /\ answer'[d] = answer[d]
    BY <1>1, <2>0, OpenHolds DEF Starts, Ends, Stopping, Exits
  <2>2. Token'
    BY <1>1, <1>3, <2>1 DEF IInv, Token, Collectable
  <2>3. Told'
    BY <1>1, <1>3, <2>1 DEF IInv, Told, Collectable
  <2>4. Staged' /\ ForkRefused'
    BY <1>1, <2>0, <2>1
    DEF IInv, Staged, ForkRefused, Ends, Stopping, Exits
  <2> QED BY <2>2, <2>3, <2>4 DEF IInv
<1> QED BY <1>1, <1>2, <1>3

\* The awaitable is refused in a forked child, or drives what it holds.
LEMMA AwaitStep ==
  ASSUME TypeOK, IInv, NEW c \in Calls, Await(c)
  PROVE  IInv'
<1>1. call[c] = "lazy" /\ UNCHANGED <<config, supervisor, attempt, restarts, cells>>
  BY DEF Await
<1>2. CASE forked
  <2>1. /\ answer' = [answer EXCEPT ![c] = "forked"]
        /\ UNCHANGED <<verb, call, session, loop>>
    BY <1>2 DEF Await
  <2>2. \A d \in Calls : /\ Pends(d)' <=> Pends(d)
                         /\ Holds(d)' <=> Holds(d)
                         /\ answer'[d] = IF d = c THEN "forked" ELSE answer[d]
    BY <2>1 DEF TypeOK, Pends, Holds
  <2>3. Token'
    BY <1>1, <2>1, <2>2 DEF IInv, Token, Collectable
  <2>4. Told'
    BY <1>1, <2>1, <2>2 DEF IInv, Told, Collectable
  <2>5. Staged' /\ ForkRefused'
    BY <1>1, <2>1, <2>2 DEF IInv, Staged, ForkRefused
  <2> QED BY <2>3, <2>4, <2>5 DEF IInv
<1>3. CASE ~ forked /\ verb[c] \in Starts
  <2>1. Pends(c) /\ loop = "none" /\ raised = {} /\ ~ Collectable /\ ~ supervisor
    BY <1>1, <1>3 DEF IInv, Token, Told, Pends
  <2>2. CASE verb[c] = "start"
    <3>1. /\ loop' = "launch" /\ session' = "open"
          /\ \A d \in Calls : /\ Pends(d)' <=> d # c /\ Pends(d)
                              /\ Holds(d)' <=> d # c /\ Holds(d)
                              /\ call'[d] = IF d = c THEN "done" ELSE call[d]
                              /\ verb'[d] = IF d = c THEN "none" ELSE verb[d]
                              /\ answer'[d] = IF d = c THEN "session" ELSE answer[d]
      BY <1>3, <2>2, EndedHolds DEF Await, Drive
    <3>2. Token'
      BY <1>1, <2>1, <3>1 DEF IInv, Token, Collectable
    <3>3. Told'
      BY <1>1, <2>1, <3>1 DEF IInv, Told, Collectable
    <3>4. Staged' /\ ForkRefused'
      BY <1>1, <1>3, <2>1, <3>1 DEF IInv, Staged, ForkRefused
    <3> QED BY <3>2, <3>3, <3>4 DEF IInv
  <2>3. CASE verb[c] # "start"
    <3>1. /\ loop' = "launch" /\ session' = session
          /\ \A d \in Calls : /\ Pends(d)' <=> d # c /\ Pends(d)
                              /\ Holds(d)' <=> d = c \/ Holds(d)
                              /\ call'[d] = IF d = c THEN "busy" ELSE call[d]
                              /\ verb'[d] = verb[d]
                              /\ answer'[d] = answer[d]
      BY <1>3, <2>3, OpenHolds DEF Await, Drive
    <3>2. Token'
      BY <1>1, <2>1, <3>1 DEF IInv, Token, Collectable
    <3>3. Told'
      BY <1>1, <2>1, <3>1 DEF IInv, Told, Collectable
    <3>4. Staged' /\ ForkRefused'
      BY <1>1, <1>3, <2>1, <3>1 DEF IInv, Staged, ForkRefused
    <3> QED BY <3>2, <3>3, <3>4 DEF IInv
  <2> QED BY <2>2, <2>3
<1>4. CASE ~ forked /\ verb[c] \notin Starts
  <2>0. /\ Open(c, verb[c], "busy") /\ UNCHANGED <<session, loop>>
    BY <1>4 DEF Await
  <2>2. \A d \in Calls : /\ Pends(d)' <=> Pends(d)
                         /\ Holds(d)' <=> Holds(d)
                         /\ call'[d] = IF d = c THEN "busy" ELSE call[d]
                         /\ verb'[d] = verb[d]
                         /\ answer'[d] = answer[d]
    BY <1>1, <1>4, <2>0, OpenHolds DEF Pends, Holds
  <2>3. Token'
    BY <1>1, <2>0, <2>2 DEF IInv, Token, Collectable
  <2>4. Told'
    BY <1>1, <2>0, <2>2 DEF IInv, Told, Collectable
  <2>5. Staged' /\ ForkRefused'
    BY <1>1, <2>0, <2>2 DEF IInv, Staged, ForkRefused
  <2> QED BY <2>3, <2>4, <2>5 DEF IInv
<1> QED BY <1>2, <1>3, <1>4

\* astart's call ends and the session holds the loop in its place.
LEMMA DeliverStep ==
  ASSUME TypeOK, IInv, NEW c \in Calls, Deliver(c)
  PROVE  IInv'
<1>1. /\ Holds(c) /\ session' = "open"
      /\ UNCHANGED <<config, supervisor, loopVars, cells>>
  BY DEF Deliver, Holds, Starts
<1>2. \A d \in Calls : /\ Pends(d)' <=> d # c /\ Pends(d)
                       /\ Holds(d)' <=> d # c /\ Holds(d)
                       /\ call'[d] = IF d = c THEN "done" ELSE call[d]
                       /\ verb'[d] = IF d = c THEN "none" ELSE verb[d]
                       /\ answer'[d] = IF d = c THEN "session" ELSE answer[d]
  BY EndedHolds DEF Deliver
<1>3. Token'
  BY <1>1, <1>2 DEF IInv, Token, Collectable
<1>4. Told'
  BY <1>1, <1>2 DEF IInv, Told, Collectable
<1>5. Staged' /\ ForkRefused'
  BY <1>1, <1>2 DEF IInv, Staged, ForkRefused
<1> QED BY <1>3, <1>4, <1>5 DEF IInv

\* A call that is through lets go of the loop, which has ended or is dropped.
\* What it answers has looked into the cells.
LEMMA HolderEnds ==
  ASSUME TypeOK, IInv, NEW c \in Calls, NEW a, Ended(c, a), a # "refused",
         Holds(c) \/ Pends(c),
         UNCHANGED <<config, supervisor, session, raised>>,
         loop' = IF loop \in Active THEN "aborted" ELSE loop,
         a \in {"outcome", "error"} => loop = "ended" /\ Holds(c) /\ ~ completed /\ ~ slot
  PROVE  IInv'
<1>1. \A d \in Calls : /\ Pends(d)' <=> d # c /\ Pends(d)
                       /\ Holds(d)' <=> d # c /\ Holds(d)
                       /\ call'[d] = IF d = c THEN "done" ELSE call[d]
                       /\ verb'[d] = IF d = c THEN "none" ELSE verb[d]
                       /\ answer'[d] = IF d = c THEN a ELSE answer[d]
  BY EndedHolds
<1>2. ~ Collectable'
  <2>1. CASE Holds(c)
    BY <1>1, <2>1 DEF IInv, Token, Collectable
  <2>2. CASE Pends(c)
    BY <1>1, <2>2 DEF IInv, Token, Collectable
  <2> QED BY <2>1, <2>2
<1>3. Token'
  BY <1>1, <1>2 DEF IInv, Token, Collectable, Active
<1>4. Told'
  <2>1. loop' = "none" => raised' = {}
    BY DEF IInv, Told, Active
  <2>2. ASSUME NEW d \in Calls, answer'[d] \in {"outcome", "error"}
        PROVE  loop' = "ended" /\ raised' = {}
    <3>1. CASE d = c
      BY <1>1, <2>2, <3>1 DEF IInv, Told, Collectable, Active
    <3>2. CASE d # c
      BY <1>1, <2>2, <3>2 DEF IInv, Told, Active
    <3> QED BY <3>1, <3>2
  <2> QED BY <1>2, <2>1, <2>2 DEF Told
<1>5. Staged' /\ ForkRefused'
  BY <1>1 DEF IInv, Staged, ForkRefused, Active
<1> QED BY <1>3, <1>4, <1>5 DEF IInv

\* A call collects the result.
LEMMA CollectStep ==
  ASSUME TypeOK, IInv, NEW c \in Calls, Collect(c)
  PROVE  IInv'
<1>1. /\ call[c] = "busy" /\ verb[c] # "astart" /\ loop = "ended"
      /\ UNCHANGED <<config, supervisor, session, loopVars, raised>>
  BY DEF Collect, EmptyCells
<1>2. PICK a : /\ Ended(c, a) /\ a \in {"outcome", "error", "raised"}
               /\ completed \/ slot => a = "raised"
  BY DEF Collect, Collected
<1>3. Holds(c)
  BY <1>1 DEF Holds, IInv, Staged, TypeOK, Verbs
<1> QED BY <1>1, <1>2, <1>3, HolderEnds DEF Active

\* A blocked call is interrupted, or the task that awaits is cancelled.
LEMMA InterruptStep ==
  ASSUME TypeOK, IInv, NEW c \in Calls, Interrupt(c)
  PROVE  IInv'
<1>1. /\ call[c] = "busy" /\ loop' = IF loop \in Active THEN "aborted" ELSE loop
      /\ UNCHANGED <<config, supervisor, session, raised>>
  BY DEF Interrupt, Abort, EmptyCells
<1>2. PICK a : Ended(c, a) /\ a \in {"cancelled", "raised"}
  BY DEF Interrupt, Collected
<1>3. Holds(c)
  BY <1>1 DEF Holds, IInv, Staged, TypeOK, Verbs
<1> QED BY <1>1, <1>2, <1>3, HolderEnds

\* An awaitable is dropped.
LEMMA DropStep ==
  ASSUME TypeOK, IInv, NEW c \in Calls, Drop(c)
  PROVE  IInv'
<1>1. Holds(c) \/ Pends(c)
  BY DEF Drop, Holds, Pends, IInv, Staged, TypeOK, Verbs
<1> QED BY <1>1, HolderEnds DEF Drop, Abort

\* The open session is collected.
LEMMA DropSessionStep ==
  ASSUME TypeOK, IInv, DropSession
  PROVE  IInv'
<1>1. /\ session = "open" /\ session' = "taken" /\ loop # "none"
      /\ loop' = IF loop \in Active THEN "aborted" ELSE loop
      /\ UNCHANGED <<config, supervisor, callVars, cells>>
  BY DEF DropSession, Abort, IInv, Token, Collectable
<1>2. \A d \in Calls : /\ Pends(d)' <=> Pends(d)
                       /\ Holds(d)' <=> Holds(d)
  BY <1>1 DEF Pends, Holds
<1>3. Token'
  BY <1>1, <1>2 DEF IInv, Token, Collectable, Active
<1>4. Told'
  BY <1>1, <1>2 DEF IInv, Told, Collectable, Active
<1>5. Staged' /\ ForkRefused'
  BY <1>1 DEF IInv, Staged, ForkRefused, Active
<1> QED BY <1>3, <1>4, <1>5 DEF IInv

\* Every step keeps the invariant.
LEMMA InvStep ==
  ASSUME TypeOK, IInv, [Next]_vars
  PROVE  IInv'
<1>1. CASE Launch \/ LaunchFails
  <2>1. /\ UNCHANGED <<config, supervisor, session, callVars>>
        /\ loop \in Active /\ loop' \in Active /\ RunnerVerb
    BY <1>1 DEF Launch, LaunchFails, Active
  <2>2. raised' # raised \/ completed \/ slot => completed' \/ slot'
    <3>1. PICK raises \in BOOLEAN :
            /\ completed' = (completed \/ raises)
            /\ raised' = IF raises THEN raised \union {"when"} ELSE raised
            /\ UNCHANGED slot
      BY <2>1, Zenon DEF RunnerVerb
    <3>2. completed \/ raises => completed'
      BY <3>1, Zenon
    <3>3. ~ raises => raised' = raised
      BY <3>1
    <3> QED BY <3>1, <3>2, <3>3
  <2> QED BY <2>1, <2>2, LoopStep
<1>2. CASE Exit \/ ProbeFails
  <2>1. /\ UNCHANGED <<config, supervisor, session, callVars>>
        /\ loop \in Active /\ loop' \in Active
        /\ raised' # raised \/ completed \/ slot => completed' \/ slot'
    BY <1>2 DEF Exit, ProbeFails, RaiseInto, Active
  <2> QED BY <2>1, LoopStep
<1>3. CASE Judge \/ StopLoop
  <2>1. /\ UNCHANGED <<config, supervisor, session, callVars>>
        /\ loop \in Active /\ loop' \in Active \union {"ended"}
        /\ raised' # raised \/ completed \/ slot => completed' \/ slot'
    BY <1>3 DEF Judge, StopByRunner, StopByPredicate, StopByPolicy, GiveUp, StopByLimit,
                Restart, Passed, StopLoop, Halt, RaiseInto, Active
  <2> QED BY <2>1, LoopStep
<1>4. CASE DropSession
  BY <1>4, DropSessionStep
<1>5. ASSUME NEW c \in Calls,
             \/ Refuse(c) \/ TakeSupervisor(c) \/ TakeSession(c) \/ Await(c)
             \/ Deliver(c) \/ Collect(c) \/ Interrupt(c) \/ Drop(c)
      PROVE  IInv'
  BY <1>5, RefuseStep, TakeSupervisorStep, TakeSessionStep, AwaitStep, DeliverStep,
     CollectStep, InterruptStep, DropStep
<1>6. CASE UNCHANGED vars
  <2>1. UNCHANGED <<config, supervisor, session, callVars, loopVars, cells>>
    BY <1>6 DEF vars
  <2>2. \A d \in Calls : (Pends(d)' <=> Pends(d)) /\ (Holds(d)' <=> Holds(d))
    BY <2>1 DEF Pends, Holds
  <2>3. Token' /\ Told'
    BY <2>1, <2>2 DEF IInv, Token, Told, Collectable
  <2>4. Staged' /\ ForkRefused'
    BY <2>1 DEF IInv, Staged, ForkRefused
  <2> QED BY <2>3, <2>4 DEF IInv
<1> QED BY <1>1, <1>2, <1>3, <1>4, <1>5, <1>6 DEF Next

\* What drives the loop is in one place, in every reachable state.
THEOREM Inductive == Spec => []IInv
<1>1. Init => IInv
  <2> SUFFICES ASSUME Init PROVE IInv
    OBVIOUS
  <2>1. /\ loop = "none" /\ raised = {} /\ supervisor = TRUE /\ session = "none"
        /\ \A c \in Calls : verb[c] = "none" /\ call[c] = "idle" /\ answer[c] = "none"
    BY DEF Init
  <2>2. \A c \in Calls : ~ Pends(c) /\ ~ Holds(c)
    BY <2>1 DEF Pends, Holds
  <2>3. Token
    BY <2>1, <2>2 DEF Token, Collectable, Active
  <2>4. Told /\ Staged /\ ForkRefused
    BY <2>1, <2>2 DEF Told, Staged, ForkRefused, Collectable
  <2> QED BY <2>3, <2>4 DEF IInv
<1>2. TypeOK /\ IInv /\ [Next]_vars => IInv'
  BY InvStep
<1> QED BY <1>1, <1>2, TypeCorrect, PTL DEF Spec

-----------------------------------------------------------------------------
(* What follows from it.                                                   *)

\* Nobody is given an outcome or an error of the crate when a Python callback
\* of the supervision has raised.
THEOREM FailLoudHolds == Spec => []FailLoud
<1>1. IInv => FailLoud
  BY DEF IInv, Told, FailLoud
<1> QED BY <1>1, Inductive, PTL

\* A loop that goes on is held by the open session or by exactly one call.
THEOREM LoopIsOwnedHolds == Spec => []LoopIsOwned
<1>1. ASSUME IInv PROVE LoopIsOwned
  <2> SUFFICES ASSUME loop \in Active
               PROVE  IF session = "open" THEN LoopHolders = {} ELSE Cardinality(LoopHolders) = 1
    BY DEF LoopIsOwned
  <2>1. CASE session = "open"
    BY <1>1, <2>1 DEF IInv, Token, LoopHolders
  <2>2. CASE session # "open"
    <3>1. PICK c \in Calls : Holds(c)
      BY <1>1, <2>2 DEF IInv, Token, Collectable
    <3>2. LoopHolders = {c}
      BY <1>1, <3>1 DEF IInv, Token, LoopHolders
    <3> QED BY <2>2, <3>2, FS_Singleton
  <2> QED BY <2>1, <2>2
<1> QED BY <1>1, Inductive, PTL

\* In a forked child the loop never starts.
THEOREM ForkRefusedHolds == Spec => []ForkRefused
<1>1. IInv => ForkRefused
  BY DEF IInv
<1> QED BY <1>1, Inductive, PTL

-----------------------------------------------------------------------------
(* One supervision, one report.  Whoever has been told how the run came out *)
(* was the last that could be: nothing is left to collect it with.         *)

Reported(c) == answer[c] \in {"outcome", "error", "raised"}

Reports ==
  /\ completed \/ slot => raised # {}
  /\ loop = "aborted" => ~ Collectable
  /\ \A c \in Calls : Reported(c) =>
       call[c] = "done" /\ loop \in {"ended", "aborted"} /\ ~ Collectable

\* A step that tells nobody: who had been told stays told, and nothing to
\* collect the run with has come about.
LEMMA QuietReports ==
  ASSUME TypeOK, Reports,
         completed' \/ slot' => raised' # {},
         loop' = "aborted" => ~ Collectable',
         \A d \in Calls : Reported(d)' => Reported(d) /\ call'[d] = call[d],
         (\E d \in Calls : Reported(d)) => loop' \in {"ended", "aborted"},
         (\E d \in Calls : Reported(d)) /\ Collectable' => Collectable
  PROVE  Reports'
  BY DEF Reports

\* Nobody has been told while there is something left to be told.
LEMMA Untold ==
  ASSUME Reports, Collectable \/ loop \in Active \union {"none"}
  PROVE  \A d \in Calls : ~ Reported(d)
  BY DEF Reports, Active

\* A call that ends without a report.
LEMMA QuietEnd ==
  ASSUME TypeOK, IInv, Reports, NEW c \in Calls, NEW a, Ended(c, a),
         a \notin {"outcome", "error", "raised"},
         call[c] # "done", UNCHANGED <<session, cells, loop>>
  PROVE  Reports' /\ AbstractTold' = AbstractTold
<1>1. \A d \in Calls : /\ Holds(d)' <=> d # c /\ Holds(d)
                       /\ call'[d] = IF d = c THEN "done" ELSE call[d]
                       /\ answer'[d] = IF d = c THEN a ELSE answer[d]
  BY EndedHolds
<1>2. ~ Reported(c)
  BY DEF Reports
<1>3. \A d \in Calls : Reported(d)' => Reported(d) /\ call'[d] = call[d]
  BY <1>1, <1>2 DEF Reported
<1>4. Collectable' => Collectable
  BY <1>1 DEF Collectable
<1>5. (\E d \in Calls : Reported(d)) => loop' \in {"ended", "aborted"}
  BY DEF Reports
<1>6. /\ completed' \/ slot' => raised' # {}
      /\ loop' = "aborted" => ~ Collectable'
  BY <1>4 DEF Reports
<1>7. Reports'
  BY <1>3, <1>4, <1>5, <1>6, QuietReports
<1>8. AbstractTold' = AbstractTold
  BY <1>1, <1>2 DEF AbstractTold, Reported
<1> QED BY <1>7, <1>8

\* A call that goes on tells nobody anything.
LEMMA QuietOpen ==
  ASSUME TypeOK, Reports, NEW c \in Calls, NEW v, NEW stage, Open(c, v, stage),
         call[c] # "done", UNCHANGED <<cells, loop>>,
         \/ Collectable
         \/ UNCHANGED session /\ v \in Starts /\ stage = "lazy"
  PROVE  Reports' /\ AbstractTold' = AbstractTold
<1>1. \A d \in Calls : /\ Holds(d)' <=> IF d = c THEN \/ v \in Starts /\ stage = "busy"
                                                      \/ v \in Ends /\ stage \in {"lazy", "busy"}
                                        ELSE Holds(d)
                       /\ call'[d] = IF d = c THEN stage ELSE call[d]
                       /\ answer'[d] = answer[d]
  BY OpenHolds
<1>2. ~ Reported(c)
  BY DEF Reports
<1>3. \A d \in Calls : Reported(d)' => Reported(d) /\ call'[d] = call[d]
  BY <1>1, <1>2 DEF Reported
<1>4. completed' \/ slot' => raised' # {}
  BY DEF Reports
<1>5. Reports'
  <2>1. CASE Collectable
    <3>1. loop' # "aborted" /\ \A d \in Calls : ~ Reported(d)
      BY <2>1, Untold DEF Reports
    <3> QED BY <1>3, <1>4, <3>1, QuietReports
  <2>2. CASE UNCHANGED session /\ v \in Starts /\ stage = "lazy"
    <3>1. Collectable' => Collectable
      BY <1>1, <2>2 DEF Collectable, Starts, Ends, Stopping, Exits
    <3>2. /\ (\E d \in Calls : Reported(d)) => loop' \in {"ended", "aborted"}
          /\ loop' = "aborted" => ~ Collectable'
      BY <2>2, <3>1 DEF Reports
    <3> QED BY <1>3, <1>4, <3>1, <3>2, QuietReports
  <2> QED BY <2>1, <2>2
<1>6. AbstractTold' = AbstractTold
  BY <1>1 DEF AbstractTold
<1> QED BY <1>5, <1>6

\* The supervisor is driven from where nobody has been told anything: the
\* abstract run begins, or is refused in a forked child.
LEMMA DriveImplements ==
  ASSUME TypeOK, IInv, Reports, NEW c \in Calls, NEW v, Drive(c, v),
         loop = "none", call[c] # "done", UNCHANGED cells
  PROVE  Reports' /\ (Abstract!Begin \/ UNCHANGED Abstract!vars)
<1>1. CASE forked
  <2>1. Ended(c, "forked") /\ UNCHANGED <<session, loop>>
    BY <1>1 DEF Drive
  <2>2. Reports' /\ AbstractTold' = AbstractTold
    BY <2>1, QuietEnd
  <2> QED BY <2>1, <2>2 DEF Abstract!vars, AbstractRun
<1>2. CASE ~ forked
  <2>1. \/ Ended(c, "session")
        \/ Open(c, v, "busy")
    BY <1>2 DEF Drive
  <2>2. loop' = "launch"
    BY <1>2 DEF Drive
  <2>3. \A d \in Calls : ~ Reported(d) /\ ~ Reported(d)'
    <3>1. \A d \in Calls : ~ Reported(d)
      BY Untold
    <3>2. \A d \in Calls : answer'[d] = answer[d] \/ answer'[d] = "session"
      BY <2>1, EndedHolds, OpenHolds
    <3> QED BY <3>1, <3>2 DEF Reported
  <2>4. Reports'
    BY <2>2, <2>3, QuietReports DEF Reports
  <2>5. AbstractTold' = AbstractTold
    BY <2>3 DEF AbstractTold, Reported
  <2>6. AbstractRun = "idle" /\ AbstractRun' = "going"
    BY <2>2 DEF AbstractRun, Active
  <2> QED BY <2>4, <2>5, <2>6 DEF Abstract!Begin
<1> QED BY <1>1, <1>2

\* A step of the loop is the abstract run going on, ending, or breaking.
LEMMA LoopImplements ==
  ASSUME TypeOK, IInv, Reports,
         UNCHANGED <<session, callVars>>,
         loop \in Active, loop' \in Active \union {"ended"},
         completed' \/ slot' => completed \/ slot \/ raised' # {},
         raised \subseteq raised'
  PROVE  Reports' /\ Abstract!Work
<1>1. \A d \in Calls : ~ Reported(d) /\ ~ Reported(d)'
  BY Untold DEF Reported
<1>2. completed' \/ slot' => raised' # {}
  BY DEF Reports
<1>3. Reports'
  BY <1>1, <1>2, QuietReports DEF Active
<1>4. AbstractTold' = AbstractTold
  BY DEF AbstractTold
<1>5. AbstractRun = "going" /\ AbstractRun' \in {"going", "ended"}
  BY DEF AbstractRun, Active
<1>6. (raised' # {}) \in {raised # {}, TRUE}
  OBVIOUS
<1> QED BY <1>3, <1>4, <1>5, <1>6 DEF Abstract!Work

\* A call that held the loop is told, or leaves with nothing.
LEMMA HolderImplements ==
  ASSUME TypeOK, IInv, Reports, NEW c \in Calls, NEW a, Ended(c, a), Holds(c),
         UNCHANGED <<session, raised>>,
         loop' = IF loop \in Active THEN "aborted" ELSE loop,
         completed' \/ slot' => completed \/ slot,
         \/ a \in {"outcome", "error"} /\ loop = "ended" /\ ~ completed /\ ~ slot
         \/ a = "raised" /\ (completed \/ slot)
         \/ a \in {"cancelled", "dropped"}
  PROVE  Reports' /\ (Abstract!Next \/ UNCHANGED Abstract!vars)
<1>1. \A d \in Calls : /\ Holds(d)' <=> d # c /\ Holds(d)
                       /\ call'[d] = IF d = c THEN "done" ELSE call[d]
                       /\ answer'[d] = IF d = c THEN a ELSE answer[d]
  BY EndedHolds
<1>2. Collectable /\ \A d \in Calls : ~ Reported(d)
  BY Untold DEF Collectable
<1>3. loop # "none" /\ ~ Collectable'
  BY <1>1, <1>2 DEF IInv, Token, Collectable
<1>4. completed' \/ slot' => raised' # {}
  BY DEF Reports
<1>5. loop' \in {"ended", "aborted"}
  BY <1>3 DEF TypeOK, Active
<1>6. \A d \in Calls : Reported(d)' => d = c
  BY <1>1, <1>2 DEF Reported
<1>7. Reports'
  BY <1>1, <1>3, <1>4, <1>5, <1>6 DEF Reports
<1>8. /\ AbstractRun \in {"going", "ended", "abandoned"}
      /\ AbstractRun' = IF AbstractRun = "going" THEN "abandoned" ELSE AbstractRun
      /\ loop = "ended" => AbstractRun = "ended"
      /\ loop = "aborted" => AbstractRun = "abandoned"
  BY <1>3 DEF AbstractRun, Active, TypeOK
<1>9. \A d \in Calls : AbstractTold[d] = "nothing"
  BY <1>2 DEF AbstractTold, Reported
<1>10. AbstractTold \in [Calls -> {"nothing"}] /\ AbstractTold' \in [Calls -> {"nothing", a}]
  BY <1>1, <1>2 DEF AbstractTold, Reported
<1>11. CASE a \in {"cancelled", "dropped"}
  <2>1. AbstractTold' = AbstractTold
    BY <1>1, <1>2, <1>11 DEF AbstractTold, Reported
  <2>2. CASE AbstractRun = "going"
    BY <1>7, <1>8, <2>1, <2>2 DEF Abstract!Next, Abstract!Abandon
  <2>3. CASE AbstractRun # "going"
    BY <1>7, <1>8, <2>1, <2>3 DEF Abstract!vars
  <2> QED BY <1>7, <2>2, <2>3
<1>12. CASE a \notin {"cancelled", "dropped"}
  <2>1. AbstractTold' = [AbstractTold EXCEPT ![c] = a]
    BY <1>1, <1>2, <1>12 DEF AbstractTold, Reported
  <2>2. CASE a \in {"outcome", "error"}
    <3>1. loop = "ended" /\ raised = {} /\ AbstractRun = "ended" /\ AbstractRun' = "ended"
      BY <1>2, <1>8, <2>2 DEF IInv, Told
    <3>2. Abstract!Tell(c)
      BY <1>9, <2>1, <2>2, <3>1 DEF Abstract!Tell, Abstract!Untold
    <3> QED BY <1>7, <3>2 DEF Abstract!Next
  <2>3. CASE a = "raised"
    <3>1. raised # {} /\ AbstractRun \in {"going", "ended"}
      BY <1>2, <1>3, <1>8, <2>3 DEF Reports, TypeOK, AbstractRun, Active
    <3>2. Abstract!TellOnLeaving(c)
      BY <1>8, <1>9, <2>1, <2>3, <3>1 DEF Abstract!TellOnLeaving, Abstract!Untold
    <3> QED BY <1>7, <3>2 DEF Abstract!Next
  <2> QED BY <1>12, <2>2, <2>3
<1> QED BY <1>11, <1>12

\* Every step of the supervision is a step of the abstract run, or none.
LEMMA StepImplements ==
  ASSUME TypeOK, IInv, Reports, [Next]_vars
  PROVE  Reports' /\ (Abstract!Next \/ UNCHANGED Abstract!vars)
<1> DEFINE Goal == Reports' /\ (Abstract!Next \/ UNCHANGED Abstract!vars)
<1>1. CASE Launch \/ LaunchFails
  <2>1. /\ UNCHANGED <<session, callVars>> /\ loop \in Active /\ loop' \in Active
        /\ RunnerVerb
    BY <1>1 DEF Launch, LaunchFails, Active
  <2>2. PICK raises \in BOOLEAN :
          /\ completed' = (completed \/ raises)
          /\ raised' = IF raises THEN raised \union {"when"} ELSE raised
          /\ UNCHANGED slot
    BY <2>1, Zenon DEF RunnerVerb
  <2>3. completed' \/ slot' => completed \/ slot \/ raises
    BY <2>2, Zenon
  <2>4. raised \subseteq raised' /\ (raises => raised' # {})
    BY <2>2
  <2>5. completed' \/ slot' => completed \/ slot \/ raised' # {}
    BY <2>3, <2>4
  <2> QED BY <2>1, <2>4, <2>5, LoopImplements DEF Abstract!Next
<1>2. CASE Exit \/ ProbeFails
  <2>1. /\ UNCHANGED <<session, callVars>> /\ loop \in Active /\ loop' \in Active
        /\ RaiseInto("health") \/ UNCHANGED cells
    BY <1>2 DEF Exit, ProbeFails, Active
  <2>2. /\ completed' \/ slot' => completed \/ slot \/ raised' # {}
        /\ raised \subseteq raised'
    BY <2>1 DEF RaiseInto
  <2> QED BY <2>1, <2>2, LoopImplements DEF Abstract!Next
<1>3. CASE Judge \/ StopLoop
  <2>1. /\ UNCHANGED <<session, callVars>>
        /\ loop \in Active /\ loop' \in Active \union {"ended"}
        /\ RaiseInto("control") \/ UNCHANGED cells
    BY <1>3 DEF Judge, StopByRunner, StopByPredicate, StopByPolicy, GiveUp, StopByLimit,
                Restart, Passed, StopLoop, Halt, Active
  <2>2. /\ completed' \/ slot' => completed \/ slot \/ raised' # {}
        /\ raised \subseteq raised'
    BY <2>1 DEF RaiseInto
  <2> QED BY <2>1, <2>2, LoopImplements DEF Abstract!Next
<1>4. CASE DropSession
  <2>1. /\ session = "open" /\ session' = "taken"
        /\ loop' = IF loop \in Active THEN "aborted" ELSE loop
        /\ UNCHANGED <<callVars, cells>>
    BY <1>4 DEF DropSession, Abort
  <2>2. \A d \in Calls : ~ Holds(d)' /\ ~ Reported(d) /\ ~ Reported(d)'
    <3>1. \A d \in Calls : ~ Holds(d) /\ ~ Reported(d)
      BY <2>1, Untold DEF IInv, Token, Collectable
    <3> QED BY <2>1, <3>1 DEF Holds, Reported
  <2>3. Reports'
    BY <2>1, <2>2, QuietReports DEF Reports, Collectable
  <2>4. AbstractTold' = AbstractTold
    BY <2>1 DEF AbstractTold
  <2>5. CASE loop \in Active
    <3>1. AbstractRun = "going" /\ AbstractRun' = "abandoned"
      BY <2>1, <2>5 DEF AbstractRun, Active
    <3> QED BY <2>1, <2>3, <2>4, <3>1 DEF Abstract!Next, Abstract!Abandon
  <2>6. CASE loop \notin Active
    BY <2>1, <2>3, <2>4, <2>6 DEF AbstractRun, Abstract!vars
  <2> QED BY <2>5, <2>6
<1>5. ASSUME NEW c \in Calls, Refuse(c) PROVE Goal
  <2>1. Ended(c, "refused") /\ call[c] # "done" /\ UNCHANGED <<session, loopVars, cells>>
    BY <1>5 DEF Refuse
  <2> QED BY <2>1, QuietEnd DEF Abstract!vars, AbstractRun
<1>6. ASSUME NEW c \in Calls, TakeSupervisor(c) PROVE Goal
  <2>1. call[c] # "done" /\ UNCHANGED cells
    BY <1>6 DEF TakeSupervisor
  <2>2. CASE Ended(c, "consumed") /\ UNCHANGED <<session, loop>>
    BY <2>1, <2>2, QuietEnd DEF Abstract!vars, AbstractRun
  <2>3. ASSUME NEW v \in Starts \cap Lazy, Open(c, v, "lazy"), UNCHANGED <<session, loop>>
        PROVE  Goal
    BY <2>1, <2>3, QuietOpen DEF Abstract!vars, AbstractRun
  <2>4. ASSUME supervisor, NEW v \in Starts \ Lazy, Drive(c, v) PROVE Goal
    <3>1. loop = "none"
      BY <2>4 DEF IInv, Token
    <3> QED BY <2>1, <2>4, <3>1, DriveImplements DEF Abstract!Next
  <2> QED BY <1>6, <2>2, <2>3, <2>4 DEF TakeSupervisor
<1>7. ASSUME NEW c \in Calls, TakeSession(c) PROVE Goal
  <2>1. call[c] # "done" /\ session' = "taken" /\ UNCHANGED <<loopVars, cells>>
    BY <1>7 DEF TakeSession
  <2>2. CASE session = "taken"
    <3>1. Ended(c, "noop") \/ Ended(c, "consumed")
      BY <1>7, <2>2 DEF TakeSession
    <3> QED BY <2>1, <2>2, <3>1, QuietEnd DEF Abstract!vars, AbstractRun
  <2>3. CASE session # "taken"
    <3>1. PICK v \in Ends, stage \in {"lazy", "busy"} : Open(c, v, stage)
      BY <1>7, <2>3 DEF TakeSession
    <3>2. Collectable
      BY <1>7, <2>3 DEF TakeSession, Collectable, TypeOK
    <3> QED BY <2>1, <3>1, <3>2, QuietOpen DEF Abstract!vars, AbstractRun
  <2> QED BY <2>2, <2>3
<1>8. ASSUME NEW c \in Calls, Await(c) PROVE Goal
  <2>1. call[c] = "lazy" /\ UNCHANGED cells
    BY <1>8 DEF Await
  <2>2. CASE forked
    <3>1. /\ answer' = [answer EXCEPT ![c] = "forked"]
          /\ UNCHANGED <<verb, call, session, loop>>
      BY <1>8, <2>2 DEF Await
    <3>2. ~ Reported(c)
      BY <2>1 DEF Reports
    <3>3. \A d \in Calls : /\ Reported(d)' <=> Reported(d)
                           /\ Holds(d)' <=> Holds(d)
                           /\ d # c => answer'[d] = answer[d]
      BY <3>1, <3>2 DEF TypeOK, Reported, Holds
    <3>4. Reports'
      BY <2>1, <3>1, <3>3 DEF Reports, Collectable
    <3>5. AbstractTold' = AbstractTold
      BY <3>2, <3>3 DEF AbstractTold, Reported
    <3> QED BY <2>1, <3>1, <3>4, <3>5 DEF Abstract!vars, AbstractRun
  <2>3. CASE ~ forked /\ verb[c] \in Starts
    <3>1. Drive(c, verb[c]) /\ loop = "none"
      BY <1>8, <2>1, <2>3 DEF Await, IInv, Token, Pends
    <3> QED BY <2>1, <3>1, DriveImplements DEF Abstract!Next
  <2>4. CASE ~ forked /\ verb[c] \notin Starts
    <3>1. Open(c, verb[c], "busy") /\ UNCHANGED <<session, loop>>
      BY <1>8, <2>4 DEF Await
    <3>2. Collectable
      BY <2>1, <2>4 DEF Collectable, Holds, IInv, Staged, TypeOK, Verbs
    <3> QED BY <2>1, <3>1, <3>2, QuietOpen DEF Abstract!vars, AbstractRun
  <2> QED BY <2>2, <2>3, <2>4
<1>9. ASSUME NEW c \in Calls, Deliver(c) PROVE Goal
  <2>1. /\ Holds(c) /\ Ended(c, "session") /\ session' = "open"
        /\ UNCHANGED <<loopVars, cells>>
    BY <1>9 DEF Deliver, Holds, Starts
  <2>2. Collectable /\ \A d \in Calls : ~ Reported(d)
    BY <2>1, Untold DEF Collectable
  <2>3. \A d \in Calls : ~ Reported(d)'
    BY <2>1, <2>2, EndedHolds DEF Reported
  <2>4. Reports'
    BY <2>1, <2>2, <2>3, QuietReports DEF Reports
  <2>5. AbstractTold' = AbstractTold
    BY <2>2, <2>3 DEF AbstractTold, Reported
  <2> QED BY <2>1, <2>4, <2>5 DEF Abstract!vars, AbstractRun
<1>10. ASSUME NEW c \in Calls, Collect(c) PROVE Goal
  <2>1. /\ call[c] = "busy" /\ verb[c] # "astart" /\ loop = "ended"
        /\ UNCHANGED <<session, loopVars, raised>>
    BY <1>10 DEF Collect, EmptyCells
  <2>2. PICK a : /\ Ended(c, a)
                 /\ \/ a \in {"outcome", "error"} /\ ~ completed /\ ~ slot
                    \/ a = "raised" /\ (completed \/ slot)
    BY <1>10 DEF Collect, Collected
  <2>3. Holds(c)
    BY <2>1 DEF Holds, IInv, Staged, TypeOK, Verbs
  <2>4. completed' \/ slot' => completed \/ slot
    BY <1>10 DEF Collect, EmptyCells
  <2> QED BY <2>1, <2>2, <2>3, <2>4, HolderImplements DEF Active
<1>11. ASSUME NEW c \in Calls, Interrupt(c) PROVE Goal
  <2>1. /\ call[c] = "busy" /\ loop' = IF loop \in Active THEN "aborted" ELSE loop
        /\ UNCHANGED <<session, raised>>
    BY <1>11 DEF Interrupt, Abort, EmptyCells
  <2>2. PICK a : /\ Ended(c, a)
                 /\ a = "cancelled" \/ (a = "raised" /\ (completed \/ slot))
    BY <1>11 DEF Interrupt, Collected
  <2>3. Holds(c)
    BY <2>1 DEF Holds, IInv, Staged, TypeOK, Verbs
  <2>4. completed' \/ slot' => completed \/ slot
    BY <1>11 DEF Interrupt, EmptyCells
  <2> QED BY <2>1, <2>2, <2>3, <2>4, HolderImplements
<1>12. ASSUME NEW c \in Calls, Drop(c) PROVE Goal
  <2>1. /\ call[c] = "lazy" /\ Ended(c, "dropped")
        /\ loop' = IF loop \in Active THEN "aborted" ELSE loop
        /\ UNCHANGED <<session, cells>>
    BY <1>12 DEF Drop, Abort
  <2>2. CASE Holds(c)
    BY <2>1, <2>2, HolderImplements
  <2>3. CASE ~ Holds(c)
    <3>1. loop = "none"
      BY <2>1, <2>3 DEF Holds, Pends, IInv, Token, Staged, TypeOK, Verbs
    <3>2. loop' = loop
      BY <2>1, <3>1 DEF Active
    <3> QED BY <2>1, <3>2, QuietEnd DEF Abstract!vars, AbstractRun
  <2> QED BY <2>2, <2>3
<1>13. CASE UNCHANGED vars
  <2>1. UNCHANGED <<session, callVars, loop, cells>>
    BY <1>13 DEF vars
  <2>2. Reports'
    BY <2>1 DEF Reports, Reported, Collectable, Holds
  <2> QED BY <2>1, <2>2 DEF Abstract!vars, AbstractRun, AbstractTold
<1> QED
  BY <1>1, <1>2, <1>3, <1>4, <1>5, <1>6, <1>7, <1>8, <1>9, <1>10, <1>11, <1>12, <1>13
  DEF Next

\* Both invariants, as the results below need them.
LEMMA ReportsHold == Spec => [](TypeOK /\ IInv /\ Reports)
<1>1. Init => Reports
  BY DEF Init, Reports, Reported
<1>2. TypeOK /\ IInv /\ Reports /\ [Next]_vars => Reports'
  BY StepImplements
<1> QED BY <1>1, <1>2, TypeCorrect, Inductive, PTL DEF Spec

\* However many calls race for the supervisor and its session, and whoever is
\* interrupted, cancelled or dropped on the way: the run starts at most once,
\* at most one call is told how it came out, and that call is told of a
\* callback's exception if there was one.
THEOREM Implements == Spec => ImplementsSupervisedRun
<1>1. Init => Abstract!Init
  <2> SUFFICES ASSUME Init PROVE Abstract!Init
    OBVIOUS
  <2>1. /\ loop = "none" /\ raised = {}
        /\ answer = [c \in Calls |-> "none"]
    BY DEF Init
  <2> QED BY <2>1 DEF Abstract!Init, AbstractRun, AbstractTold
<1>2. TypeOK /\ IInv /\ Reports /\ [Next]_vars => [Abstract!Next]_(Abstract!vars)
  BY StepImplements
<1> QED
  BY <1>1, <1>2, ReportsHold, PTL
  DEF Spec, ImplementsSupervisedRun, Abstract!Spec

\* No call waits in vain: what a call holds is a loop that goes on or has an
\* outcome to give, never one that was dropped under it, and if a callback has
\* raised, the error is still in its cell.  StopReturns and RaiseSurfaces need
\* no more than that the loop and the call are scheduled.
NobodyWaitsInVain ==
  \A c \in Calls : Holds(c) =>
    /\ loop \in Active \union {"ended"}
    /\ raised # {} => completed \/ slot

\* Whoever holds the loop will find in it what it waits for.
THEOREM NobodyWaitsInVainHolds == Spec => []NobodyWaitsInVain
<1>1. TypeOK /\ IInv /\ Reports => NobodyWaitsInVain
  BY DEF TypeOK, IInv, Token, Told, Reports, Collectable, NobodyWaitsInVain
<1> QED BY <1>1, ReportsHold, PTL

=============================================================================
