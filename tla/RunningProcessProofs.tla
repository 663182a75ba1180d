------------------------ MODULE RunningProcessProofs ------------------------
(***************************************************************************)
(* Theorems about RunningProcess, for any set of callers.                  *)
(***************************************************************************)
EXTENDS RunningProcess, TLAPS

(***************************************************************************)
(* The inductive invariant, in four parts.  Ownership says where the run   *)
(* is for each state of the `finish` slot.  Ledger says that a run which   *)
(* is in none of the binding's own places has been claimed by a caller.    *)
(* Reaped follows the tree down.  Reports says whom an abort may hit.      *)
(***************************************************************************)

InCall(t) == pc[t] \in Waiting

Ownership ==
  /\ slot => finish = "NotStarted"
  /\ finish = "NotStarted" <=> finisher = "none"
  /\ stream \in {"locked", "took"} => finish = "NotStarted"
  /\ stream = "took" => ~slot
  /\ \A t \in Callers :
       /\ pc[t] = "process" => ~slot /\ stream # "took" /\ finish = "NotStarted"
       /\ pc[t] = "joint" => finish = "Taken"
       /\ \A u \in Callers : InCall(t) /\ InCall(u) => t = u

SomeoneClaimed == \E u \in Callers : Claimed(u)

Ledger ==
  /\ \A t \in Callers :
       /\ pc[t] # "end" => answer[t] = "none"
       /\ pc[t] \in Claiming => handle = "held"
       /\ pc[t] = "recheck" => ~slot
       /\ answer[t] = "consumed" /\ verb[t] # "output" => SomeoneClaimed
  /\ handle = "gone" => ~slot
  /\ finish = "Taken" => SomeoneClaimed
  /\ ~slot /\ finish = "NotStarted" /\ stream # "took" /\ handle # "gone"
       => SomeoneClaimed

Reaped ==
  /\ stream \in {"probed", "locked", "took"} => tree # "child"
  /\ finish # "NotStarted" => tree # "child"
  /\ finisher \in {"done", "dropped"} => tree = "gone"
  /\ ClosedMeansGone

Reports ==
  /\ finish = "Running" /\ handle = "held" => finisher \in {"running", "done"}
  /\ DropSparesReport

IInv == Ownership /\ Ledger /\ Reaped /\ Reports

-----------------------------------------------------------------------------
(* Types.                                                                  *)

USE DEF handleVars, runVars, driveVars, callVars

\* The case analysis every step proof below makes: one case for each action.
LEMMA NextCases ==
  ASSUME Next
  PROVE  \/ ChildExits \/ PipeCloses \/ Kill
         \/ \E t \in Callers : \E v \in Verbs : Call(t, v)
         \/ \E t \in Callers :
              \/ CheckUncaptured(t) \/ ClaimJoint(t) \/ ClaimProcess(t) \/ Recheck(t)
              \/ KillFirst(t) \/ ReapProcess(t) \/ EndProcess(t) \/ FailProcess(t)
              \/ AbortJoint(t) \/ EndJoint(t) \/ Interrupt(t) \/ Await(t)
         \/ FinisherReaps \/ FinisherDone \/ FinisherDropped
         \/ OpenStream \/ Pull \/ Pause \/ IdleLapse
         \/ StreamEnd \/ Probe \/ JointLock \/ JointTake \/ JointSpawn
         \/ DropFinish \/ DropProcess
  BY DEF Next, CallerStep, Finisher, Drive

\* Every step keeps the types.
LEMMA TypeStep ==
  ASSUME TypeOK, [Next]_vars PROVE TypeOK'
<1> USE DEF TypeOK, StreamStates, InFlight, Claiming, Waiting, Verbs
<1>1. CASE ChildExits
  BY <1>1 DEF ChildExits
<1>2. CASE PipeCloses
  BY <1>2 DEF PipeCloses
<1>3. CASE Kill
  BY <1>3 DEF Kill, Killed
<1>4. ASSUME NEW t \in Callers, NEW v \in Verbs, Call(t, v) PROVE TypeOK'
  BY <1>4 DEF Call
<1>5. ASSUME NEW t \in Callers, CheckUncaptured(t) PROVE TypeOK'
  BY <1>5 DEF CheckUncaptured, Return
<1>6. ASSUME NEW t \in Callers, ClaimJoint(t) PROVE TypeOK'
  BY <1>6 DEF ClaimJoint, TakeJoint
<1>7. ASSUME NEW t \in Callers, ClaimProcess(t) PROVE TypeOK'
  <2>1. /\ slot' = slot \/ slot' = FALSE
        /\ pc' \in [Callers -> Claiming \union Waiting \union {"idle", "end"}]
    BY <1>7 DEF ClaimProcess, Return
  <2>2. answer' = answer \/ answer' = [answer EXCEPT ![t] = "consumed"]
    BY <1>7 DEF ClaimProcess, Return
  <2>3. slot' \in BOOLEAN
    BY <2>1
  <2> QED BY <1>7, <2>1, <2>2, <2>3 DEF ClaimProcess
<1>8. ASSUME NEW t \in Callers, Recheck(t) PROVE TypeOK'
  BY <1>8 DEF Recheck, TakeJoint, Return
<1>9. ASSUME NEW t \in Callers, KillFirst(t) PROVE TypeOK'
  BY <1>9 DEF KillFirst, Driven, Killed
<1>10. ASSUME NEW t \in Callers, ReapProcess(t) PROVE TypeOK'
  BY <1>10 DEF ReapProcess, Driven
<1>11. ASSUME NEW t \in Callers, EndProcess(t) PROVE TypeOK'
  BY <1>11 DEF EndProcess, Driven, Return, Done
<1>12. ASSUME NEW t \in Callers, FailProcess(t) PROVE TypeOK'
  BY <1>12 DEF FailProcess, Driven, Return
<1>13. ASSUME NEW t \in Callers, AbortJoint(t) PROVE TypeOK'
  BY <1>13 DEF AbortJoint, Driven
<1>14. ASSUME NEW t \in Callers, EndJoint(t) PROVE TypeOK'
  BY <1>14 DEF EndJoint, Driven, Return, Joined
<1>15. ASSUME NEW t \in Callers, Interrupt(t) PROVE TypeOK'
  BY <1>15 DEF Interrupt, Return
<1>16. CASE FinisherReaps
  BY <1>16 DEF FinisherReaps
<1>17. CASE FinisherDone
  BY <1>17 DEF FinisherDone
<1>18. CASE FinisherDropped
  BY <1>18 DEF FinisherDropped
<1>19. CASE OpenStream
  BY <1>19 DEF OpenStream
<1>20. CASE Pull
  BY <1>20 DEF Pull
<1>21. CASE Pause
  BY <1>21 DEF Pause
<1>22. CASE IdleLapse
  BY <1>22 DEF IdleLapse, Killed
<1>23. CASE StreamEnd
  BY <1>23 DEF StreamEnd
<1>24. CASE Probe
  BY <1>24 DEF Probe
<1>25. CASE JointLock
  BY <1>25 DEF JointLock
<1>26. CASE JointTake
  BY <1>26 DEF JointTake
<1>27. CASE JointSpawn
  BY <1>27 DEF JointSpawn
<1>28. CASE DropFinish
  BY <1>28 DEF DropFinish, Unused
<1>29. CASE DropProcess
  BY <1>29 DEF DropProcess
<1>30. CASE UNCHANGED vars
  BY <1>30 DEF vars
<1>31. ASSUME NEW t \in Callers, Await(t) PROVE TypeOK'
  BY <1>31 DEF Await
<1> QED
  BY <1>1, <1>2, <1>3, <1>4, <1>5, <1>6, <1>7, <1>8, <1>9, <1>10, <1>11, <1>12,
     <1>13, <1>14, <1>15, <1>16, <1>17, <1>18, <1>19, <1>20, <1>21, <1>22, <1>23,
     <1>24, <1>25, <1>26, <1>27, <1>28, <1>29, <1>30, <1>31, NextCases

\* Every variable keeps its type.
THEOREM TypeCorrect == Spec => []TypeOK
<1>1. Init => TypeOK
  BY DEF Init, TypeOK, StreamStates, InFlight, Claiming, Waiting, Verbs
<1>2. TypeOK /\ [Next]_vars => TypeOK'
  BY TypeStep
<1> QED BY <1>1, <1>2, PTL DEF Spec

-----------------------------------------------------------------------------
(* The inductive step.  One lemma for each part of the invariant, one step *)
(* of it for each action.                                                  *)

\* The run moves from one place to another, never into two.
LEMMA OwnershipStep ==
  ASSUME TypeOK, Ownership, [Next]_vars PROVE Ownership'
<1> USE DEF TypeOK, StreamStates, InFlight, Claiming, Waiting, Verbs,
           Ownership, InCall, FinishUnlocked
<1>1. CASE ChildExits
  BY <1>1 DEF ChildExits
<1>2. CASE PipeCloses
  BY <1>2 DEF PipeCloses
<1>3. CASE Kill
  BY <1>3 DEF Kill, Killed
<1>4. ASSUME NEW t \in Callers, NEW v \in Verbs, Call(t, v) PROVE Ownership'
  BY <1>4 DEF Call
<1>5. ASSUME NEW t \in Callers, CheckUncaptured(t) PROVE Ownership'
  BY <1>5 DEF CheckUncaptured, Return
<1>6. ASSUME NEW t \in Callers, ClaimJoint(t) PROVE Ownership'
  BY <1>6 DEF ClaimJoint, TakeJoint
<1>7. ASSUME NEW t \in Callers, ClaimProcess(t) PROVE Ownership'
  BY <1>7 DEF ClaimProcess, Return
<1>8. ASSUME NEW t \in Callers, Recheck(t) PROVE Ownership'
  BY <1>8 DEF Recheck, TakeJoint, Return
<1>9. ASSUME NEW t \in Callers, KillFirst(t) PROVE Ownership'
  BY <1>9 DEF KillFirst, Driven, Killed
<1>10. ASSUME NEW t \in Callers, ReapProcess(t) PROVE Ownership'
  BY <1>10 DEF ReapProcess, Driven
<1>11. ASSUME NEW t \in Callers, EndProcess(t) PROVE Ownership'
  BY <1>11 DEF EndProcess, Driven, Return, Done
<1>12. ASSUME NEW t \in Callers, FailProcess(t) PROVE Ownership'
  BY <1>12 DEF FailProcess, Driven, Return
<1>13. ASSUME NEW t \in Callers, AbortJoint(t) PROVE Ownership'
  BY <1>13 DEF AbortJoint, Driven
<1>14. ASSUME NEW t \in Callers, EndJoint(t) PROVE Ownership'
  BY <1>14 DEF EndJoint, Driven, Return, Joined
<1>15. ASSUME NEW t \in Callers, Interrupt(t) PROVE Ownership'
  BY <1>15 DEF Interrupt, Return
<1>16. CASE FinisherReaps
  BY <1>16 DEF FinisherReaps
<1>17. CASE FinisherDone
  BY <1>17 DEF FinisherDone
<1>18. CASE FinisherDropped
  BY <1>18 DEF FinisherDropped
<1>19. CASE OpenStream
  BY <1>19 DEF OpenStream
<1>20. CASE Pull
  BY <1>20 DEF Pull
<1>21. CASE Pause
  BY <1>21 DEF Pause
<1>22. CASE IdleLapse
  BY <1>22 DEF IdleLapse, Killed
<1>23. CASE StreamEnd
  BY <1>23 DEF StreamEnd
<1>24. CASE Probe
  BY <1>24 DEF Probe
<1>25. CASE JointLock
  BY <1>25 DEF JointLock
<1>26. CASE JointTake
  BY <1>26 DEF JointTake
<1>27. CASE JointSpawn
  BY <1>27 DEF JointSpawn
<1>28. CASE DropFinish
  BY <1>28 DEF DropFinish, Unused
<1>29. CASE DropProcess
  BY <1>29 DEF DropProcess
<1>30. CASE UNCHANGED vars
  BY <1>30 DEF vars
<1>31. ASSUME NEW t \in Callers, Await(t) PROVE Ownership'
  BY <1>31 DEF Await
<1> QED
  BY <1>1, <1>2, <1>3, <1>4, <1>5, <1>6, <1>7, <1>8, <1>9, <1>10, <1>11, <1>12,
     <1>13, <1>14, <1>15, <1>16, <1>17, <1>18, <1>19, <1>20, <1>21, <1>22, <1>23,
     <1>24, <1>25, <1>26, <1>27, <1>28, <1>29, <1>30, <1>31, NextCases

\* A caller that has had the run has had it for good.
LEMMA ClaimedStep ==
  ASSUME TypeOK, Ledger, NEW c \in Callers, Claimed(c), [Next]_vars PROVE Claimed(c)'
<1> USE DEF TypeOK, Claimed, Ledger, Waiting, Claiming
<1>1. CASE ChildExits
  BY <1>1 DEF ChildExits
<1>2. CASE PipeCloses
  BY <1>2 DEF PipeCloses
<1>3. CASE Kill
  BY <1>3 DEF Kill, Killed
<1>4. ASSUME NEW t \in Callers, NEW v \in Verbs, Call(t, v) PROVE Claimed(c)'
  BY <1>4 DEF Call
<1>5. ASSUME NEW t \in Callers, CheckUncaptured(t) PROVE Claimed(c)'
  BY <1>5 DEF CheckUncaptured, Return
<1>6. ASSUME NEW t \in Callers, ClaimJoint(t) PROVE Claimed(c)'
  BY <1>6 DEF ClaimJoint, TakeJoint
<1>7. ASSUME NEW t \in Callers, ClaimProcess(t) PROVE Claimed(c)'
  BY <1>7 DEF ClaimProcess, Return
<1>8. ASSUME NEW t \in Callers, Recheck(t) PROVE Claimed(c)'
  BY <1>8 DEF Recheck, TakeJoint, Return
<1>9. ASSUME NEW t \in Callers, KillFirst(t) PROVE Claimed(c)'
  BY <1>9 DEF KillFirst, Driven, Killed
<1>10. ASSUME NEW t \in Callers, ReapProcess(t) PROVE Claimed(c)'
  BY <1>10 DEF ReapProcess, Driven
<1>11. ASSUME NEW t \in Callers, EndProcess(t) PROVE Claimed(c)'
  BY <1>11 DEF EndProcess, Driven, Return, Done
<1>12. ASSUME NEW t \in Callers, FailProcess(t) PROVE Claimed(c)'
  BY <1>12 DEF FailProcess, Driven, Return
<1>13. ASSUME NEW t \in Callers, AbortJoint(t) PROVE Claimed(c)'
  BY <1>13 DEF AbortJoint, Driven
<1>14. ASSUME NEW t \in Callers, EndJoint(t) PROVE Claimed(c)'
  BY <1>14 DEF EndJoint, Driven, Return, Joined
<1>15. ASSUME NEW t \in Callers, Interrupt(t) PROVE Claimed(c)'
  BY <1>15 DEF Interrupt, Return
<1>16. CASE FinisherReaps
  BY <1>16 DEF FinisherReaps
<1>17. CASE FinisherDone
  BY <1>17 DEF FinisherDone
<1>18. CASE FinisherDropped
  BY <1>18 DEF FinisherDropped
<1>19. CASE OpenStream
  BY <1>19 DEF OpenStream
<1>20. CASE Pull
  BY <1>20 DEF Pull
<1>21. CASE Pause
  BY <1>21 DEF Pause
<1>22. CASE IdleLapse
  BY <1>22 DEF IdleLapse, Killed
<1>23. CASE StreamEnd
  BY <1>23 DEF StreamEnd
<1>24. CASE Probe
  BY <1>24 DEF Probe
<1>25. CASE JointLock
  BY <1>25 DEF JointLock
<1>26. CASE JointTake
  BY <1>26 DEF JointTake
<1>27. CASE JointSpawn
  BY <1>27 DEF JointSpawn
<1>28. CASE DropFinish
  BY <1>28 DEF DropFinish, Unused
<1>29. CASE DropProcess
  BY <1>29 DEF DropProcess
<1>30. CASE UNCHANGED vars
  BY <1>30 DEF vars
<1>31. ASSUME NEW t \in Callers, Await(t) PROVE Claimed(c)'
  BY <1>31 DEF Await
<1> QED
  BY <1>1, <1>2, <1>3, <1>4, <1>5, <1>6, <1>7, <1>8, <1>9, <1>10, <1>11, <1>12,
     <1>13, <1>14, <1>15, <1>16, <1>17, <1>18, <1>19, <1>20, <1>21, <1>22, <1>23,
     <1>24, <1>25, <1>26, <1>27, <1>28, <1>29, <1>30, <1>31, NextCases

\* So a run that has been claimed stays claimed.
LEMMA SomeoneStep ==
  ASSUME TypeOK, Ledger, SomeoneClaimed, [Next]_vars PROVE SomeoneClaimed'
  BY ClaimedStep DEF SomeoneClaimed

\* The run leaves the binding's own places only into a caller's hands, or for
\* good when the handle is dropped.
LEMMA LedgerStep ==
  ASSUME TypeOK, Ownership, Ledger, [Next]_vars PROVE Ledger'
<1> USE DEF TypeOK, StreamStates, InFlight, Claiming, Waiting, Verbs,
           Ownership, Ledger, FinishUnlocked
<1>a. SomeoneClaimed => SomeoneClaimed'
  BY SomeoneStep
<1>1. CASE ChildExits
  BY <1>a, <1>1 DEF ChildExits
<1>2. CASE PipeCloses
  BY <1>a, <1>2 DEF PipeCloses
<1>3. CASE Kill
  BY <1>a, <1>3 DEF Kill, Killed
<1>4. ASSUME NEW t \in Callers, NEW v \in Verbs, Call(t, v) PROVE Ledger'
  BY <1>a, <1>4 DEF Call
<1>5. ASSUME NEW t \in Callers, CheckUncaptured(t) PROVE Ledger'
  BY <1>a, <1>5 DEF CheckUncaptured, Return
<1>6. ASSUME NEW t \in Callers, ClaimJoint(t) PROVE Ledger'
  BY <1>a, <1>6 DEF ClaimJoint, TakeJoint, SomeoneClaimed, Claimed
<1>7. ASSUME NEW t \in Callers, ClaimProcess(t) PROVE Ledger'
  BY <1>a, <1>7 DEF ClaimProcess, Return, SomeoneClaimed, Claimed
<1>8. ASSUME NEW t \in Callers, Recheck(t) PROVE Ledger'
  BY <1>a, <1>8 DEF Recheck, TakeJoint, Return, SomeoneClaimed, Claimed
<1>9. ASSUME NEW t \in Callers, KillFirst(t) PROVE Ledger'
  BY <1>a, <1>9 DEF KillFirst, Driven, Killed
<1>10. ASSUME NEW t \in Callers, ReapProcess(t) PROVE Ledger'
  BY <1>a, <1>10 DEF ReapProcess, Driven
<1>11. ASSUME NEW t \in Callers, EndProcess(t) PROVE Ledger'
  BY <1>a, <1>11 DEF EndProcess, Driven, Return, Done
<1>12. ASSUME NEW t \in Callers, FailProcess(t) PROVE Ledger'
  BY <1>a, <1>12 DEF FailProcess, Driven, Return
<1>13. ASSUME NEW t \in Callers, AbortJoint(t) PROVE Ledger'
  BY <1>a, <1>13 DEF AbortJoint, Driven
<1>14. ASSUME NEW t \in Callers, EndJoint(t) PROVE Ledger'
  BY <1>a, <1>14 DEF EndJoint, Driven, Return, Joined
<1>15. ASSUME NEW t \in Callers, Interrupt(t) PROVE Ledger'
  BY <1>a, <1>15 DEF Interrupt, Return
<1>16. CASE FinisherReaps
  BY <1>a, <1>16 DEF FinisherReaps
<1>17. CASE FinisherDone
  BY <1>a, <1>17 DEF FinisherDone
<1>18. CASE FinisherDropped
  BY <1>a, <1>18 DEF FinisherDropped
<1>19. CASE OpenStream
  BY <1>a, <1>19 DEF OpenStream
<1>20. CASE Pull
  BY <1>a, <1>20 DEF Pull
<1>21. CASE Pause
  BY <1>a, <1>21 DEF Pause
<1>22. CASE IdleLapse
  BY <1>a, <1>22 DEF IdleLapse, Killed
<1>23. CASE StreamEnd
  BY <1>a, <1>23 DEF StreamEnd
<1>24. CASE Probe
  BY <1>a, <1>24 DEF Probe
<1>25. CASE JointLock
  BY <1>a, <1>25 DEF JointLock
<1>26. CASE JointTake
  BY <1>a, <1>26 DEF JointTake
<1>27. CASE JointSpawn
  BY <1>a, <1>27 DEF JointSpawn
<1>28. CASE DropFinish
  BY <1>a, <1>28 DEF DropFinish, Unused
<1>29. CASE DropProcess
  BY <1>a, <1>29 DEF DropProcess
<1>30. CASE UNCHANGED vars
  BY <1>a, <1>30 DEF vars
<1>31. ASSUME NEW t \in Callers, Await(t) PROVE Ledger'
  BY <1>a, <1>31 DEF Await
<1> QED
  BY <1>1, <1>2, <1>3, <1>4, <1>5, <1>6, <1>7, <1>8, <1>9, <1>10, <1>11, <1>12,
     <1>13, <1>14, <1>15, <1>16, <1>17, <1>18, <1>19, <1>20, <1>21, <1>22, <1>23,
     <1>24, <1>25, <1>26, <1>27, <1>28, <1>29, <1>30, <1>31, NextCases

\* A tree that is gone stays gone, and only a child that has exited is handed to
\* a finisher.
LEMMA ReapedStep ==
  ASSUME TypeOK, Ownership, Ledger, Reaped, [Next]_vars PROVE Reaped'
<1> USE DEF TypeOK, StreamStates, InFlight, Claiming, Waiting, Verbs,
           Ownership, Ledger, Reaped, ClosedMeansGone
<1>1. CASE ChildExits
  BY <1>1 DEF ChildExits
<1>2. CASE PipeCloses
  BY <1>2 DEF PipeCloses
<1>3. CASE Kill
  BY <1>3 DEF Kill, Killed
<1>4. ASSUME NEW t \in Callers, NEW v \in Verbs, Call(t, v) PROVE Reaped'
  BY <1>4 DEF Call
<1>5. ASSUME NEW t \in Callers, CheckUncaptured(t) PROVE Reaped'
  BY <1>5 DEF CheckUncaptured, Return
<1>6. ASSUME NEW t \in Callers, ClaimJoint(t) PROVE Reaped'
  BY <1>6 DEF ClaimJoint, TakeJoint
<1>7. ASSUME NEW t \in Callers, ClaimProcess(t) PROVE Reaped'
  BY <1>7 DEF ClaimProcess, Return
<1>8. ASSUME NEW t \in Callers, Recheck(t) PROVE Reaped'
  BY <1>8 DEF Recheck, TakeJoint, Return
<1>9. ASSUME NEW t \in Callers, KillFirst(t) PROVE Reaped'
  BY <1>9 DEF KillFirst, Driven, Killed
<1>10. ASSUME NEW t \in Callers, ReapProcess(t) PROVE Reaped'
  BY <1>10 DEF ReapProcess, Driven
<1>11. ASSUME NEW t \in Callers, EndProcess(t) PROVE Reaped'
  BY <1>11 DEF EndProcess, Driven, Return, Done
<1>12. ASSUME NEW t \in Callers, FailProcess(t) PROVE Reaped'
  BY <1>12 DEF FailProcess, Driven, Return
<1>13. ASSUME NEW t \in Callers, AbortJoint(t) PROVE Reaped'
  BY <1>13 DEF AbortJoint, Driven
<1>14. ASSUME NEW t \in Callers, EndJoint(t) PROVE Reaped'
  BY <1>14 DEF EndJoint, Driven, Return, Joined
<1>15. ASSUME NEW t \in Callers, Interrupt(t) PROVE Reaped'
  BY <1>15 DEF Interrupt, Return
<1>16. CASE FinisherReaps
  BY <1>16 DEF FinisherReaps
<1>17. CASE FinisherDone
  BY <1>17 DEF FinisherDone
<1>18. CASE FinisherDropped
  BY <1>18 DEF FinisherDropped
<1>19. CASE OpenStream
  BY <1>19 DEF OpenStream
<1>20. CASE Pull
  BY <1>20 DEF Pull
<1>21. CASE Pause
  BY <1>21 DEF Pause
<1>22. CASE IdleLapse
  BY <1>22 DEF IdleLapse, Killed
<1>23. CASE StreamEnd
  BY <1>23 DEF StreamEnd
<1>24. CASE Probe
  BY <1>24 DEF Probe
<1>25. CASE JointLock
  BY <1>25 DEF JointLock
<1>26. CASE JointTake
  BY <1>26 DEF JointTake
<1>27. CASE JointSpawn
  BY <1>27 DEF JointSpawn
<1>28. CASE DropFinish
  BY <1>28 DEF DropFinish, Unused
<1>29. CASE DropProcess
  BY <1>29 DEF DropProcess
<1>30. CASE UNCHANGED vars
  BY <1>30 DEF vars
<1>31. ASSUME NEW t \in Callers, Await(t) PROVE Reaped'
  BY <1>31 DEF Await
<1> QED
  BY <1>1, <1>2, <1>3, <1>4, <1>5, <1>6, <1>7, <1>8, <1>9, <1>10, <1>11, <1>12,
     <1>13, <1>14, <1>15, <1>16, <1>17, <1>18, <1>19, <1>20, <1>21, <1>22, <1>23,
     <1>24, <1>25, <1>26, <1>27, <1>28, <1>29, <1>30, <1>31, NextCases

\* Only a finisher nobody has claimed, or one an exit has claimed, is aborted.
LEMMA ReportsStep ==
  ASSUME TypeOK, Ownership, Ledger, Reports, [Next]_vars PROVE Reports'
<1> USE DEF TypeOK, StreamStates, InFlight, Claiming, Waiting, Verbs,
           Ownership, Ledger, Reports, DropSparesReport, InCall
<1>1. CASE ChildExits
  BY <1>1 DEF ChildExits
<1>2. CASE PipeCloses
  BY <1>2 DEF PipeCloses
<1>3. CASE Kill
  BY <1>3 DEF Kill, Killed
<1>4. ASSUME NEW t \in Callers, NEW v \in Verbs, Call(t, v) PROVE Reports'
  BY <1>4 DEF Call
<1>5. ASSUME NEW t \in Callers, CheckUncaptured(t) PROVE Reports'
  BY <1>5 DEF CheckUncaptured, Return
<1>6. ASSUME NEW t \in Callers, ClaimJoint(t) PROVE Reports'
  BY <1>6 DEF ClaimJoint, TakeJoint
<1>7. ASSUME NEW t \in Callers, ClaimProcess(t) PROVE Reports'
  BY <1>7 DEF ClaimProcess, Return
<1>8. ASSUME NEW t \in Callers, Recheck(t) PROVE Reports'
  BY <1>8 DEF Recheck, TakeJoint, Return
<1>9. ASSUME NEW t \in Callers, KillFirst(t) PROVE Reports'
  BY <1>9 DEF KillFirst, Driven, Killed
<1>10. ASSUME NEW t \in Callers, ReapProcess(t) PROVE Reports'
  BY <1>10 DEF ReapProcess, Driven
<1>11. ASSUME NEW t \in Callers, EndProcess(t) PROVE Reports'
  BY <1>11 DEF EndProcess, Driven, Return, Done
<1>12. ASSUME NEW t \in Callers, FailProcess(t) PROVE Reports'
  BY <1>12 DEF FailProcess, Driven, Return
<1>13. ASSUME NEW t \in Callers, AbortJoint(t) PROVE Reports'
  BY <1>13 DEF AbortJoint, Driven
<1>14. ASSUME NEW t \in Callers, EndJoint(t) PROVE Reports'
  BY <1>14 DEF EndJoint, Driven, Return, Joined
<1>15. ASSUME NEW t \in Callers, Interrupt(t) PROVE Reports'
  BY <1>15 DEF Interrupt, Return
<1>16. CASE FinisherReaps
  BY <1>16 DEF FinisherReaps
<1>17. CASE FinisherDone
  BY <1>17 DEF FinisherDone
<1>18. CASE FinisherDropped
  BY <1>18 DEF FinisherDropped
<1>19. CASE OpenStream
  BY <1>19 DEF OpenStream
<1>20. CASE Pull
  BY <1>20 DEF Pull
<1>21. CASE Pause
  BY <1>21 DEF Pause
<1>22. CASE IdleLapse
  BY <1>22 DEF IdleLapse, Killed
<1>23. CASE StreamEnd
  BY <1>23 DEF StreamEnd
<1>24. CASE Probe
  BY <1>24 DEF Probe
<1>25. CASE JointLock
  BY <1>25 DEF JointLock
<1>26. CASE JointTake
  BY <1>26 DEF JointTake
<1>27. CASE JointSpawn
  BY <1>27 DEF JointSpawn
<1>28. CASE DropFinish
  BY <1>28 DEF DropFinish, Unused
<1>29. CASE DropProcess
  BY <1>29 DEF DropProcess
<1>30. CASE UNCHANGED vars
  BY <1>30 DEF vars
<1>31. ASSUME NEW t \in Callers, Await(t) PROVE Reports'
  BY <1>31 DEF Await
<1> QED
  BY <1>1, <1>2, <1>3, <1>4, <1>5, <1>6, <1>7, <1>8, <1>9, <1>10, <1>11, <1>12,
     <1>13, <1>14, <1>15, <1>16, <1>17, <1>18, <1>19, <1>20, <1>21, <1>22, <1>23,
     <1>24, <1>25, <1>26, <1>27, <1>28, <1>29, <1>30, <1>31, NextCases

-----------------------------------------------------------------------------
(* Without the two hazards, every finisher can still be ended.             *)

JointAwaited == \E t \in Callers : pc[t] = "joint"

Awaits(c) == finisher = "running" => pc[c] = "joint"

Reachable ==
  /\ handle = "dropping" => stream \notin InFlight
  /\ handle = "gone" => stream \notin {"probed", "locked", "took"}
  /\ finisher = "running" => (finish = "Running" /\ handle = "held") \/ JointAwaited

\* Whoever awaits a running finisher goes on doing so, unless interrupted.
LEMMA AwaitedStep ==
  ASSUME Hazards = {}, TypeOK, NEW c \in Callers, pc[c] = "joint", finisher = "running",
         [Next]_vars PROVE Awaits(c)'
<1> USE DEF TypeOK, Awaits
<1>1. CASE ChildExits
  BY <1>1 DEF ChildExits
<1>2. CASE PipeCloses
  BY <1>2 DEF PipeCloses
<1>3. CASE Kill
  BY <1>3 DEF Kill, Killed
<1>4. ASSUME NEW t \in Callers, NEW v \in Verbs, Call(t, v) PROVE Awaits(c)'
  BY <1>4 DEF Call
<1>5. ASSUME NEW t \in Callers, CheckUncaptured(t) PROVE Awaits(c)'
  BY <1>5 DEF CheckUncaptured, Return
<1>6. ASSUME NEW t \in Callers, ClaimJoint(t) PROVE Awaits(c)'
  BY <1>6 DEF ClaimJoint, TakeJoint
<1>7. ASSUME NEW t \in Callers, ClaimProcess(t) PROVE Awaits(c)'
  BY <1>7 DEF ClaimProcess, Return
<1>8. ASSUME NEW t \in Callers, Recheck(t) PROVE Awaits(c)'
  BY <1>8 DEF Recheck, TakeJoint, Return
<1>9. ASSUME NEW t \in Callers, KillFirst(t) PROVE Awaits(c)'
  BY <1>9 DEF KillFirst, Driven, Killed
<1>10. ASSUME NEW t \in Callers, ReapProcess(t) PROVE Awaits(c)'
  BY <1>10 DEF ReapProcess, Driven
<1>11. ASSUME NEW t \in Callers, EndProcess(t) PROVE Awaits(c)'
  BY <1>11 DEF EndProcess, Driven, Return, Done
<1>12. ASSUME NEW t \in Callers, FailProcess(t) PROVE Awaits(c)'
  BY <1>12 DEF FailProcess, Driven, Return
<1>13. ASSUME NEW t \in Callers, AbortJoint(t) PROVE Awaits(c)'
  BY <1>13 DEF AbortJoint, Driven
<1>14. ASSUME NEW t \in Callers, EndJoint(t) PROVE Awaits(c)'
  BY <1>14 DEF EndJoint, Driven, Return, Joined
<1>15. ASSUME NEW t \in Callers, Interrupt(t) PROVE Awaits(c)'
  BY <1>15 DEF Interrupt, Return
<1>16. CASE FinisherReaps
  BY <1>16 DEF FinisherReaps
<1>17. CASE FinisherDone
  BY <1>17 DEF FinisherDone
<1>18. CASE FinisherDropped
  BY <1>18 DEF FinisherDropped
<1>19. CASE OpenStream
  BY <1>19 DEF OpenStream
<1>20. CASE Pull
  BY <1>20 DEF Pull
<1>21. CASE Pause
  BY <1>21 DEF Pause
<1>22. CASE IdleLapse
  BY <1>22 DEF IdleLapse, Killed
<1>23. CASE StreamEnd
  BY <1>23 DEF StreamEnd
<1>24. CASE Probe
  BY <1>24 DEF Probe
<1>25. CASE JointLock
  BY <1>25 DEF JointLock
<1>26. CASE JointTake
  BY <1>26 DEF JointTake
<1>27. CASE JointSpawn
  BY <1>27 DEF JointSpawn
<1>28. CASE DropFinish
  BY <1>28 DEF DropFinish, Unused
<1>29. CASE DropProcess
  BY <1>29 DEF DropProcess
<1>30. CASE UNCHANGED vars
  BY <1>30 DEF vars
<1>31. ASSUME NEW t \in Callers, Await(t) PROVE Awaits(c)'
  BY <1>31 DEF Await
<1> QED
  BY <1>1, <1>2, <1>3, <1>4, <1>5, <1>6, <1>7, <1>8, <1>9, <1>10, <1>11, <1>12,
     <1>13, <1>14, <1>15, <1>16, <1>17, <1>18, <1>19, <1>20, <1>21, <1>22, <1>23,
     <1>24, <1>25, <1>26, <1>27, <1>28, <1>29, <1>30, <1>31, NextCases

\* The drive moves the run only while the handle is there to end the finisher.
LEMMA ReachableStep ==
  ASSUME Hazards = {}, TypeOK, Ownership, Ledger, Reachable, [Next]_vars PROVE Reachable'
<1> USE DEF TypeOK, StreamStates, InFlight, Claiming, Waiting, Verbs,
           Ownership, Ledger, Reachable, FinishUnlocked
<1>a. finisher = "running" /\ JointAwaited => (finisher' = "running" => JointAwaited')
  BY AwaitedStep DEF JointAwaited, Awaits
<1>1. CASE ChildExits
  BY <1>a, <1>1 DEF ChildExits
<1>2. CASE PipeCloses
  BY <1>a, <1>2 DEF PipeCloses
<1>3. CASE Kill
  BY <1>a, <1>3 DEF Kill, Killed
<1>4. ASSUME NEW t \in Callers, NEW v \in Verbs, Call(t, v) PROVE Reachable'
  BY <1>a, <1>4 DEF Call
<1>5. ASSUME NEW t \in Callers, CheckUncaptured(t) PROVE Reachable'
  BY <1>a, <1>5 DEF CheckUncaptured, Return
<1>6. ASSUME NEW t \in Callers, ClaimJoint(t) PROVE Reachable'
  BY <1>a, <1>6 DEF ClaimJoint, TakeJoint, JointAwaited
<1>7. ASSUME NEW t \in Callers, ClaimProcess(t) PROVE Reachable'
  BY <1>a, <1>7 DEF ClaimProcess, Return
<1>8. ASSUME NEW t \in Callers, Recheck(t) PROVE Reachable'
  BY <1>a, <1>8 DEF Recheck, TakeJoint, Return, JointAwaited
<1>9. ASSUME NEW t \in Callers, KillFirst(t) PROVE Reachable'
  BY <1>a, <1>9 DEF KillFirst, Driven, Killed
<1>10. ASSUME NEW t \in Callers, ReapProcess(t) PROVE Reachable'
  BY <1>a, <1>10 DEF ReapProcess, Driven
<1>11. ASSUME NEW t \in Callers, EndProcess(t) PROVE Reachable'
  BY <1>a, <1>11 DEF EndProcess, Driven, Return, Done
<1>12. ASSUME NEW t \in Callers, FailProcess(t) PROVE Reachable'
  BY <1>a, <1>12 DEF FailProcess, Driven, Return
<1>13. ASSUME NEW t \in Callers, AbortJoint(t) PROVE Reachable'
  BY <1>a, <1>13 DEF AbortJoint, Driven
<1>14. ASSUME NEW t \in Callers, EndJoint(t) PROVE Reachable'
  BY <1>a, <1>14 DEF EndJoint, Driven, Return, Joined
<1>15. ASSUME NEW t \in Callers, Interrupt(t) PROVE Reachable'
  BY <1>a, <1>15 DEF Interrupt, Return
<1>16. CASE FinisherReaps
  BY <1>a, <1>16 DEF FinisherReaps
<1>17. CASE FinisherDone
  BY <1>a, <1>17 DEF FinisherDone
<1>18. CASE FinisherDropped
  BY <1>a, <1>18 DEF FinisherDropped
<1>19. CASE OpenStream
  BY <1>a, <1>19 DEF OpenStream
<1>20. CASE Pull
  BY <1>a, <1>20 DEF Pull
<1>21. CASE Pause
  BY <1>a, <1>21 DEF Pause
<1>22. CASE IdleLapse
  BY <1>a, <1>22 DEF IdleLapse, Killed
<1>23. CASE StreamEnd
  BY <1>a, <1>23 DEF StreamEnd
<1>24. CASE Probe
  BY <1>a, <1>24 DEF Probe
<1>25. CASE JointLock
  BY <1>a, <1>25 DEF JointLock
<1>26. CASE JointTake
  BY <1>a, <1>26 DEF JointTake
<1>27. CASE JointSpawn
  BY <1>a, <1>27 DEF JointSpawn
<1>28. CASE DropFinish
  BY <1>a, <1>28 DEF DropFinish, Unused
<1>29. CASE DropProcess
  BY <1>a, <1>29 DEF DropProcess
<1>30. CASE UNCHANGED vars
  BY <1>a, <1>30 DEF vars
<1>31. ASSUME NEW t \in Callers, Await(t) PROVE Reachable'
  BY <1>a, <1>31 DEF Await
<1> QED
  BY <1>1, <1>2, <1>3, <1>4, <1>5, <1>6, <1>7, <1>8, <1>9, <1>10, <1>11, <1>12,
     <1>13, <1>14, <1>15, <1>16, <1>17, <1>18, <1>19, <1>20, <1>21, <1>22, <1>23,
     <1>24, <1>25, <1>26, <1>27, <1>28, <1>29, <1>30, <1>31, NextCases

-----------------------------------------------------------------------------
(* Nobody claims what another has claimed, and nobody is told an outcome    *)
(* that the run has not had.                                               *)

\* One caller at most ever has the run, waiting or answered.
ClaimedOnce == \A t, u \in Callers : Claimed(t) /\ Claimed(u) => t = u

\* Nobody has had the run while the binding has it.
Unclaimed == ~SomeoneClaimed

Exclusive ==
  /\ ClaimedOnce
  /\ slot => Unclaimed
  /\ stream = "took" => Unclaimed
  /\ finish = "Running" => Unclaimed

\* An outcome is reported of a child that has been reaped, and by a verb that
\* wants the output of a tree that has ended.
TruthfulOutcome ==
  \A t \in Callers :
    answer[t] = "outcome" => published /\ (verb[t] \in Drains => tree = "gone")

Truth ==
  /\ TruthfulOutcome
  /\ finisher = "done" => published

\* The drive stops asking for the child's exit only when the process has left
\* the slot for good.
DriveAsksOn == reaping => ~slot /\ stream \notin {"probed", "locked", "took"}

\* A claim takes the run from a place where it was unclaimed, and leaves it in
\* none of them.
LEMMA ExclusiveStep ==
  ASSUME TypeOK, Ownership, Ledger, Exclusive, [Next]_vars PROVE Exclusive'
<1> USE DEF TypeOK, StreamStates, InFlight, Claiming, Waiting, Verbs, Ownership, InCall,
           Ledger, Exclusive, ClaimedOnce, Unclaimed, SomeoneClaimed, Claimed,
           FinishUnlocked
<1>1. CASE ChildExits
  BY <1>1 DEF ChildExits
<1>2. CASE PipeCloses
  BY <1>2 DEF PipeCloses
<1>3. CASE Kill
  BY <1>3 DEF Kill, Killed
<1>4. ASSUME NEW t \in Callers, NEW v \in Verbs, Call(t, v) PROVE Exclusive'
  BY <1>4 DEF Call
<1>5. ASSUME NEW t \in Callers, CheckUncaptured(t) PROVE Exclusive'
  BY <1>5 DEF CheckUncaptured, Return
<1>6. ASSUME NEW t \in Callers, ClaimJoint(t) PROVE Exclusive'
  BY <1>6 DEF ClaimJoint, TakeJoint
<1>7. ASSUME NEW t \in Callers, ClaimProcess(t) PROVE Exclusive'
  BY <1>7 DEF ClaimProcess, Return
<1>8. ASSUME NEW t \in Callers, Recheck(t) PROVE Exclusive'
  BY <1>8 DEF Recheck, TakeJoint, Return
<1>9. ASSUME NEW t \in Callers, KillFirst(t) PROVE Exclusive'
  BY <1>9 DEF KillFirst, Driven, Killed
<1>10. ASSUME NEW t \in Callers, ReapProcess(t) PROVE Exclusive'
  BY <1>10 DEF ReapProcess, Driven
<1>11. ASSUME NEW t \in Callers, EndProcess(t) PROVE Exclusive'
  BY <1>11 DEF EndProcess, Driven, Return, Done
<1>12. ASSUME NEW t \in Callers, FailProcess(t) PROVE Exclusive'
  BY <1>12 DEF FailProcess, Driven, Return
<1>13. ASSUME NEW t \in Callers, AbortJoint(t) PROVE Exclusive'
  BY <1>13 DEF AbortJoint, Driven
<1>14. ASSUME NEW t \in Callers, EndJoint(t) PROVE Exclusive'
  BY <1>14 DEF EndJoint, Driven, Return, Joined
<1>15. ASSUME NEW t \in Callers, Interrupt(t) PROVE Exclusive'
  BY <1>15 DEF Interrupt, Return
<1>16. CASE FinisherReaps
  BY <1>16 DEF FinisherReaps
<1>17. CASE FinisherDone
  BY <1>17 DEF FinisherDone
<1>18. CASE FinisherDropped
  BY <1>18 DEF FinisherDropped
<1>19. CASE OpenStream
  BY <1>19 DEF OpenStream
<1>20. CASE Pull
  BY <1>20 DEF Pull
<1>21. CASE Pause
  BY <1>21 DEF Pause
<1>22. CASE IdleLapse
  BY <1>22 DEF IdleLapse, Killed
<1>23. CASE StreamEnd
  BY <1>23 DEF StreamEnd
<1>24. CASE Probe
  BY <1>24 DEF Probe
<1>25. CASE JointLock
  BY <1>25 DEF JointLock
<1>26. CASE JointTake
  BY <1>26 DEF JointTake
<1>27. CASE JointSpawn
  BY <1>27 DEF JointSpawn
<1>28. CASE DropFinish
  BY <1>28 DEF DropFinish, Unused
<1>29. CASE DropProcess
  BY <1>29 DEF DropProcess
<1>30. CASE UNCHANGED vars
  BY <1>30 DEF vars
<1>31. ASSUME NEW t \in Callers, Await(t) PROVE Exclusive'
  BY <1>31 DEF Await
<1> QED
  BY <1>1, <1>2, <1>3, <1>4, <1>5, <1>6, <1>7, <1>8, <1>9, <1>10, <1>11, <1>12,
     <1>13, <1>14, <1>15, <1>16, <1>17, <1>18, <1>19, <1>20, <1>21, <1>22, <1>23,
     <1>24, <1>25, <1>26, <1>27, <1>28, <1>29, <1>30, <1>31, NextCases

\* Reaping is for good, and so is the end of a tree.
LEMMA TruthStep ==
  ASSUME TypeOK, Ledger, Reaped, Truth, [Next]_vars PROVE Truth'
<1> USE DEF TypeOK, StreamStates, InFlight, Claiming, Waiting, Verbs, Drains, Kills,
           Ledger, Reaped, Truth, TruthfulOutcome
<1>1. CASE ChildExits
  BY <1>1 DEF ChildExits
<1>2. CASE PipeCloses
  BY <1>2 DEF PipeCloses
<1>3. CASE Kill
  BY <1>3 DEF Kill, Killed
<1>4. ASSUME NEW t \in Callers, NEW v \in Verbs, Call(t, v) PROVE Truth'
  BY <1>4 DEF Call
<1>5. ASSUME NEW t \in Callers, CheckUncaptured(t) PROVE Truth'
  BY <1>5 DEF CheckUncaptured, Return
<1>6. ASSUME NEW t \in Callers, ClaimJoint(t) PROVE Truth'
  BY <1>6 DEF ClaimJoint, TakeJoint
<1>7. ASSUME NEW t \in Callers, ClaimProcess(t) PROVE Truth'
  BY <1>7 DEF ClaimProcess, Return
<1>8. ASSUME NEW t \in Callers, Recheck(t) PROVE Truth'
  BY <1>8 DEF Recheck, TakeJoint, Return
<1>9. ASSUME NEW t \in Callers, KillFirst(t) PROVE Truth'
  BY <1>9 DEF KillFirst, Driven, Killed
<1>10. ASSUME NEW t \in Callers, ReapProcess(t) PROVE Truth'
  BY <1>10 DEF ReapProcess, Driven
<1>11. ASSUME NEW t \in Callers, EndProcess(t) PROVE Truth'
  BY <1>11 DEF EndProcess, Driven, Return, Done
<1>12. ASSUME NEW t \in Callers, FailProcess(t) PROVE Truth'
  BY <1>12 DEF FailProcess, Driven, Return
<1>13. ASSUME NEW t \in Callers, AbortJoint(t) PROVE Truth'
  BY <1>13 DEF AbortJoint, Driven
<1>14. ASSUME NEW t \in Callers, EndJoint(t) PROVE Truth'
  BY <1>14 DEF EndJoint, Driven, Return, Joined
<1>15. ASSUME NEW t \in Callers, Interrupt(t) PROVE Truth'
  BY <1>15 DEF Interrupt, Return
<1>16. CASE FinisherReaps
  BY <1>16 DEF FinisherReaps
<1>17. CASE FinisherDone
  BY <1>17 DEF FinisherDone
<1>18. CASE FinisherDropped
  BY <1>18 DEF FinisherDropped
<1>19. CASE OpenStream
  BY <1>19 DEF OpenStream
<1>20. CASE Pull
  BY <1>20 DEF Pull
<1>21. CASE Pause
  BY <1>21 DEF Pause
<1>22. CASE IdleLapse
  BY <1>22 DEF IdleLapse, Killed
<1>23. CASE StreamEnd
  BY <1>23 DEF StreamEnd
<1>24. CASE Probe
  BY <1>24 DEF Probe
<1>25. CASE JointLock
  BY <1>25 DEF JointLock
<1>26. CASE JointTake
  BY <1>26 DEF JointTake
<1>27. CASE JointSpawn
  BY <1>27 DEF JointSpawn
<1>28. CASE DropFinish
  BY <1>28 DEF DropFinish, Unused
<1>29. CASE DropProcess
  BY <1>29 DEF DropProcess
<1>30. CASE UNCHANGED vars
  BY <1>30 DEF vars
<1>31. ASSUME NEW t \in Callers, Await(t) PROVE Truth'
  BY <1>31 DEF Await
<1> QED
  BY <1>1, <1>2, <1>3, <1>4, <1>5, <1>6, <1>7, <1>8, <1>9, <1>10, <1>11, <1>12,
     <1>13, <1>14, <1>15, <1>16, <1>17, <1>18, <1>19, <1>20, <1>21, <1>22, <1>23,
     <1>24, <1>25, <1>26, <1>27, <1>28, <1>29, <1>30, <1>31, NextCases

\* The process does not come back to the slot.
LEMMA DriveStep ==
  ASSUME TypeOK, Ownership, DriveAsksOn, [Next]_vars PROVE DriveAsksOn'
<1> USE DEF TypeOK, StreamStates, InFlight, Claiming, Waiting, Ownership, DriveAsksOn
<1>1. CASE ChildExits
  BY <1>1 DEF ChildExits
<1>2. CASE PipeCloses
  BY <1>2 DEF PipeCloses
<1>3. CASE Kill
  BY <1>3 DEF Kill, Killed
<1>4. ASSUME NEW t \in Callers, NEW v \in Verbs, Call(t, v) PROVE DriveAsksOn'
  BY <1>4 DEF Call
<1>5. ASSUME NEW t \in Callers, CheckUncaptured(t) PROVE DriveAsksOn'
  BY <1>5 DEF CheckUncaptured, Return
<1>6. ASSUME NEW t \in Callers, ClaimJoint(t) PROVE DriveAsksOn'
  BY <1>6 DEF ClaimJoint, TakeJoint
<1>7. ASSUME NEW t \in Callers, ClaimProcess(t) PROVE DriveAsksOn'
  BY <1>7 DEF ClaimProcess, Return
<1>8. ASSUME NEW t \in Callers, Recheck(t) PROVE DriveAsksOn'
  BY <1>8 DEF Recheck, TakeJoint, Return
<1>9. ASSUME NEW t \in Callers, KillFirst(t) PROVE DriveAsksOn'
  BY <1>9 DEF KillFirst, Driven, Killed
<1>10. ASSUME NEW t \in Callers, ReapProcess(t) PROVE DriveAsksOn'
  BY <1>10 DEF ReapProcess, Driven
<1>11. ASSUME NEW t \in Callers, EndProcess(t) PROVE DriveAsksOn'
  BY <1>11 DEF EndProcess, Driven, Return, Done
<1>12. ASSUME NEW t \in Callers, FailProcess(t) PROVE DriveAsksOn'
  BY <1>12 DEF FailProcess, Driven, Return
<1>13. ASSUME NEW t \in Callers, AbortJoint(t) PROVE DriveAsksOn'
  BY <1>13 DEF AbortJoint, Driven
<1>14. ASSUME NEW t \in Callers, EndJoint(t) PROVE DriveAsksOn'
  BY <1>14 DEF EndJoint, Driven, Return, Joined
<1>15. ASSUME NEW t \in Callers, Interrupt(t) PROVE DriveAsksOn'
  BY <1>15 DEF Interrupt, Return
<1>16. CASE FinisherReaps
  BY <1>16 DEF FinisherReaps
<1>17. CASE FinisherDone
  BY <1>17 DEF FinisherDone
<1>18. CASE FinisherDropped
  BY <1>18 DEF FinisherDropped
<1>19. CASE OpenStream
  BY <1>19 DEF OpenStream
<1>20. CASE Pull
  BY <1>20 DEF Pull
<1>21. CASE Pause
  BY <1>21 DEF Pause
<1>22. CASE IdleLapse
  BY <1>22 DEF IdleLapse, Killed
<1>23. CASE StreamEnd
  BY <1>23 DEF StreamEnd
<1>24. CASE Probe
  BY <1>24 DEF Probe
<1>25. CASE JointLock
  BY <1>25 DEF JointLock
<1>26. CASE JointTake
  BY <1>26 DEF JointTake
<1>27. CASE JointSpawn
  BY <1>27 DEF JointSpawn
<1>28. CASE DropFinish
  BY <1>28 DEF DropFinish, Unused
<1>29. CASE DropProcess
  BY <1>29 DEF DropProcess
<1>30. CASE UNCHANGED vars
  BY <1>30 DEF vars
<1>31. ASSUME NEW t \in Callers, Await(t) PROVE DriveAsksOn'
  BY <1>31 DEF Await
<1> QED
  BY <1>1, <1>2, <1>3, <1>4, <1>5, <1>6, <1>7, <1>8, <1>9, <1>10, <1>11, <1>12,
     <1>13, <1>14, <1>15, <1>16, <1>17, <1>18, <1>19, <1>20, <1>21, <1>22, <1>23,
     <1>24, <1>25, <1>26, <1>27, <1>28, <1>29, <1>30, <1>31, NextCases

-----------------------------------------------------------------------------
(* The run that one caller takes: every step of the detailed specification  *)
(* is a step of ClaimedRun, or none.                                       *)

\* What the callers see of a step that is not theirs: nothing.
LEMMA Unseen ==
  ASSUME UNCHANGED <<handle, verb, pc, answer>> PROVE UNCHANGED Abstract!vars
<1>1. UNCHANGED AbstractRun
  BY DEF AbstractRun, Claimed
<1>2. UNCHANGED CallersHold
  BY DEF CallersHold
<1>3. UNCHANGED AbstractTold
  BY DEF AbstractTold, Declined
<1> QED BY <1>1, <1>2, <1>3 DEF Abstract!vars

\* A caller that makes a call, or that moves without claiming and without an
\* answer, is unseen too.
LEMMA UnseenMove ==
  ASSUME TypeOK, NEW t \in Callers, answer[t] = "none", pc[t] \notin Waiting,
         NEW w \in Claiming, pc' = [pc EXCEPT ![t] = w],
         \A c \in Callers \ {t} : verb'[c] = verb[c],
         UNCHANGED <<handle, answer>>
  PROVE  UNCHANGED Abstract!vars
<1>1. \A c \in Callers : Claimed(c)' <=> Claimed(c)
  BY DEF TypeOK, Claimed, Claiming, Waiting
<1>2. UNCHANGED AbstractRun
  BY <1>1 DEF AbstractRun
<1>3. UNCHANGED CallersHold
  BY DEF CallersHold, TypeOK, Claiming, Waiting
<1>4. \A c \in Callers : Declined(c)' <=> Declined(c)
  BY DEF TypeOK, Declined
<1>5. UNCHANGED AbstractTold
  BY <1>4 DEF AbstractTold
<1> QED BY <1>2, <1>3, <1>5 DEF Abstract!vars

\* Claiming what was unclaimed takes the run.
LEMMA ClaimTakes ==
  ASSUME TypeOK, NEW t \in Callers, NEW w \in Waiting, Unclaimed, handle = "held",
         answer[t] = "none", pc' = [pc EXCEPT ![t] = w],
         UNCHANGED <<handle, verb, answer>>
  PROVE  Abstract!Next
<1>1. AbstractRun = "there"
  BY DEF Unclaimed, SomeoneClaimed, AbstractRun
<1>2. Claimed(t)'
  BY DEF Claimed, TypeOK
<1>3. AbstractRun' = "taken"
  BY <1>2 DEF AbstractRun
<1>4. \A c \in Callers : pc[c] \notin Waiting
  BY DEF Unclaimed, SomeoneClaimed, Claimed
<1>5. CallersHold' = {t}
  BY <1>4 DEF CallersHold, TypeOK
<1>6. AbstractTold[t] = "nothing"
  BY DEF AbstractTold, Declined
<1>7. UNCHANGED AbstractTold
  BY DEF AbstractTold, Declined
<1>8. Abstract!Take(t)
  BY <1>1, <1>3, <1>5, <1>6, <1>7 DEF Abstract!Take
<1> QED BY <1>8 DEF Abstract!Next

\* Answering the caller that has the run.
LEMMA ReturnAnswers ==
  ASSUME TypeOK, Ownership, Ledger, NEW t \in Callers, pc[t] \in Waiting,
         NEW a \in {"outcome", "closed", "failed", "cancelled"}, Return(t, a),
         UNCHANGED <<handle, verb>>
  PROVE  Abstract!Next
<1>1. answer[t] = "none"
  BY DEF Ledger, Waiting
<1>2. CallersHold = {t}
  BY DEF CallersHold, Ownership, InCall
<1>3. CallersHold' = {}
  BY <1>2 DEF CallersHold, Return, TypeOK, Waiting
<1>4. \A c \in Callers : Claimed(c)' <=> Claimed(c)
  BY DEF Claimed, Return, TypeOK, Waiting
<1>5. UNCHANGED AbstractRun
  BY <1>4 DEF AbstractRun
<1>6. AbstractTold[t] = "nothing"
  BY <1>1 DEF AbstractTold, Declined
<1>7. \A c \in Callers : Declined(c)' <=> Declined(c)
  BY <1>1 DEF Declined, Return, TypeOK
<1>8. AbstractTold' = [AbstractTold EXCEPT ![t] = a]
  BY <1>1, <1>7 DEF AbstractTold, Return, TypeOK, Declined
<1>9. Abstract!Answer(t)
  BY <1>2, <1>3, <1>5, <1>6, <1>8 DEF Abstract!Answer, Abstract!Answers
<1> QED BY <1>9 DEF Abstract!Next

\* Sending away a caller that has not got the run.
LEMMA ReturnRefuses ==
  ASSUME TypeOK, NEW t \in Callers, pc[t] \in Claiming, answer[t] = "none",
         NEW a \in {"consumed", "streamed"}, Return(t, a), UNCHANGED <<handle, verb>>,
         a = "consumed" => verb[t] = "output" \/ SomeoneClaimed
  PROVE  Abstract!Next
<1>1. t \notin CallersHold
  BY DEF CallersHold, Claiming, Waiting
<1>2. UNCHANGED CallersHold
  BY DEF CallersHold, Return, TypeOK, Claiming, Waiting
<1>3. \A c \in Callers : Claimed(c)' <=> Claimed(c)
  BY DEF Claimed, Return, TypeOK, Claiming, Waiting
<1>4. UNCHANGED AbstractRun
  BY <1>3 DEF AbstractRun
<1>5. AbstractTold[t] = "nothing"
  BY DEF AbstractTold, Declined
<1>6. \A c \in Callers \ {t} : Declined(c)' <=> Declined(c)
  BY DEF Declined, Return, TypeOK
<1>7. answer'[t] = a
  BY DEF Return, TypeOK
<1>8. CASE a = "streamed" \/ verb[t] = "output"
  <2>1. Declined(t)'
    BY <1>7, <1>8 DEF Declined
  <2>2. AbstractTold' = [AbstractTold EXCEPT ![t] = "declined"]
    BY <1>6, <2>1 DEF AbstractTold, Return, TypeOK
  <2> QED BY <1>1, <1>2, <1>4, <1>5, <2>2 DEF Abstract!Next, Abstract!Decline
<1>9. CASE a = "consumed" /\ verb[t] # "output"
  <2>1. ~Declined(t)'
    BY <1>7, <1>9 DEF Declined
  <2>2. AbstractTold' = [AbstractTold EXCEPT ![t] = "consumed"]
    BY <1>6, <1>7, <1>9, <2>1 DEF AbstractTold, Return, TypeOK
  <2>3. AbstractRun = "taken"
    BY <1>9 DEF SomeoneClaimed, AbstractRun
  <2> QED BY <1>1, <1>2, <1>4, <1>5, <2>2, <2>3 DEF Abstract!Next, Abstract!Refuse
<1> QED BY <1>8, <1>9

\* Every step is one of the abstract steps, or none of them.
LEMMA StepImplements ==
  ASSUME TypeOK, Ownership, Ledger, Exclusive, [Next]_vars
  PROVE  Abstract!Next \/ UNCHANGED Abstract!vars
<1> USE Unseen
<1>1. CASE ChildExits
  BY <1>1 DEF ChildExits
<1>2. CASE PipeCloses
  BY <1>2 DEF PipeCloses
<1>3. CASE Kill
  BY <1>3 DEF Kill, Killed
<1>4. ASSUME NEW t \in Callers, NEW v \in Verbs, Call(t, v) PROVE Abstract!Next \/ UNCHANGED Abstract!vars
  <2>1. answer[t] = "none"
    BY <1>4 DEF Call, Ledger
  <2>2. UNCHANGED Abstract!vars
    BY <1>4, <2>1, UnseenMove DEF Call, TypeOK, Claiming, Waiting
  <2> QED BY <2>2
<1>5. ASSUME NEW t \in Callers, CheckUncaptured(t) PROVE Abstract!Next \/ UNCHANGED Abstract!vars
  <2>1. answer[t] = "none" /\ pc[t] \in Claiming
    BY <1>5 DEF CheckUncaptured, Ledger, Claiming
  <2>2. CASE finish = "NotStarted"
    BY <1>5, <2>1, <2>2, UnseenMove DEF CheckUncaptured, Claiming, Waiting
  <2>3. CASE finish # "NotStarted"
    BY <1>5, <2>1, <2>3, ReturnRefuses DEF CheckUncaptured
  <2> QED BY <2>2, <2>3
<1>6. ASSUME NEW t \in Callers, ClaimJoint(t) PROVE Abstract!Next \/ UNCHANGED Abstract!vars
  <2>1. answer[t] = "none" /\ pc[t] \in Claiming /\ handle = "held"
    BY <1>6 DEF ClaimJoint, Ledger, Claiming
  <2>2. CASE TakeJoint(t)
    BY <1>6, <2>1, <2>2, ClaimTakes DEF ClaimJoint, TakeJoint, Exclusive, Waiting
  <2>3. CASE finish # "Running"
    BY <1>6, <2>1, <2>3, UnseenMove DEF ClaimJoint, TakeJoint, Claiming, Waiting
  <2> QED BY <1>6, <2>2, <2>3 DEF ClaimJoint
<1>7. ASSUME NEW t \in Callers, ClaimProcess(t) PROVE Abstract!Next \/ UNCHANGED Abstract!vars
  <2>1. answer[t] = "none" /\ pc[t] \in Claiming /\ handle = "held"
    BY <1>7 DEF ClaimProcess, Ledger, Claiming
  <2>2. CASE slot
    BY <1>7, <2>1, <2>2, ClaimTakes DEF ClaimProcess, Exclusive, Waiting
  <2>3. CASE ~slot /\ verb[t] # "output"
    BY <1>7, <2>1, <2>3, UnseenMove DEF ClaimProcess, Claiming, Waiting
  <2>4. CASE ~slot /\ verb[t] = "output"
    BY <1>7, <2>1, <2>4, ReturnRefuses DEF ClaimProcess
  <2> QED BY <2>2, <2>3, <2>4
<1>8. ASSUME NEW t \in Callers, Recheck(t) PROVE Abstract!Next \/ UNCHANGED Abstract!vars
  <2>1. answer[t] = "none" /\ pc[t] \in Claiming /\ handle = "held" /\ ~slot
    BY <1>8 DEF Recheck, Ledger, Claiming
  <2>2. CASE TakeJoint(t)
    BY <1>8, <2>1, <2>2, ClaimTakes DEF Recheck, TakeJoint, Exclusive, Waiting
  <2>3. CASE finish # "Running"
    <3>1. SomeoneClaimed
      BY <1>8, <2>1, <2>3 DEF Recheck, FinishUnlocked, Ledger, TypeOK
    <3> QED BY <1>8, <2>1, <2>3, <3>1, ReturnRefuses DEF Recheck, TakeJoint
  <2> QED BY <1>8, <2>2, <2>3 DEF Recheck
<1>9. ASSUME NEW t \in Callers, KillFirst(t) PROVE Abstract!Next \/ UNCHANGED Abstract!vars
  BY <1>9 DEF KillFirst, Driven, Killed
<1>10. ASSUME NEW t \in Callers, ReapProcess(t) PROVE Abstract!Next \/ UNCHANGED Abstract!vars
  BY <1>10 DEF ReapProcess, Driven
<1>11. ASSUME NEW t \in Callers, EndProcess(t) PROVE Abstract!Next \/ UNCHANGED Abstract!vars
  <2>1. Done(t) \in {"outcome", "closed", "failed", "cancelled"}
    BY DEF Done
  <2> QED BY <1>11, <2>1, ReturnAnswers DEF EndProcess, Driven, Waiting
<1>12. ASSUME NEW t \in Callers, FailProcess(t) PROVE Abstract!Next \/ UNCHANGED Abstract!vars
  BY <1>12, ReturnAnswers DEF FailProcess, Driven, Waiting
<1>13. ASSUME NEW t \in Callers, AbortJoint(t) PROVE Abstract!Next \/ UNCHANGED Abstract!vars
  BY <1>13 DEF AbortJoint, Driven
<1>14. ASSUME NEW t \in Callers, EndJoint(t) PROVE Abstract!Next \/ UNCHANGED Abstract!vars
  BY <1>14, ReturnAnswers DEF EndJoint, Driven, Waiting
<1>15. ASSUME NEW t \in Callers, Interrupt(t) PROVE Abstract!Next \/ UNCHANGED Abstract!vars
  BY <1>15, ReturnAnswers DEF Interrupt, Waiting
<1>16. CASE FinisherReaps
  BY <1>16 DEF FinisherReaps
<1>17. CASE FinisherDone
  BY <1>17 DEF FinisherDone
<1>18. CASE FinisherDropped
  BY <1>18 DEF FinisherDropped
<1>19. CASE OpenStream
  BY <1>19 DEF OpenStream
<1>20. CASE Pull
  BY <1>20 DEF Pull
<1>21. CASE Pause
  BY <1>21 DEF Pause
<1>22. CASE IdleLapse
  BY <1>22 DEF IdleLapse, Killed
<1>23. CASE StreamEnd
  BY <1>23 DEF StreamEnd
<1>24. CASE Probe
  BY <1>24 DEF Probe
<1>25. CASE JointLock
  BY <1>25 DEF JointLock
<1>26. CASE JointTake
  BY <1>26 DEF JointTake
<1>27. CASE JointSpawn
  BY <1>27 DEF JointSpawn
<1>28. CASE DropFinish
  <2>1. UNCHANGED CallersHold /\ UNCHANGED AbstractTold
    BY <1>28 DEF DropFinish, CallersHold, AbstractTold, Declined
  <2>2. \A c \in Callers : Claimed(c)' <=> Claimed(c)
    BY <1>28 DEF DropFinish, Claimed
  <2>3. CASE SomeoneClaimed
    BY <2>1, <2>2, <2>3 DEF SomeoneClaimed, AbstractRun, Abstract!vars
  <2>4. CASE ~SomeoneClaimed
    <3>1. AbstractRun = "there" /\ AbstractRun' = "lost"
      BY <1>28, <2>2, <2>4 DEF DropFinish, SomeoneClaimed, AbstractRun
    <3> QED BY <2>1, <3>1 DEF Abstract!Next, Abstract!Lose
  <2> QED BY <2>3, <2>4
<1>29. CASE DropProcess
  <2>1. UNCHANGED CallersHold /\ UNCHANGED AbstractTold
    BY <1>29 DEF DropProcess, CallersHold, AbstractTold, Declined
  <2>2. UNCHANGED AbstractRun
    BY <1>29 DEF DropProcess, AbstractRun, Claimed
  <2> QED BY <2>1, <2>2 DEF Abstract!vars
<1>30. CASE UNCHANGED vars
  BY <1>30 DEF vars
<1>31. ASSUME NEW t \in Callers, Await(t) PROVE Abstract!Next \/ UNCHANGED Abstract!vars
  BY <1>31 DEF Await
<1> QED
  BY <1>1, <1>2, <1>3, <1>4, <1>5, <1>6, <1>7, <1>8, <1>9, <1>10, <1>11, <1>12,
     <1>13, <1>14, <1>15, <1>16, <1>17, <1>18, <1>19, <1>20, <1>21, <1>22, <1>23,
     <1>24, <1>25, <1>26, <1>27, <1>28, <1>29, <1>30, <1>31, NextCases

-----------------------------------------------------------------------------
(* The theorems.                                                           *)

\* The invariant holds initially ...
LEMMA InvInit == Init => IInv
  BY DEF Init, IInv, Ownership, InCall, Waiting, Claiming, Ledger, Reaped,
         ClosedMeansGone, Reports, DropSparesReport

\* ... and every step keeps it.
LEMMA InvStep == TypeOK /\ IInv /\ [Next]_vars => IInv'
  BY OwnershipStep, LedgerStep, ReapedStep, ReportsStep DEF IInv

\* The invariant the results below follow from.
THEOREM Inductive == Spec => []IInv
<1> QED BY InvInit, InvStep, TypeCorrect, PTL DEF Spec

\* The run has one owner at a time, however a consuming verb, a second one, the
\* event drive and the handle's Drop interleave.
THEOREM OneOwnerHolds == Spec => []OneOwner
<1>1. IInv => OneOwner
  BY DEF IInv, Ownership, InCall, OneOwner, Claims, SlotHolds, DriveHolds, FinishHolds,
         CallersHold, Waiting
<1> QED BY <1>1, Inductive, PTL

\* No reporting verb and no exit finds the handle consumed by the binding's own
\* event drive.
THEOREM NeverFalselyConsumedHolds == Spec => []NeverFalselyConsumed
<1>1. IInv => NeverFalselyConsumed
  BY DEF IInv, Ledger, SomeoneClaimed, Claimed, NeverFalselyConsumed, Waiting, Claiming
<1> QED BY <1>1, Inductive, PTL

\* A `with` block that took the run is left with its tree gone.
THEOREM ClosedMeansGoneHolds == Spec => []ClosedMeansGone
<1>1. IInv => ClosedMeansGone
  BY DEF IInv, Reaped
<1> QED BY <1>1, Inductive, PTL

\* No verb that awaits the finisher is answered by an abort.
THEOREM DropSparesReportHolds == Spec => []DropSparesReport
<1>1. IInv => DropSparesReport
  BY DEF IInv, Reports
<1> QED BY <1>1, Inductive, PTL

\* Streaming leaves the live process in the handle.
THEOREM LiveHandleHolds == Spec => []LiveHandle
<1>1. TypeOK /\ IInv => LiveHandle
  BY DEF TypeOK, IInv, Ledger, Reaped, SomeoneClaimed, LiveHandle
<1> QED BY <1>1, TypeCorrect, Inductive, PTL

\* Where no waiting call is interrupted and the handle outlives the reads of its
\* stream, a running finisher can always be ended through the handle or by the
\* caller that awaits it.
THEOREM NoOrphanHolds ==
  ASSUME Hazards = {} PROVE Spec => []NoOrphan
<1>1. Init => Reachable
  BY DEF Init, Reachable
<1>2. TypeOK /\ IInv /\ Reachable /\ [Next]_vars => Reachable'
  BY ReachableStep DEF IInv
<1>3. Reachable => NoOrphan
  BY DEF Reachable, JointAwaited, NoOrphan
<1> QED BY <1>1, <1>2, <1>3, TypeCorrect, Inductive, PTL DEF Spec

\* However claims, refusals and the event drive interleave, and whoever is
\* interrupted, no two callers ever have the run, not even one after the other;
\* and whoever has had it, it is in none of the places it could be had from.
THEOREM ExclusiveHolds == Spec => []Exclusive
<1>1. Init => Exclusive
  BY DEF Init, Exclusive, ClaimedOnce, Unclaimed, SomeoneClaimed, Claimed, Waiting
<1>2. TypeOK /\ IInv /\ Exclusive /\ [Next]_vars => Exclusive'
  BY ExclusiveStep DEF IInv
<1> QED BY <1>1, <1>2, TypeCorrect, Inductive, PTL DEF Spec

\* No caller reports an outcome before the child has been reaped, and none whose
\* verb drains the output before its tree has ended.
THEOREM TruthfulOutcomeHolds == Spec => []TruthfulOutcome
<1>1. Init => Truth
  BY DEF Init, Truth, TruthfulOutcome
<1>2. TypeOK /\ IInv /\ Truth /\ [Next]_vars => Truth'
  BY TruthStep DEF IInv
<1>3. Truth => TruthfulOutcome
  BY DEF Truth
<1> QED BY <1>1, <1>2, <1>3, TypeCorrect, Inductive, PTL DEF Spec

\* The safety half of StreamEnds: an event drive that has stopped asking whether
\* the child has exited has not left a process in the handle for nobody to reap.
THEOREM DriveAsksOnHolds == Spec => []DriveAsksOn
<1>1. Init => DriveAsksOn
  BY DEF Init, DriveAsksOn
<1>2. TypeOK /\ IInv /\ DriveAsksOn /\ [Next]_vars => DriveAsksOn'
  BY DriveStep DEF IInv
<1> QED BY <1>1, <1>2, TypeCorrect, Inductive, PTL DEF Spec

\* The callers, the event drive with its finisher, and the handle's Drop together
\* behave like one run that a single caller takes and is answered for, once;
\* every other is sent away, and told that it is consumed only when it is.
THEOREM Implements == Spec => ImplementsClaimedRun
<1>1. Init => Abstract!Init
  <2> SUFFICES ASSUME Init PROVE Abstract!Init
    OBVIOUS
  <2>1. AbstractRun = "there" /\ CallersHold = {}
    BY DEF Init, AbstractRun, CallersHold, Claimed, Waiting
  <2>2. AbstractTold = [t \in Callers |-> "nothing"]
    BY DEF Init, AbstractTold, Declined
  <2> QED BY <2>1, <2>2 DEF Abstract!Init
<1>2. TypeOK /\ IInv /\ Exclusive /\ [Next]_vars => [Abstract!Next]_(Abstract!vars)
  BY StepImplements DEF IInv
<1>3. Spec => []Exclusive
  BY ExclusiveHolds
<1> QED
  BY <1>1, <1>2, <1>3, TypeCorrect, Inductive, PTL
  DEF Spec, ImplementsClaimedRun, Abstract!Spec

=============================================================================
