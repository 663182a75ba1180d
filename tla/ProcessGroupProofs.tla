------------------------- MODULE ProcessGroupProofs -------------------------
(***************************************************************************)
(* Theorems about ProcessGroup, for any set of calls and of teardowns.     *)
(***************************************************************************)
EXTENDS ProcessGroup, TLAPS

(***************************************************************************)
(* The inductive invariant.  NothingOutlives and LimitsAlone are inductive *)
(* as they stand.  TeardownReaps needs that a child which was up when the  *)
(* group was taken is not spawned again: a call spawns at most once, and   *)
(* has no child before it does.                                            *)
(***************************************************************************)
SpawnsOnce ==
  /\ \A o \in Ops : op[o] \in {"idle", "holding"} => member[o] = "none"
  /\ \A t \in Teardowns : \A o \in before[t] : member[o] # "none"

IInv == SpawnsOnce /\ NothingOutlives /\ TeardownReaps /\ LimitsAlone

USE DEF opVars, teardownVars

-----------------------------------------------------------------------------
(* Types.                                                                  *)

\* Killing members, or keeping them while there is a reference, leaves each
\* call with at most one child.
LEMMA KeepType ==
  ASSUME NEW m \in [Ops -> {"none", "up", "gone"}]
  PROVE  /\ Gone(m) \in [Ops -> {"none", "up", "gone"}]
         /\ Keep(m) \in [Ops -> {"none", "up", "gone"}]
BY DEF Gone, Keep

\* A step keeps the types.
LEMMA TypeStep ==
  ASSUME TypeOK, [Next]_vars
  PROVE  TypeOK'
<1> USE DEF TypeOK, Kinds, Holding, InTeardown, End
<1>1. ASSUME NEW o \in Ops, Call(o) PROVE TypeOK'
  BY <1>1 DEF Call
<1>2. ASSUME NEW o \in Ops, LockLimits(o) PROVE TypeOK'
  BY <1>2 DEF LockLimits
<1>3. ASSUME NEW o \in Ops, Spawn(o) PROVE TypeOK'
  <2>1. member' \in [Ops -> {"none", "up", "gone"}]
    BY <1>3, KeepType DEF Spawn
  <2>2. op' \in [Ops -> Holding \union {"idle", "updating", "ended"}]
    BY <1>3 DEF Spawn
  <2> QED BY <1>3, <2>1, <2>2 DEF Spawn
<1>4. ASSUME NEW o \in Ops, StopSignals(o) PROVE TypeOK'
  BY <1>4 DEF StopSignals
<1>5. ASSUME NEW o \in Ops, MemberEnds(o) PROVE TypeOK'
  BY <1>5 DEF MemberEnds
<1>6. ASSUME NEW o \in Ops, Abandon(o) PROVE TypeOK'
  <2>1. member' \in [Ops -> {"none", "up", "gone"}]
    BY <1>6, KeepType DEF Abandon
  <2> QED BY <1>6, <2>1 DEF Abandon
<1>7. ASSUME NEW o \in Ops, OpEnds(o) PROVE TypeOK'
  <2>1. member' \in [Ops -> {"none", "up", "gone"}]
    BY <1>7, KeepType DEF OpEnds, EndCapture, EndStop, UnlockLimits
  <2> QED BY <1>7, <2>1 DEF OpEnds, EndCapture, EndStop, UnlockLimits
<1>8. ASSUME NEW t \in Teardowns, Take(t) PROVE TypeOK'
  BY <1>8 DEF Take
<1>9. ASSUME NEW t \in Teardowns, TeardownStep(t) PROVE TypeOK'
  <2>1. member' \in [Ops -> {"none", "up", "gone"}]
    BY <1>9, KeepType DEF TeardownStep, Shutdown, EndShutdown
  <2> QED BY <1>9, <2>1 DEF TeardownStep, Shutdown, EndShutdown
<1>10. ASSUME NEW t \in Teardowns, Interrupt(t) PROVE TypeOK'
  <2>1. member' \in [Ops -> {"none", "up", "gone"}]
    BY <1>10, KeepType DEF Interrupt
  <2> QED BY <1>10, <2>1 DEF Interrupt
<1>11. CASE Collect
  <2>1. member' \in [Ops -> {"none", "up", "gone"}]
    BY <1>11, KeepType DEF Collect
  <2> QED BY <1>11, <2>1 DEF Collect
<1>12. CASE UNCHANGED vars
  BY <1>12 DEF vars
<1> QED
  BY <1>1, <1>2, <1>3, <1>4, <1>5, <1>6, <1>7, <1>8, <1>9, <1>10, <1>11, <1>12
  DEF Next

\* Every variable of the group object and of its calls keeps its type.
THEOREM TypeCorrect == Spec => []TypeOK
<1>1. Init => TypeOK
  BY DEF Init, TypeOK, Kinds, Holding, InTeardown
<1> QED BY <1>1, TypeStep, PTL DEF Spec

-----------------------------------------------------------------------------
(* Spawning.                                                               *)

\* A call's child is spawned by that call's own Spawn, and only there.
LEMMA NoResurrection ==
  ASSUME TypeOK, Next, NEW o \in Ops, member'[o] = "up"
  PROVE  member[o] = "up" \/ (op[o] = "holding" /\ op'[o] # "holding")
<1> USE DEF TypeOK, End, Keep, Gone
<1>1. ASSUME NEW p \in Ops, Spawn(p)
      PROVE  member[o] = "up" \/ (op[o] = "holding" /\ op'[o] # "holding")
  <2>1. CASE p = o
    BY <1>1, <2>1 DEF Spawn
  <2>2. CASE p # o
    BY <1>1, <2>2 DEF Spawn
  <2> QED BY <2>1, <2>2
<1>2. ASSUME NEW p \in Ops, Abandon(p) PROVE member[o] = "up"
  BY <1>2 DEF Abandon
<1>3. ASSUME NEW p \in Ops, OpEnds(p) PROVE member[o] = "up"
  BY <1>3 DEF OpEnds, EndCapture, EndStop, UnlockLimits
<1>4. ASSUME NEW t \in Teardowns, TeardownStep(t) \/ Interrupt(t) PROVE member[o] = "up"
  BY <1>4 DEF TeardownStep, Shutdown, EndShutdown, Interrupt
<1>5. CASE Collect
  BY <1>5 DEF Collect
<1>6. ASSUME NEW p \in Ops, Call(p) \/ LockLimits(p) \/ StopSignals(p) \/ MemberEnds(p)
      PROVE  member[o] = "up"
  BY <1>6 DEF Call, LockLimits, StopSignals, MemberEnds
<1>7. ASSUME NEW t \in Teardowns, Take(t) PROVE member[o] = "up"
  BY <1>7 DEF Take
<1> QED BY <1>1, <1>2, <1>3, <1>4, <1>5, <1>6, <1>7 DEF Next

\* A call has no child before it spawns it, and never gets a second one.
LEMMA SpawnsOnceStep ==
  ASSUME TypeOK, TypeOK', SpawnsOnce, [Next]_vars
  PROVE  SpawnsOnce'
<1> USE DEF SpawnsOnce, TypeOK, End, Keep, Gone
<1>1. ASSUME NEW p \in Ops, Spawn(p) PROVE SpawnsOnce'
  <2>1. ASSUME NEW o \in Ops
        PROVE  /\ op'[o] \in {"idle", "holding"} => member'[o] = "none"
               /\ member[o] # "none" => member'[o] # "none"
    <3>1. CASE o = p
      BY <1>1, <3>1 DEF Spawn
    <3>2. CASE o # p
      BY <1>1, <3>2 DEF Spawn
    <3> QED BY <3>1, <3>2
  <2> QED BY <1>1, <2>1 DEF Spawn
<1>2. ASSUME NEW p \in Ops, Abandon(p) PROVE SpawnsOnce'
  <2>1. ASSUME NEW o \in Ops
        PROVE  /\ op'[o] \in {"idle", "holding"} => member'[o] = "none"
               /\ member[o] # "none" => member'[o] # "none"
    BY <1>2 DEF Abandon
  <2> QED BY <1>2, <2>1 DEF Abandon
<1>3. ASSUME NEW p \in Ops, OpEnds(p) PROVE SpawnsOnce'
  BY <1>3 DEF OpEnds, EndCapture, EndStop, UnlockLimits
<1>4. ASSUME NEW t \in Teardowns, TeardownStep(t) \/ Interrupt(t) PROVE SpawnsOnce'
  BY <1>4 DEF TeardownStep, Shutdown, EndShutdown, Interrupt
<1>5. CASE Collect
  BY <1>5 DEF Collect
<1>6. ASSUME NEW p \in Ops, Call(p) \/ LockLimits(p) \/ StopSignals(p) \/ MemberEnds(p)
      PROVE  SpawnsOnce'
  BY <1>6 DEF Call, LockLimits, StopSignals, MemberEnds
<1>7. ASSUME NEW t \in Teardowns, Take(t) PROVE SpawnsOnce'
  BY <1>7 DEF Take
<1>8. CASE UNCHANGED vars
  BY <1>8 DEF vars
<1> QED BY <1>1, <1>2, <1>3, <1>4, <1>5, <1>6, <1>7, <1>8 DEF Next

-----------------------------------------------------------------------------
(* References.                                                             *)

\* Nobody gets a reference to a group that has none left.
LEMMA NoNewReference ==
  ASSUME TypeOK, Next, Referenced'
  PROVE  Referenced
<1> USE DEF Referenced, Clones, Takers, Holding, InTeardown, TypeOK, End
<1>1. ASSUME NEW o \in Ops, Call(o) \/ LockLimits(o) \/ Spawn(o) \/ StopSignals(o)
                            \/ MemberEnds(o) \/ Abandon(o) \/ OpEnds(o)
      PROVE  Referenced
  <2>1. inner' = inner /\ teardown' = teardown
    BY <1>1 DEF Call, LockLimits, Spawn, StopSignals, MemberEnds, Abandon, OpEnds,
                EndCapture, EndStop, UnlockLimits
  <2>2. ASSUME NEW p \in Ops, op'[p] \in Holding, ~inner PROVE op[p] \in Holding
    BY <1>1, <2>2 DEF Call, LockLimits, Spawn, StopSignals, MemberEnds, Abandon, OpEnds,
                      EndCapture, EndStop, UnlockLimits, Sole
  <2> QED BY <2>1, <2>2
<1>2. ASSUME NEW t \in Teardowns, Take(t) \/ TeardownStep(t) \/ Interrupt(t)
      PROVE  Referenced
  <2>1. op' = op /\ (inner' => inner)
    BY <1>2 DEF Take, TeardownStep, Shutdown, EndShutdown, Interrupt
  <2>2. ASSUME NEW u \in Teardowns, teardown'[u] \in InTeardown, ~inner
        PROVE  teardown[u] \in InTeardown
    BY <1>2, <2>2 DEF Take, TeardownStep, Shutdown, EndShutdown, Interrupt
  <2> QED BY <2>1, <2>2
<1>3. CASE Collect
  BY <1>3 DEF Collect
<1> QED BY <1>1, <1>2, <1>3 DEF Next

\* The last reference takes every child with it.
LEMMA NothingOutlivesStep ==
  ASSUME TypeOK, NothingOutlives, [Next]_vars
  PROVE  NothingOutlives'
<1>1. CASE UNCHANGED vars
  BY <1>1 DEF vars, NothingOutlives, Referenced, Clones, Takers
<1>2. CASE Next /\ ~Referenced
  <2>1. ~Referenced'
    BY <1>2, NoNewReference
  <2>2. \A o \in Ops : op[o] # "holding"
    BY <1>2 DEF Referenced, Clones, Holding
  <2> QED BY <1>2, <2>2, NoResurrection DEF NothingOutlives
<1>3. ASSUME Next, Referenced, ~Referenced', NEW o \in Ops PROVE member'[o] # "up"
  <2> USE DEF Clones, Takers, Holding, InTeardown, TypeOK, End
  <2>1. ASSUME NEW p \in Ops, Spawn(p) PROVE member'[o] # "up"
    BY <1>3, <2>1 DEF Spawn, Keep, Gone
  <2>2. ASSUME NEW p \in Ops, Abandon(p) PROVE member'[o] # "up"
    BY <1>3, <2>2 DEF Abandon, Keep, Gone
  <2>3. ASSUME NEW p \in Ops, EndCapture(p) \/ EndStop(p) PROVE member'[o] # "up"
    BY <1>3, <2>3 DEF EndCapture, EndStop, Keep, Gone
  <2>4. ASSUME NEW t \in Teardowns, EndShutdown(t) \/ Interrupt(t) PROVE member'[o] # "up"
    BY <1>3, <2>4 DEF EndShutdown, Interrupt, Keep, Gone
  <2>5. CASE Collect
    BY <1>3, <2>5 DEF Collect, Keep, Gone
  <2> USE DEF Referenced
  <2>6. ASSUME NEW p \in Ops, Call(p) \/ LockLimits(p) \/ UnlockLimits(p) \/ StopSignals(p)
                              \/ MemberEnds(p)
        PROVE  FALSE
    <3>1. inner' = inner /\ teardown' = teardown
      BY <2>6 DEF Call, LockLimits, UnlockLimits, StopSignals, MemberEnds
    <3>2. ASSUME NEW q \in Ops, op[q] \in Holding PROVE op'[q] \in Holding
      BY <2>6, <3>2 DEF Call, LockLimits, UnlockLimits, StopSignals, MemberEnds
    <3> QED BY <1>3, <3>1, <3>2
  <2>7. ASSUME NEW t \in Teardowns, Take(t) \/ Shutdown(t) PROVE FALSE
    <3>1. op' = op
      BY <2>7 DEF Take, Shutdown
    <3>2. ASSUME NEW u \in Teardowns, teardown[u] \in InTeardown
          PROVE  teardown'[u] \in InTeardown
      BY <2>7, <3>2 DEF Take, Shutdown
    <3>3. inner => inner' \/ teardown'[t] \in InTeardown
      BY <2>7 DEF Take, Shutdown
    <3> QED BY <1>3, <3>1, <3>2, <3>3
  <2> QED
    BY <1>3, <2>1, <2>2, <2>3, <2>4, <2>5, <2>6, <2>7 DEF Next, OpEnds, TeardownStep
<1>4. CASE Next /\ Referenced /\ Referenced'
  BY <1>4 DEF NothingOutlives
<1> QED BY <1>1, <1>2, <1>3, <1>4 DEF NothingOutlives

-----------------------------------------------------------------------------
(* Teardown and limits.                                                    *)

\* No step gives back a child that a teardown has taken down.
LEMMA TeardownReapsStep ==
  ASSUME TypeOK, SpawnsOnce, TeardownReaps, [Next]_vars
  PROVE  TeardownReaps'
<1>1. CASE UNCHANGED vars
  BY <1>1 DEF vars, TeardownReaps
<1>2. ASSUME Next, NEW t \in Teardowns, answer[t] = "reaped", answer' = answer,
             before' = before, NEW o \in before[t]
      PROVE  member'[o] # "up"
  <2>1. o \in Ops
    BY <1>2 DEF TypeOK
  <2>2. member[o] \notin {"none", "up"}
    BY <1>2 DEF SpawnsOnce, TeardownReaps
  <2> QED BY <1>2, <2>1, <2>2, NoResurrection DEF SpawnsOnce
<1>3. ASSUME NEW o \in Ops, Call(o) \/ LockLimits(o) \/ Spawn(o) \/ StopSignals(o)
                            \/ MemberEnds(o) \/ Abandon(o) \/ OpEnds(o)
      PROVE  TeardownReaps'
  <2>1. answer' = answer /\ before' = before
    BY <1>3 DEF Call, LockLimits, Spawn, StopSignals, MemberEnds, Abandon, OpEnds,
                EndCapture, EndStop, UnlockLimits
  <2>2. Next
    BY <1>3 DEF Next
  <2> QED BY <1>2, <2>1, <2>2 DEF TeardownReaps
<1>4. ASSUME NEW t \in Teardowns, Take(t) PROVE TeardownReaps'
  BY <1>4 DEF Take, TeardownReaps, TypeOK
<1>5. ASSUME NEW t \in Teardowns, Shutdown(t) PROVE TeardownReaps'
  BY <1>5 DEF Shutdown, TeardownReaps
<1>6. ASSUME NEW t \in Teardowns, EndShutdown(t) PROVE TeardownReaps'
  BY <1>6 DEF EndShutdown, TeardownReaps, Gone, TypeOK
<1>7. ASSUME NEW t \in Teardowns, Interrupt(t) PROVE TeardownReaps'
  BY <1>7 DEF Interrupt, TeardownReaps, Keep, Gone, TypeOK
<1>8. CASE Collect
  <2>1. Next /\ answer' = answer /\ before' = before
    BY <1>8 DEF Collect, Next
  <2> QED BY <1>2, <2>1 DEF TeardownReaps
<1> QED BY <1>1, <1>3, <1>4, <1>5, <1>6, <1>7, <1>8 DEF Next, TeardownStep

\* While limits change, the lock keeps everybody else out.
LEMMA LimitsAloneStep ==
  ASSUME TypeOK, LimitsAlone, [Next]_vars
  PROVE  LimitsAlone'
<1> USE DEF LimitsAlone, Unlocked, Sole, Clones, Takers, Holding, InTeardown, TypeOK, End
<1>1. ASSUME NEW o \in Ops, Call(o) PROVE LimitsAlone'
  BY <1>1 DEF Call
<1>2. ASSUME NEW o \in Ops, LockLimits(o) PROVE LimitsAlone'
  BY <1>2 DEF LockLimits
<1>3. ASSUME NEW o \in Ops, Spawn(o) \/ StopSignals(o) \/ Abandon(o) \/ EndCapture(o) \/ EndStop(o)
      PROVE  LimitsAlone'
  <2>1. o \in Clones
    BY <1>3 DEF Spawn, StopSignals, Abandon, EndCapture, EndStop
  <2>2. \A p \in Ops : op'[p] # "updating"
    BY <1>3, <2>1 DEF Spawn, StopSignals, Abandon, EndCapture, EndStop
  <2> QED BY <2>2
<1>4. ASSUME NEW o \in Ops, MemberEnds(o) \/ UnlockLimits(o) PROVE LimitsAlone'
  BY <1>4 DEF MemberEnds, UnlockLimits
<1>5. ASSUME NEW t \in Teardowns, Take(t) PROVE LimitsAlone'
  BY <1>5 DEF Take
<1>6. ASSUME NEW t \in Teardowns, TeardownStep(t) \/ Interrupt(t) PROVE LimitsAlone'
  BY <1>6 DEF TeardownStep, Shutdown, EndShutdown, Interrupt
<1>7. CASE Collect
  BY <1>7 DEF Collect
<1>8. CASE UNCHANGED vars
  BY <1>8 DEF vars
<1> QED BY <1>1, <1>2, <1>3, <1>4, <1>5, <1>6, <1>7, <1>8 DEF Next, OpEnds

-----------------------------------------------------------------------------
(* Who takes the group, and whom its end reaches.                          *)

\* A teardown that found the group in the slot and took it.
HasTaken(t) == teardown[t] \in InTeardown \/ answer[t] \in {"reaped", "cancelled"}

\* The group is taken once, by one teardown, and is then not in the slot.
TakenOnce ==
  /\ \A t \in Teardowns : HasTaken(t) => ~inner
  /\ \A t, u \in Teardowns : HasTaken(t) /\ HasTaken(u) => t = u

\* Once the teardown that took the group is over, also one that was cancelled
\* half-way, whatever is still up is up under a call that overlaps with it.
LeavesOnlyBusy ==
  \A t \in Teardowns : answer[t] \in {"reaped", "cancelled"} =>
    Clones # {} \/ \A o \in Ops : member[o] # "up"

\* The safety half of TeardownFreesCallers: a teardown that has returned keeps no
\* call waiting for a child that was there when it began.
CallersFreed ==
  \A t \in Teardowns : answer[t] = "reaped" =>
    \A o \in before[t] : op[o] = "running" => member[o] = "gone"

\* Answers come last.
Answered ==
  /\ \A t \in Teardowns : answer[t] # "none" => teardown[t] = "end"
  /\ \A o \in Ops : op[o] = "running" => member[o] # "none"

\* No step puts the group back, so a second teardown finds nothing.
LEMMA TakenOnceStep ==
  ASSUME TypeOK, TakenOnce, Answered, [Next]_vars
  PROVE  TakenOnce'
<1> USE DEF TakenOnce, HasTaken, Answered, InTeardown, TypeOK
<1>1. ASSUME NEW o \in Ops, Call(o) \/ LockLimits(o) \/ Spawn(o) \/ StopSignals(o)
                            \/ MemberEnds(o) \/ Abandon(o) \/ OpEnds(o)
      PROVE  TakenOnce'
  <2>1. UNCHANGED <<inner, teardown, answer>>
    BY <1>1 DEF Call, LockLimits, Spawn, StopSignals, MemberEnds, Abandon, OpEnds,
                EndCapture, EndStop, UnlockLimits
  <2> QED BY <2>1
<1>2. ASSUME NEW t \in Teardowns, Take(t) PROVE TakenOnce'
  BY <1>2 DEF Take
<1>3. ASSUME NEW t \in Teardowns, TeardownStep(t) \/ Interrupt(t) PROVE TakenOnce'
  BY <1>3 DEF TeardownStep, Shutdown, EndShutdown, Interrupt
<1>4. CASE Collect
  BY <1>4 DEF Collect
<1>5. CASE UNCHANGED vars
  BY <1>5 DEF vars
<1> QED BY <1>1, <1>2, <1>3, <1>4, <1>5 DEF Next

\* An answered teardown is over, and a call runs only with a child.
LEMMA AnsweredStep ==
  ASSUME TypeOK, Answered, [Next]_vars
  PROVE  Answered'
<1> USE DEF Answered, InTeardown, Holding, TypeOK, End, Keep, Gone
<1>1. ASSUME NEW o \in Ops, Call(o) \/ LockLimits(o) \/ StopSignals(o) \/ MemberEnds(o)
      PROVE  Answered'
  BY <1>1 DEF Call, LockLimits, StopSignals, MemberEnds
<1>2. ASSUME NEW o \in Ops, Spawn(o) PROVE Answered'
  <2>1. \A p \in Ops : op'[p] = "running" => member'[p] # "none"
    BY <1>2 DEF Spawn
  <2> QED BY <1>2, <2>1 DEF Spawn
<1>3. ASSUME NEW o \in Ops, Abandon(o) PROVE Answered'
  <2>1. \A p \in Ops : op'[p] = "running" => member'[p] # "none"
    BY <1>3 DEF Abandon
  <2> QED BY <1>3, <2>1 DEF Abandon
<1>4. ASSUME NEW o \in Ops, OpEnds(o) PROVE Answered'
  BY <1>4 DEF OpEnds, EndCapture, EndStop, UnlockLimits
<1>5. ASSUME NEW t \in Teardowns, Take(t) \/ TeardownStep(t) \/ Interrupt(t) PROVE Answered'
  BY <1>5 DEF Take, TeardownStep, Shutdown, EndShutdown, Interrupt
<1>6. CASE Collect
  BY <1>6 DEF Collect
<1>7. CASE UNCHANGED vars
  BY <1>7 DEF vars
<1> QED BY <1>1, <1>2, <1>3, <1>4, <1>5, <1>6, <1>7 DEF Next

-----------------------------------------------------------------------------

\* The invariant of the group: one spawn per call, kill-on-drop, teardowns that
\* reap and limits that change alone.
THEOREM Inductive == Spec => []IInv
<1>1. Init => IInv
  BY DEF Init, IInv, SpawnsOnce, NothingOutlives, TeardownReaps, LimitsAlone, Unlocked
<1>2. TypeOK /\ TypeOK' /\ IInv /\ [Next]_vars => IInv'
  BY SpawnsOnceStep, NothingOutlivesStep, TeardownReapsStep, LimitsAloneStep DEF IInv
<1> QED BY <1>1, <1>2, TypeCorrect, PTL DEF Spec

\* No child outlives the object and the calls that overlapped with its end.
THEOREM NothingOutlivesHolds == Spec => []NothingOutlives
<1>1. IInv => NothingOutlives
  BY DEF IInv
<1> QED BY <1>1, Inductive, PTL

\* A teardown that has returned has taken down what it found, whoever else
\* still holds the group.
THEOREM TeardownReapsHolds == Spec => []TeardownReaps
<1>1. IInv => TeardownReaps
  BY DEF IInv
<1> QED BY <1>1, Inductive, PTL

\* update_limits never changes a group another call or a teardown is using.
THEOREM LimitsAloneHolds == Spec => []LimitsAlone
<1>1. IInv => LimitsAlone
  BY DEF IInv
<1> QED BY <1>1, Inductive, PTL

\* However many teardowns race, with each other and with a collection of the
\* object, one of them at most shuts the group down.
THEOREM TakenOnceHolds == Spec => [](TakenOnce /\ Answered)
<1>1. Init => TakenOnce /\ Answered
  BY DEF Init, TakenOnce, Answered, HasTaken, InTeardown
<1>2. TypeOK /\ TakenOnce /\ Answered /\ [Next]_vars => (TakenOnce /\ Answered)'
  BY TakenOnceStep, AnsweredStep
<1> QED BY <1>1, <1>2, TypeCorrect, PTL DEF Spec

\* What remains true where InterruptedReaps is not: an interrupted teardown
\* reaps the tree unless some other call overlaps with it, and then that call's
\* end does.
THEOREM LeavesOnlyBusyHolds == Spec => []LeavesOnlyBusy
<1>1. TypeOK /\ NothingOutlives /\ TakenOnce /\ Answered => LeavesOnlyBusy
  <2> SUFFICES ASSUME TypeOK, NothingOutlives, TakenOnce, Answered,
                      NEW t \in Teardowns, answer[t] \in {"reaped", "cancelled"}, Clones = {}
               PROVE  \A o \in Ops : member[o] # "up"
    BY DEF LeavesOnlyBusy
  <2>1. ~inner
    BY DEF TakenOnce, HasTaken
  <2>2. Takers = {}
    BY DEF Takers, TakenOnce, HasTaken, Answered, InTeardown
  <2> QED BY <2>1, <2>2 DEF NothingOutlives, Referenced
<1> QED BY <1>1, TypeCorrect, NothingOutlivesHolds, TakenOnceHolds, PTL

\* A call that waits for a child which a finished teardown found can return.
THEOREM CallersFreedHolds == Spec => []CallersFreed
<1>1. TypeOK /\ TeardownReaps /\ Answered => CallersFreed
  BY DEF TypeOK, TeardownReaps, Answered, CallersFreed
<1> QED BY <1>1, TypeCorrect, TeardownReapsHolds, TakenOnceHolds, PTL

=============================================================================
