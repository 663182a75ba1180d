---------------------------- MODULE ProcessGroup ----------------------------
(***************************************************************************)
(* One ProcessGroup object and the calls that overlap on it                *)
(* (src/group.rs).                                                         *)
(*                                                                         *)
(* The object holds a counted reference to the crate's group in a locked   *)
(* slot.  A call clones the reference, works without the lock and drops    *)
(* its clone at the end; an a-verb's awaitable holds it from the call on,  *)
(* awaited or not.  A teardown takes the slot's reference, so later calls  *)
(* find the group closed while earlier ones still hold it.                 *)
(*                                                                         *)
(* Of the crate, group.rs relies on this: shutdown_ref and stop signal the *)
(* members and kill, after a grace, those that are left (escalation is on, *)
(* the default); dropping the last reference kills every member; ending a  *)
(* capture early kills its own child.                                      *)
(***************************************************************************)
EXTENDS Naturals, FiniteSets

CONSTANTS
  Ops,           \* Calls that use the group.
  Teardowns      \* Calls that take it: shutdown, ashutdown, a block's exit.

VARIABLES
  inner,      \* The slot holds the group.
  kind,       \* What each call is.
  op,         \* How far it is.
  member,     \* The child it has spawned into the group.
  teardown,   \* How far each teardown is.
  answer,     \* What it has come to.
  before      \* History: the members that were up when it took the group.

opVars       == <<kind, op>>
teardownVars == <<teardown, answer, before>>
vars         == <<inner, opVars, member, teardownVars>>

\* "start" returns at once, and so does adopt_external; "capture" stands for
\* output, run, exit_code and probe, which wait for their child; "stop", astop
\* and kill_all keep the group open; "limits" is update_limits.
Kinds == {"start", "capture", "stop", "limits"}

Holding    == {"holding", "running", "grace"}   \* has a clone
InTeardown == {"took", "grace"}                 \* has what was in the slot

Init ==
  /\ inner    = TRUE
  /\ kind     = [o \in Ops |-> "none"]
  /\ op       = [o \in Ops |-> "idle"]
  /\ member   = [o \in Ops |-> "none"]
  /\ teardown = [t \in Teardowns |-> "idle"]
  /\ answer   = [t \in Teardowns |-> "none"]
  /\ before   = [t \in Teardowns |-> {}]

\* update_limits is the one call that works while it holds the slot's lock.
Unlocked == \A o \in Ops : op[o] # "updating"

Clones     == {o \in Ops : op[o] \in Holding}
Takers     == {t \in Teardowns : teardown[t] \in InTeardown}
Referenced == inner \/ Clones # {} \/ Takers # {}

\* The members after a step that may drop references: m, or nobody once the
\* last reference is gone.
Gone(m) == [o \in Ops |-> IF m[o] = "up" THEN "gone" ELSE m[o]]
Keep(m) == IF Referenced' THEN m ELSE Gone(m)

-----------------------------------------------------------------------------
(* Using the group.                                                        *)

\* group(): clone the reference under the lock, or fail once it is closed.
Call(o) ==
  /\ Unlocked /\ op[o] = "idle"
  /\ \E k \in Kinds \ {"limits"} : kind' = [kind EXCEPT ![o] = k]
  /\ op' = [op EXCEPT ![o] = IF inner THEN "holding" ELSE "ended"]
  /\ UNCHANGED <<inner, member, teardownVars>>

End(o) == op' = [op EXCEPT ![o] = "ended"]

\* Mutant: the clone is gone before the child is there.
SpawnUnheld(o) ==
  /\ op[o] = "holding" /\ kind[o] \in {"start", "capture"}
  /\ End(o)
  /\ member' = [member EXCEPT ![o] = "up"]
  /\ UNCHANGED <<inner, kind, teardownVars>>

\* group.start() has spawned the child; a `start` is over, and drops its clone.
Spawn(o) ==
  /\ op[o] = "holding"
  /\ \/ kind[o] = "start" /\ End(o)
     \/ kind[o] = "capture" /\ op' = [op EXCEPT ![o] = "running"]
  /\ UNCHANGED <<inner, kind, teardownVars>>
  /\ member' = Keep([member EXCEPT ![o] = "up"])

\* The child ends by itself, or with the handle its `start` returned.
MemberEnds(o) ==
  /\ member[o] = "up"
  /\ member' = [member EXCEPT ![o] = "gone"]
  /\ UNCHANGED <<inner, opVars, teardownVars>>

EndCapture(o) ==
  /\ op[o] = "running" /\ member[o] = "gone"
  /\ End(o)
  /\ UNCHANGED <<inner, kind, teardownVars>>
  /\ member' = Keep(member)

\* stop: signal and wait; then kill what is left, if asked to.
StopSignals(o) ==
  /\ op[o] = "holding" /\ kind[o] = "stop"
  /\ op' = [op EXCEPT ![o] = "grace"]
  /\ UNCHANGED <<inner, kind, member, teardownVars>>

EndStop(o) ==
  /\ op[o] = "grace"
  /\ End(o)
  /\ UNCHANGED <<inner, kind, teardownVars>>
  /\ \E escalate \in BOOLEAN :
       member' = Keep(IF escalate THEN Gone(member) ELSE member)

\* The call fails, is cancelled, or was never awaited: its clone is dropped,
\* and with it the child it was waiting for.
Abandon(o) ==
  /\ op[o] \in Holding
  /\ End(o)
  /\ UNCHANGED <<inner, kind, teardownVars>>
  /\ member' = Keep([member EXCEPT ![o] = IF op[o] = "running" THEN "gone" ELSE @])

-----------------------------------------------------------------------------
(* Changing the limits.                                                    *)

\* Mutant: an open group is free to change.
OpenIsSole == inner

\* Arc::get_mut: nobody else has a reference.
Sole == inner /\ Clones = {} /\ Takers = {}

\* update_limits locks the slot and, the group being closed or busy, gives up.
LockLimits(o) ==
  /\ Unlocked /\ op[o] = "idle"
  /\ kind' = [kind EXCEPT ![o] = "limits"]
  /\ op' = [op EXCEPT ![o] = IF Sole THEN "updating" ELSE "ended"]
  /\ UNCHANGED <<inner, member, teardownVars>>

UnlockLimits(o) ==
  /\ op[o] = "updating"
  /\ End(o)
  /\ UNCHANGED <<inner, kind, member, teardownVars>>

-----------------------------------------------------------------------------
(* Teardown.                                                               *)

\* take(): a group that is closed already makes the call a no-op.
Take(t) ==
  /\ Unlocked /\ teardown[t] = "idle"
  /\ inner' = FALSE
  /\ teardown' = [teardown EXCEPT ![t] = IF inner THEN "took" ELSE "end"]
  /\ answer'   = [answer EXCEPT ![t] = IF inner THEN "none" ELSE "noop"]
  /\ before'   = [before EXCEPT ![t] = {o \in Ops : inner /\ member[o] = "up"}]
  /\ UNCHANGED <<opVars, member>>

\* Mutant: only a sole owner shuts the group down; others just drop it.
ShutdownSole(t) ==
  /\ teardown[t] = "took"
  /\ IF Clones = {}
       THEN /\ teardown' = [teardown EXCEPT ![t] = "grace"]
            /\ UNCHANGED answer
       ELSE /\ teardown' = [teardown EXCEPT ![t] = "end"]
            /\ answer'   = [answer EXCEPT ![t] = "reaped"]
  /\ UNCHANGED <<inner, opVars, member, before>>

\* Mutant: the teardown waits until it is the sole owner.
ShutdownWhenSole(t) ==
  /\ teardown[t] = "took" /\ Clones = {}
  /\ teardown' = [teardown EXCEPT ![t] = "grace"]
  /\ UNCHANGED <<inner, opVars, member, answer, before>>

\* shutdown_ref signals every member, whoever else holds the group ...
Shutdown(t) ==
  /\ teardown[t] = "took"
  /\ teardown' = [teardown EXCEPT ![t] = "grace"]
  /\ UNCHANGED <<inner, opVars, member, answer, before>>

\* Mutant: the group is let go of without a kill.
EndShutdownGently(t) ==
  /\ teardown[t] = "grace"
  /\ teardown' = [teardown EXCEPT ![t] = "end"]
  /\ answer'   = [answer EXCEPT ![t] = "reaped"]
  /\ UNCHANGED <<inner, opVars, before>>
  /\ member'   = Keep(member)

\* ... and kills those that are left.
EndShutdown(t) ==
  /\ teardown[t] = "grace"
  /\ teardown' = [teardown EXCEPT ![t] = "end"]
  /\ answer'   = [answer EXCEPT ![t] = "reaped"]
  /\ member'   = Gone(member)
  /\ UNCHANGED <<inner, opVars, before>>

\* The teardown is cancelled or hit by Ctrl+C: its future is dropped, and its
\* reference with it.
Interrupt(t) ==
  /\ teardown[t] \in InTeardown
  /\ teardown' = [teardown EXCEPT ![t] = "end"]
  /\ answer'   = [answer EXCEPT ![t] = "cancelled"]
  /\ UNCHANGED <<inner, opVars, before>>
  /\ member'   = Keep(member)

\* The object is collected without a teardown, and the slot with it.
Collect ==
  /\ inner /\ Unlocked
  /\ inner' = FALSE
  /\ UNCHANGED <<opVars, teardownVars>>
  /\ member' = Keep(member)

-----------------------------------------------------------------------------

OpEnds(o) == EndCapture(o) \/ EndStop(o) \/ UnlockLimits(o)

TeardownStep(t) == Shutdown(t) \/ EndShutdown(t)

Next ==
  \/ \E o \in Ops : \/ Call(o) \/ LockLimits(o) \/ Spawn(o) \/ StopSignals(o)
                    \/ MemberEnds(o) \/ Abandon(o) \/ OpEnds(o)
  \/ \E t \in Teardowns : Take(t) \/ TeardownStep(t) \/ Interrupt(t)
  \/ Collect

\* A call that can return does, and a teardown that was begun is awaited.  An
\* awaitable may never be awaited and a child may never end.
Fairness ==
  /\ \A o \in Ops : WF_vars(OpEnds(o))
  /\ \A t \in Teardowns : WF_vars(TeardownStep(t))

Spec == Init /\ [][Next]_vars

FairSpec == Spec /\ Fairness

-----------------------------------------------------------------------------
(* Safety.                                                                 *)

TypeOK ==
  /\ inner    \in BOOLEAN
  /\ kind     \in [Ops -> Kinds \union {"none"}]
  /\ op       \in [Ops -> Holding \union {"idle", "updating", "ended"}]
  /\ member   \in [Ops -> {"none", "up", "gone"}]
  /\ teardown \in [Teardowns -> InTeardown \union {"idle", "end"}]
  /\ answer   \in [Teardowns -> {"none", "reaped", "noop", "cancelled"}]
  /\ before   \in [Teardowns -> SUBSET Ops]

\* Kill-on-drop: once the object is closed and every call that overlapped with
\* its teardown is over, no child is left, also none spawned by a call that
\* had cloned the group before the teardown and got to it only afterwards.
NothingOutlives == ~Referenced => \A o \in Ops : member[o] # "up"

\* A teardown that has returned has taken down every child that was there when
\* it took the group, although other calls still hold references to it
\* (shutdown_ref borrows the group; it does not need to be its sole owner).
TeardownReaps ==
  \A t \in Teardowns : answer[t] = "reaped" => \A o \in before[t] : member[o] # "up"

\* Limits change under sole ownership: from the check to the end of the update
\* no call and no teardown has a reference to the group.
LimitsAlone == ~Unlocked => inner /\ Clones = {} /\ Takers = {}

\* A group whose teardown was interrupted falls back to a hard kill: its tree is
\* reaped all the same.
InterruptedReaps ==
  \A t \in Teardowns : answer[t] = "cancelled" => \A o \in before[t] : member[o] # "up"

-----------------------------------------------------------------------------
(* Liveness.                                                               *)

\* A teardown returns, whatever awaitables hold the group for ever.
TeardownReturns == \A t \in Teardowns : teardown[t] = "took" ~> teardown[t] = "end"

\* A call that waits for its child while the group is torn down is answered:
\* the teardown ends the child under it.
TeardownFreesCallers ==
  \A t \in Teardowns, o \in Ops :
    teardown[t] = "took" /\ op[o] = "running"
      ~> op[o] = "ended" \/ answer[t] = "cancelled"

=============================================================================
