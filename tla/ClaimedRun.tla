----------------------------- MODULE ClaimedRun -----------------------------
(***************************************************************************)
(* What a running process promises the calls that want to consume it, with *)
(* the process slot, the event drive and its finisher left out (running.rs,*)
(* take_claim: "process handle has already been consumed").                *)
(*                                                                         *)
(* A run is there to be taken until one caller takes it or its handle is   *)
(* dropped.  The caller that has it is answered for it, once; any other    *)
(* is told that it is consumed, which is true by then.                     *)
(***************************************************************************)

CONSTANTS
  Callers

VARIABLES
  run,      \* "there", "taken", or "lost" with its handle.
  holding,  \* Who has it and has not been answered yet.
  told      \* What each caller has been told.

vars == <<run, holding, told>>

Answers == {"outcome", "closed", "failed", "cancelled"}

TypeOK ==
  /\ run     \in {"there", "taken", "lost"}
  /\ holding \subseteq Callers
  /\ told    \in [Callers -> Answers \union {"nothing", "consumed", "declined"}]

Init ==
  /\ run     = "there"
  /\ holding = {}
  /\ told    = [t \in Callers |-> "nothing"]

Take(t) ==
  /\ run = "there" /\ told[t] = "nothing"
  /\ run' = "taken" /\ holding' = {t}
  /\ UNCHANGED told

Answer(t) ==
  /\ holding = {t} /\ told[t] = "nothing"
  /\ holding' = {}
  /\ \E a \in Answers : told' = [told EXCEPT ![t] = a]
  /\ UNCHANGED run

Refuse(t) ==
  /\ run = "taken" /\ t \notin holding /\ told[t] = "nothing"
  /\ told' = [told EXCEPT ![t] = "consumed"]
  /\ UNCHANGED <<run, holding>>

\* A verb that wants the whole output does not take a run whose output has
\* been streamed.
Decline(t) ==
  /\ t \notin holding /\ told[t] = "nothing"
  /\ told' = [told EXCEPT ![t] = "declined"]
  /\ UNCHANGED <<run, holding>>

Lose ==
  /\ run = "there" /\ run' = "lost"
  /\ UNCHANGED <<holding, told>>

Next ==
  \/ Lose
  \/ \E t \in Callers : Take(t) \/ Answer(t) \/ Refuse(t) \/ Decline(t)

Spec == Init /\ [][Next]_vars

=============================================================================
