---------------------------- MODULE SupervisedRun ----------------------------
(***************************************************************************)
(* What a supervision promises those who call for it, with the supervisor, *)
(* the session, the awaitables, the policy and the cells left out          *)
(* (supervisor.rs, "Fail loud" of run and the doc of PySupervisionSession).*)
(*                                                                         *)
(* There is one run.  At most one caller is told how it came out, once it  *)
(* is over, and if a Python callback raised while it went on, that caller  *)
(* is told of the exception and of nothing else.                           *)
(***************************************************************************)

CONSTANTS
  Calls     \* Those who may be told.

VARIABLES
  run,      \* "idle", "going", "ended" or, when its owner let go, "abandoned".
  broken,   \* A callback has raised.
  told      \* What each caller has been told of the run.

vars == <<run, broken, told>>

TypeOK ==
  /\ run    \in {"idle", "going", "ended", "abandoned"}
  /\ broken \in BOOLEAN
  /\ told   \in [Calls -> {"nothing", "outcome", "error", "raised"}]

Init ==
  /\ run    = "idle"
  /\ broken = FALSE
  /\ told   = [c \in Calls |-> "nothing"]

Begin ==
  /\ run = "idle" /\ run' = "going"
  /\ UNCHANGED <<broken, told>>

\* The run goes on or ends, and a callback it makes may raise.
Work ==
  /\ run = "going" /\ run' \in {"going", "ended"}
  /\ broken' \in {broken, TRUE}
  /\ UNCHANGED told

Abandon ==
  /\ run = "going" /\ run' = "abandoned"
  /\ UNCHANGED <<broken, told>>

Untold == \A c \in Calls : told[c] = "nothing"

\* The one report of a run that has ended.
Tell(c) ==
  /\ run = "ended" /\ Untold
  /\ \E what \in IF broken THEN {"raised"} ELSE {"outcome", "error"} :
       told' = [told EXCEPT ![c] = what]
  /\ UNCHANGED <<run, broken>>

\* A caller that is interrupted still hears what raised.
TellOnLeaving(c) ==
  /\ run \in {"going", "ended"} /\ Untold /\ broken
  /\ run' = IF run = "going" THEN "abandoned" ELSE run
  /\ told' = [told EXCEPT ![c] = "raised"]
  /\ UNCHANGED broken

Next ==
  \/ Begin \/ Work \/ Abandon
  \/ \E c \in Calls : Tell(c) \/ TellOnLeaving(c)

Spec == Init /\ [][Next]_vars

=============================================================================
