------------------------------ MODULE TeedRun ------------------------------
(***************************************************************************)
(* A client's run whose output is teed into Python writers.  The verb ends *)
(* when its tees have ended, or by a signal that block_on_interruptible    *)
(* sees between two ticks: then the future, with its pumps and sinks, is   *)
(* dropped.                                                                *)
(*                                                                         *)
(* Bounds: one run is teed, of a caller that is in no other verb while the *)
(* other threads are in none and the interpreter is not finalizing, and    *)
(* the behaviour ends with it.                                             *)
(***************************************************************************)
EXTENDS CliClient, TeeSink

Alone(t) == ~ finalizing /\ Depth(t) = 1 /\ \A u \in Threads \ {t} : Depth(u) = 0

LaunchTeed(t) == Alone(t) /\ Launch(t) /\ Open

FinishTeed(t) == Finish(t) /\ Close

\* check_signals raises.
Interrupt(t) ==
  /\ Waiting(t)
  /\ Returns(t, <<Depth(t), Verb>>)
  /\ NoneLeft
  /\ Drop
  /\ UNCHANGED <<finalizing, slot>>

TeedInit == Init /\ TeeInit

TeedNext ==
  \/ tee = "none" /\ Next /\ UNCHANGED teeVars
  \/ TeeStep /\ UNCHANGED vars
  \/ \E t \in Callers : LaunchTeed(t) \/ FinishTeed(t) \/ Interrupt(t)

TeedSpec ==
  /\ TeedInit /\ [][TeedNext]_<<vars, teeVars>>
  /\ TeeFairness
  /\ WF_<<vars, teeVars>>(\E t \in Callers : FinishTeed(t))
=============================================================================
