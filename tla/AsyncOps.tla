------------------------------ MODULE AsyncOps ------------------------------
(***************************************************************************)
(* What an awaited processkit operation promises its caller, with every    *)
(* detail of how the answer travels from the tokio runtime to the event    *)
(* loop left out (runtime.rs, "Contract" of PyLazyFuture).                 *)
(*                                                                         *)
(* An operation is begun once, the runtime produces at most one outcome    *)
(* for it, and its asyncio future is settled at most once: with exactly    *)
(* the outcome produced for that operation, or by a cancellation.          *)
(***************************************************************************)

CONSTANTS
  Ops       \* The awaitables of one event loop.

VARIABLES
  future,   \* How the asyncio future of each operation stands.
  outcome   \* What the runtime has produced for it ("pending": nothing yet).

vars == <<future, outcome>>

Produced == {"ok", "error", "refused"}

TypeOK ==
  /\ future  \in [Ops -> {"none", "pending", "ok", "error", "cancelled"}]
  /\ outcome \in [Ops -> Produced \union {"pending"}]

Init ==
  /\ future  = [o \in Ops |-> "none"]
  /\ outcome = [o \in Ops |-> "pending"]

Begin(o) ==
  /\ future[o] = "none"
  /\ future' = [future EXCEPT ![o] = "pending"]
  /\ UNCHANGED outcome

\* The runtime finishes the work whether or not anyone still waits for it.
Produce(o) ==
  /\ future[o] # "none"
  /\ outcome[o] = "pending"
  /\ \E result \in Produced : outcome' = [outcome EXCEPT ![o] = result]
  /\ UNCHANGED future

\* One wake-up of the loop may answer several operations.
Resolve(S) ==
  /\ \A o \in S : future[o] = "pending" /\ outcome[o] \in {"ok", "error"}
  /\ future' = [o \in Ops |-> IF o \in S THEN outcome[o] ELSE future[o]]
  /\ UNCHANGED outcome

Cancel(S) ==
  /\ \A o \in S : future[o] = "pending"
  /\ future' = [o \in Ops |-> IF o \in S THEN "cancelled" ELSE future[o]]
  /\ UNCHANGED outcome

Next ==
  \/ \E o \in Ops : Begin(o) \/ Produce(o)
  \/ \E S \in SUBSET Ops : Resolve(S) \/ Cancel(S)

Spec == Init /\ [][Next]_vars

=============================================================================
