------------------------- MODULE MCRunningProcess -------------------------
(* Instances of RunningProcess for TLC. *)
EXTENDS RunningProcess

=============================================================================
