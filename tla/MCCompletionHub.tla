-------------------------- MODULE MCCompletionHub --------------------------
(* Instances of CompletionHub for TLC. *)
EXTENDS CompletionHub

=============================================================================
