------------------------------- MODULE MCBatch -------------------------------
(* Instances of Batch for TLC.  Calls and builders are interchangeable, and no *)
(* run of it checks liveness.                                                  *)
EXTENDS Batch, TLC

Symmetry == Permutations(Calls) \union Permutations(Builders)

=============================================================================
