--------------------------- MODULE MCSpawnPipeline ---------------------------
(* SpawnPipeline on a small instance, for TLC.  Which free slot a new thing  *)
(* gets is open, so slots are interchangeable.                               *)
EXTENDS SpawnPipeline

Symmetry == Permutations(Slots)

=============================================================================
