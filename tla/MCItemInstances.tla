--------------------------- MODULE MCItemInstances ---------------------------
(* ItemInstances on a small instance, for TLC.  Items, browsers and things   *)
(* are interchangeable: the module never compares or orders them.            *)
EXTENDS ItemInstances, TLC

Symmetry == Permutations(Items) \cup Permutations(Browsers) \cup Permutations(Things)

=============================================================================
