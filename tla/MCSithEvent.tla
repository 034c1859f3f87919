---------------------------- MODULE MCSithEvent ----------------------------
(* SithEvent for TLC: the names of events are alike.                       *)
EXTENDS SithEvent, TLC

Symmetry == Permutations(Names)

=============================================================================
