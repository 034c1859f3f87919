----------------------------- MODULE MCSithComm -----------------------------
(* A server and two clients, which the code does not tell apart.           *)
EXTENDS SithComm, TLC

Symmetry == Permutations(Players \ {Server})

=============================================================================
