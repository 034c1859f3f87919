--------------------------- MODULE MCImageLoader ---------------------------
(* Two items that share a picture and have a snapshot each, or one item    *)
(* with a picture and a snapshot.                                          *)
EXTENDS ImageLoader

CONSTANTS t1, t2, i1, i2, a, b, s1, s2

SharedPicture == [it \in {i1, i2} |-> IF it = i1 THEN <<a, s1>> ELSE <<a, s2>>]
OnePicture    == [it \in {i1} |-> <<a, s1>>]

\* The two things can be exchanged, and the two items together with their snapshots.
ItemSwap  == {p \in Permutations({i1, i2, s1, s2}) : {p[i1], p[i2]} = {i1, i2} /\ (p[i1] = i1 <=> p[s1] = s1)}
Symmetry  == Permutations({t1, t2}) \cup ItemSwap
=============================================================================
