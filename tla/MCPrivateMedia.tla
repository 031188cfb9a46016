--------------------------- MODULE MCPrivateMedia ---------------------------
(* Instances of PrivateMedia for TLC: two small uploads and a larger one that
   do not fit into the package together. *)
EXTENDS PrivateMedia, TLC

CONSTANTS m1, m2, m3

MCSize == [m \in Media |-> IF m = m2 THEN 2 ELSE 1]

Symmetry == Permutations(Deleters)
=============================================================================
