--------------------------- MODULE MCMessageSystem ---------------------------
(* Instances of MessageSystem for TLC: two requests of different priority. *)
EXTENDS MessageSystem, TLC

CONSTANTS j1, j2, r1, r2

MCRequestOf == [j \in Jobs |-> IF j = j2 THEN r2 ELSE r1]
MCPriority == [j \in Jobs |-> IF j = j1 THEN 1 ELSE 0]

Symmetry == Permutations(Workers) \cup Permutations(Callers) \cup Permutations(Handlers)
=============================================================================
