--------------------------- MODULE MCMessageQueue ---------------------------
(* Instances of MessageQueue for TLC: j1 outranks j2. *)
EXTENDS MessageQueue, TLC

CONSTANTS j1, j2, r1, r2

MCRequestOf == [j \in Jobs |-> IF j = j1 THEN r1 ELSE r2]
MCPriority == [j \in Jobs |-> IF j = j1 THEN 1 ELSE 0]

WorkerSymmetry == Permutations(Workers)
=============================================================================
