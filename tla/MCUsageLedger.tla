---------------------------- MODULE MCUsageLedger ----------------------------
(* Instance of UsageLedger for TLC: two periods, two reservation keys and one
   consume key, amounts 1 and 2, a limit that is raised, lowered and lifted. *)
EXTENDS UsageLedger, TLC

MCLimits == {0, 3, Unlimited}

Symmetry == Permutations(ReservationKeys) \cup Permutations(Periods)
=============================================================================
