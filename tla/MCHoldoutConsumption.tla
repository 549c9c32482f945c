------------------------ MODULE MCHoldoutConsumption ------------------------
(* One holdout, a freeze, a regenerated freeze over the same holdout, and a *)
(* fabricated one.                                                          *)
EXTENDS HoldoutConsumption

CONSTANTS freeze, regenerated, fabricated, april

MCFreezes == {freeze, regenerated, fabricated}
MCAuthorized == {freeze, regenerated}
MCHoldouts == {april}
MCHoldoutOf == [f \in MCFreezes |-> april]

Symmetry == Permutations(Procs) \cup Permutations(Results) \cup Permutations(Outs)
                \cup Permutations(MCAuthorized)
=============================================================================
