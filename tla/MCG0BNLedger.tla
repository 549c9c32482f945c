---------------------------- MODULE MCG0BNLedger ----------------------------
(* Finite instances of G0BNLedger.  The trial Foreign carries a data        *)
(* identity of its own; every other trial belongs to one development build. *)
EXTENDS G0BNLedger

CONSTANT Foreign

MCPins == {"build", "foreign build"}
MCPinOf == [t \in Trials |-> IF t = Foreign THEN "foreign build" ELSE "build"]

Symmetry == Permutations(Instances) \cup Permutations(Paths)
                \cup Permutations(Results)

=============================================================================
