-------------------------- MODULE MCG0BNDevelopment --------------------------
(* Two processes, each with a ladder of its own; the second one's is of a   *)
(* foreign development build.                                               *)
EXTENDS G0BNDevelopment

CONSTANTS i1, i2, t1, t2, u1

MCInstances == {i1, i2}
MCTrials == {t1, t2, u1}
MCLadder == [i \in {i1, i2} |-> IF i = i1 THEN <<t1, t2>> ELSE <<u1>>]
MCPins == {"build", "foreign build"}
MCPinOf == [t \in {t1, t2, u1} |-> IF t = u1 THEN "foreign build" ELSE "build"]
=============================================================================
