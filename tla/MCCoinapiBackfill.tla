------------------------- MODULE MCCoinapiBackfill -------------------------
\* A book day and the trades of the next; one manifest of both, one of the
\* first day.  The file of the trades is larger than was planned.
EXTENDS CoinapiBackfill, TLC

CONSTANTS book, trades, both, first

MCUnits == {book, trades}
MCDayOf == [u \in MCUnits |-> IF u = trades THEN 2 ELSE 1]
MCUnitsOf == [m \in Manifests |-> IF m = both THEN <<book, trades>> ELSE <<book>>]
MCPlanned == [u \in MCUnits |-> 1]
MCPrice == [u \in MCUnits |-> IF u = trades THEN 2 ELSE 1]
Symmetry == Permutations(Versions)
=============================================================================
