--------------------------- MODULE MCPublication ---------------------------
EXTENDS Publication

\* The larger content is over the limits of the newer build.
CONSTANTS small, large
MCContents == {small, large}
MCFits == [b \in 1..2 |-> IF b = 1 THEN {small, large} ELSE {small}]

=============================================================================
