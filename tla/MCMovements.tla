------------------------------ MODULE MCMovements ------------------------------
\* Small instances of Movements.
EXTENDS Movements

\* Two units at one settlement, one at each other.
CONSTANT capital
MCGarrison == [s \in Settlements |-> IF s = capital THEN 2 ELSE 1]
==============================================================================
