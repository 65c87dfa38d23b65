----------------------------- MODULE MCStarvation -----------------------------
\* Small instances of Starvation.
EXTENDS Starvation, TLC

CONSTANTS
    depot,  \* a build that costs one Food per unit of time; others yield two
    raid    \* an attack that can raze a farm

MCRate == [w \in Builds \cup Attacks |-> IF w \in {depot, raid} THEN -1 ELSE 2]
MCSymmetry == Permutations(Ticks)
==============================================================================
