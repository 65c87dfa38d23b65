------------------------------- MODULE MCMarket -------------------------------
\* A small instance of Market: two accounts with a settlement each.
EXTENDS Market

CONSTANTS poor, rich, guest, owner

MCOwner == [s \in Settlements |-> IF s = rich THEN owner ELSE guest]

\* The merchants of the rich carry one unit, those of the poor two.
MCCapacity == [s \in Settlements |-> IF s = rich THEN 1 ELSE 2]
MCCap == [s \in Settlements |-> 2]
MCStart ==
    [s \in Settlements |->
        [k \in Kinds |-> IF s = poor THEN 1 ELSE IF k = "scrap" THEN 2 ELSE 0]]
MCWeight == [k \in Kinds |-> IF k = "electronics" THEN 2 ELSE 1]

\* Nothing, or one unit of scrap.
MCGains == {[k \in Kinds |-> IF k = "scrap" THEN n ELSE 0] : n \in 0..1}
==============================================================================
