------------------------------ MODULE MCClient ------------------------------
(***************************************************************************)
(* A settlement a few hours old: a farm that feeds it, a scrap yard whose  *)
(* next level costs more than the warehouse holds, a hidden cache at its   *)
(* last level, no workshop, and more fuel than the warehouse holds.        *)
(***************************************************************************)
EXTENDS Client

MCFactions == {"none", "engineers"}
MCStart == [commandCenter |-> 3, greenhouseFarm |-> 5, scrapYard |-> 9,
            fuelRefinery |-> 3, barracks |-> 1, hiddenCache |-> 10]
MCStock == [scrap |-> Price(305), fuel |-> Price(4100), electronics |-> Price(65),
            food |-> Price(230)]
MCUnderway == << [type |-> "wall", targetLevel |-> 1, completesAt |-> 1],
                 [type |-> "wall", targetLevel |-> 2, completesAt |-> 0] >>
MCWanted == {"wall"}
MCDrafts == {<< "bulwark", 1 >>, << "brute", 1 >>, << "armoredQuad", 1 >>}
MCGuests == Bag("brute", 160)
MCRazed == {"barracks"}
=============================================================================
