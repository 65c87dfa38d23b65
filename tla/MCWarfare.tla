------------------------------ MODULE MCWarfare ------------------------------
(***************************************************************************)
(* One attacked settlement with two guests and an oasis, six unit types that differ in *)
(* every respect the formulas look at, numbers small enough for exact      *)
(* arithmetic: no odds exceed 400, so no cube exceeds 32 bits.             *)
(***************************************************************************)
EXTENDS Oases

UnitRow(attack, defInfantry, defCavalry, carry, class, role, upkeep, cost) ==
    [attack |-> attack, defInfantry |-> defInfantry, defCavalry |-> defCavalry,
     carry |-> carry, splitClass |-> class, role |-> role, upkeep |-> upkeep, cost |-> cost,
     wallDamage |-> IF role = "siege" THEN 1 ELSE 0,
     buildingDamage |-> IF role = "siege" THEN 4 ELSE 0,
     scoutAttack |-> IF role = "scout" THEN 1 ELSE 0,
     scoutDefense |-> IF role = "scout" THEN 1 ELSE 0]

MCTypes == << "biker", "brute", "falconer", "feralDog", "ramTruck", "settler" >>
MCUnit == [t \in ToSet(MCTypes) |->
    CASE t = "biker"    -> UnitRow(5, 1, 2, 3, "cavalry",  "fast",            2, 5)
      [] t = "brute"    -> UnitRow(4, 1, 1, 2, "infantry", "offenseInfantry", 1, 2)
      [] t = "falconer" -> UnitRow(0, 1, 1, 0, "infantry", "scout",           1, 3)
      [] t = "feralDog" -> UnitRow(1, 1, 1, 0, "infantry", "wildlife",        0, 1)
      [] t = "ramTruck" -> UnitRow(1, 1, 2, 0, "infantry", "siege",           2, 6)
      [] t = "settler"  -> UnitRow(0, 2, 2, 0, "infantry", "settler",         1, 9)]

Army(bikers, brutes, falconers, rams, settlers) ==
    [biker |-> bikers, brute |-> brutes, falconer |-> falconers,
     feralDog |-> 0, ramTruck |-> rams, settler |-> settlers]

MCFormation == {Army(1, 2, 0, 0, 0), Army(0, 2, 0, 2, 0),
                Army(0, 0, 2, 0, 0), Army(0, 0, 1, 0, 0)}
MCGarrison == Army(0, 1, 0, 0, 1)
MCOuting == {Nobody, Army(1, 3, 0, 0, 0)}
MCGuests == << Army(0, 2, 1, 0, 0), Army(0, 0, 0, 1, 0) >>
MCHomeTroops == Army(1, 4, 2, 2, 1)

MCKinds == {"scrap", "food"}
MCBuilding == {"wall", "greenhouseFarm", "warehouse", "coldStorage", "hiddenCache",
               "commandCenter"}
MCLevels == [wall |-> 1, greenhouseFarm |-> 1, warehouse |-> 1, coldStorage |-> 0,
             hiddenCache |-> 1, commandCenter |-> 1]
MCStock == [scrap |-> 8, food |-> 3] \* more scrap than fits: a refund
MCHomeStock == [scrap |-> 2, food |-> 0]
MCProduction == [scrap |-> 1]
MCFoodOutput == (0 :> 0 @@ 1 :> 6)
MCFoodUpkeep == [b \in MCBuilding |->
    0 :> 0 @@ 1 :> IF b \in {"wall", "commandCenter"} THEN 1 ELSE 0]
MCCap == [scrap |-> (0 :> 4 @@ 1 :> 7), food |-> (0 :> 4 @@ 1 :> 5)]
MCStoreOf == [scrap |-> "warehouse", food |-> "coldStorage"]
MCRoll == [m \in Movement |-> IF m = 1 THEN 0 ELSE 1]
MCResistance == << 2, 3 >>
MCProtection == << 1 >>
MCWallRatio == << 3, 2 >>
MCExcursion == {Army(0, 2, 0, 0, 0), Army(0, 0, 1, 0, 0)}
MCTarget == [Nobody EXCEPT !["feralDog"] = 2]
MCRandomFactor == << 1, 2 >>
=============================================================================
