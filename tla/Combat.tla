------------------------------- MODULE Combat -------------------------------
(***************************************************************************)
(* The battle formulas of the game core as operators: a battle, the siege  *)
(* pass and the loot that follow it, a scouting, and the troops a starving *)
(* settlement loses.  The code injects its numbers as a GameConfig; here   *)
(* they are constants.  A troop list is a function from unit type to       *)
(* count, so duplicate entries are merged and zero entries are dropped,    *)
(* as mergeUnitCounts and unionTroops do.                                  *)
(*                                                                         *)
(* Fractions are exact: a loss fraction is never computed, a loss of k     *)
(* units is decided by comparing integers (combat.lossExponent is the 1.5  *)
(* of the shipped configuration).                                          *)
(***************************************************************************)
EXTENDS Integers, FiniteSets, FiniteSetsExt, SequencesExt, Functions

CONSTANTS
    UNIT_TYPES,         \* the unit types, a sequence in ascending order of id
    Unit,               \* unit type -> [attack, defInfantry, defCavalry, carry,
                        \*   splitClass, role, wallDamage, buildingDamage,
                        \*   scoutAttack, scoutDefense, upkeep, cost]
    RESOURCE_KINDS,     \* the resources
    WallRatio,          \* wall.defenseRatioPerLevel as <<numerator, denominator>>
    RandomFactor,       \* combat.randomFactor as <<numerator, denominator>>
    SiegeResistance,    \* siege points it takes to knock level l down, l >= 1
    CacheProtection,    \* what a Hidden Cache of level l >= 1 protects
    CommandCenterFloor, \* siege.commandCenterFloor
    BuildingsTierMinDiff \* scouting.buildingsTierMinDiff

Types == ToSet(UNIT_TYPES)

ASSUME CombatAssumption ==
    /\ UNIT_TYPES \in Seq(Types) /\ IsFiniteSet(RESOURCE_KINDS)
    /\ \A t \in Types : {Unit[t].attack, Unit[t].defInfantry, Unit[t].defCavalry, Unit[t].carry,
        Unit[t].wallDamage, Unit[t].buildingDamage, Unit[t].upkeep, Unit[t].cost} \subseteq Nat

Troops == [Types -> Nat]
Nobody == [t \in Types |-> 0]

(* Sums over a troop list, and over several. *)
Total(weight, troops) ==
    SumFunctionOnSet([t \in Types |-> weight[t] * troops[t]], {t \in Types : troops[t] > 0})

Plus(a, b) == [t \in Types |-> a[t] + b[t]]
Minus(a, b) == [t \in Types |-> IF a[t] >= b[t] THEN a[t] - b[t] ELSE 0]

unionTroops(lists) == \* lists: a function from keys to troop lists
    [t \in Types |-> SumFunction([k \in DOMAIN lists |-> lists[k][t]])]

calcTroopFoodUpkeepPerHour(troops) == Total([t \in Types |-> Unit[t].upkeep], troops)

(***************************************************************************)
(* Losses.  The code rounds fraction * count to the nearest unit, halves   *)
(* up, for each type by itself.  With x = (p/q)^(3/2), p <= q:             *)
(*   x*c       rounds to at least k  iff  4 c^2 p^3 >= (2k-1)^2 q^3        *)
(*   c*x/(1+x) rounds to at least k  iff  (2c-2k+1)^2 p^3 >= (2k-1)^2 q^3  *)
(*   c*1/(1+x) is the same with p and q exchanged.                         *)
(***************************************************************************)
AtLeast(k, p, weight, q) == weight * weight * p * p * p >= (2*k - 1) * (2*k - 1) * q * q * q

(* The losses of one count on the whole curve, x. *)
LostToCurve(c, p, q) == Cardinality({k \in 1 .. c : AtLeast(k, p, 2*c, q)})

(* The losses of one count on the shared curve, x / (1 + x). *)
LostToShare(c, p, q) == Cardinality({k \in 1 .. c : AtLeast(k, p, 2*c - 2*k + 1, q)})

(* Lowest terms, so that the cubes stay small. *)
gcd[a \in Nat, b \in Nat] == IF b = 0 THEN a ELSE gcd[b, a % b]
Reduced(p, q) == LET g == gcd[p, q] IN << p \div g, q \div g >>

(* p / q of the casualty curve, clamped at one. *)
Clamped(p, q) == IF p >= q THEN << 1, 1 >> ELSE Reduced(p, q)

atkPtsBase(troops) == Total([t \in Types |-> Unit[t].attack], troops)

(* The defence over the attack of a battle, before the clamp: the attack  *)
(* is split by class, each class meets its own defence, the wall           *)
(* multiplies the defence and the roll the attack.                         *)
WeighedUp(base, cavalry, defInf, defCav, wallLevel, roll) ==
    << ((base - cavalry) * defInf + cavalry * defCav) * WallRatio[1]^wallLevel * RandomFactor[2],
       base * base * WallRatio[2]^wallLevel * (RandomFactor[2] + RandomFactor[1] * roll) >>

BattleOdds(attacker, defending, wallLevel, roll) ==
    WeighedUp(atkPtsBase(attacker),
              Total([t \in Types |-> IF Unit[t].splitClass = "cavalry" THEN Unit[t].attack ELSE 0],
                    attacker),
              Total([t \in Types |-> Unit[t].defInfantry], defending),
              Total([t \in Types |-> Unit[t].defCavalry], defending), wallLevel, roll)

(* A battle: every contingent, and every type in it, loses the same        *)
(* fraction, and the attacker prevails when the odds were with him and     *)
(* rounding left him anybody.                                              *)
Fight(attacker, defenders, kind, odds) ==
    LET x == Clamped(odds[1], odds[2])
        losses == [t \in Types |-> IF kind = "assault"
                                   THEN LostToCurve(attacker[t], x[1], x[2])
                                   ELSE LostToShare(attacker[t], x[1], x[2])]
        survivors == Minus(attacker, losses)
    IN  [losses |-> losses, survivors |-> survivors,
         defenders |-> [k \in DOMAIN defenders |->
            IF kind = "assault" THEN defenders[k]
            ELSE [t \in Types |-> LostToShare(defenders[k][t], x[2], x[1])]],
         lootCapacity |-> Total([t \in Types |-> Unit[t].carry], survivors),
         attackerPrevailed |-> odds[1] < odds[2] /\ survivors # Nobody]

resolveBattle(attacker, defenders, wallLevel, kind, roll) ==
    Fight(attacker, defenders, kind,
          BattleOdds(attacker, unionTroops(defenders), wallLevel, roll))

(***************************************************************************)
(* The siege pass.  Levels fall one at a time and are paid for in full:    *)
(* the level reached is the lowest one the points can pay for.             *)
(***************************************************************************)
LevelAfter(points, level, floor) ==
    IF level <= floor THEN level
    ELSE Min({l \in floor .. level :
                 SumFunctionOnSet(SiegeResistance, (l + 1) .. level) <= points})

SiegePastTheWall(battle, wallLevel, siegeTarget, targetLevel) ==  \* fault: the wall is no obstacle
    LET after(damage, level, floor) ==
            IF battle.attackerPrevailed
            THEN LevelAfter(Total(damage, battle.survivors), level, floor) ELSE level
    IN  [wallLevelAfter |-> after([t \in Types |-> Unit[t].wallDamage], wallLevel, 0),
         targetLevelAfter |->
            IF siegeTarget = "wall" THEN targetLevel
            ELSE after([t \in Types |-> Unit[t].buildingDamage], targetLevel,
                       IF siegeTarget = "commandCenter" THEN CommandCenterFloor ELSE 0)]

resolveSiegePass(battle, wallLevel, siegeTarget, targetLevel) ==
    LET wallPoints == Total([t \in Types |-> Unit[t].wallDamage], battle.survivors)
        buildingPoints == Total([t \in Types |-> Unit[t].buildingDamage], battle.survivors)
        wallAfter == IF battle.attackerPrevailed THEN LevelAfter(wallPoints, wallLevel, 0)
                     ELSE wallLevel
        floor == IF siegeTarget = "commandCenter" THEN CommandCenterFloor ELSE 0
    IN  [wallLevelAfter |-> wallAfter,
         targetLevelAfter |->
            IF battle.attackerPrevailed /\ siegeTarget # "wall" /\ wallAfter = 0
            THEN LevelAfter(buildingPoints, targetLevel, floor) ELSE targetLevel]

(***************************************************************************)
(* Loot.  The code splits a full hold over the resources in proportion,    *)
(* without rounding; here a share is rounded down to the whole unit.       *)
(***************************************************************************)
hiddenCacheProtection(level) == IF level <= 0 THEN 0 ELSE CacheProtection[level]

resolveLoot(battle, stored, cacheLevel) ==
    LET available == [r \in RESOURCE_KINDS |->
                         IF stored[r] > hiddenCacheProtection(cacheLevel)
                         THEN stored[r] - hiddenCacheProtection(cacheLevel) ELSE 0]
        total == SumFunction(available)
    IN  CASE ~battle.attackerPrevailed     -> [r \in RESOURCE_KINDS |-> 0]
          [] battle.attackerPrevailed /\ total <= battle.lootCapacity -> available
          [] OTHER -> [r \in RESOURCE_KINDS |->
                          (battle.lootCapacity * available[r]) \div total]

(***************************************************************************)
(* Scouting.  Only the attacker can lose scouts; an army without scouting  *)
(* points loses nobody; what is learnt needs a survivor, being noticed     *)
(* needs only a scout at home.                                             *)
(***************************************************************************)
resolveScoutCombat(attackers, defenders) ==
    LET atkPts == Total([t \in Types |-> Unit[t].scoutAttack], attackers)
        defPts == Total([t \in Types |-> Unit[t].scoutDefense], defenders)
        x == Clamped(defPts, atkPts)
    IN  IF atkPts = 0 THEN Nobody
        ELSE [t \in Types |-> LostToCurve(attackers[t], x[1], x[2])]

resolveIntelTier(attackerTower, defenderTower) ==
    IF attackerTower - defenderTower >= BuildingsTierMinDiff THEN "buildings" ELSE "base"

isScoutDetected(defenders) == \E t \in Types : defenders[t] > 0 /\ Unit[t].role = "scout"

resolveScouting(attackers, defenders, attackerTower, defenderTower) ==
    LET losses == resolveScoutCombat(attackers, defenders)
        survivors == Minus(attackers, losses)
    IN  [losses |-> losses, survivors |-> survivors,
         intel |-> IF survivors = Nobody THEN "none"
                   ELSE resolveIntelTier(attackerTower, defenderTower),
         detected |-> isScoutDetected(defenders)]

(***************************************************************************)
(* Starvation.  Settlers die last, siege before them, then the weakest     *)
(* type first, the cheaper of equals, the smaller id of equals; guests     *)
(* before the garrison, guests of one type in ascending order of key.      *)
(***************************************************************************)
diesLastRank(t) == CASE Unit[t].role = "settler" -> 2
                     [] Unit[t].role = "siege"   -> 1
                     [] OTHER                    -> 0

Position(t) == CHOOSE i \in DOMAIN UNIT_TYPES : UNIT_TYPES[i] = t

DeathOrder(t) == << diesLastRank(t),
                    Unit[t].attack + Unit[t].defInfantry + Unit[t].defCavalry,
                    Unit[t].cost, Position(t) >>

compareStarvationOrder(s, t) ==
    \E i \in 1 .. 4 : /\ DeathOrder(s)[i] < DeathOrder(t)[i]
                      /\ \A j \in 1 .. i - 1 : DeathOrder(s)[j] = DeathOrder(t)[j]

(* Pools of troops are << host, key, type >>: host 0 for the guests, whose *)
(* keys are numbers in ascending order, host 1 for the garrison.           *)
GarrisonFirst(p, r) == \/ p[1] > r[1]
                       \/ p[1] = r[1] /\ compareStarvationOrder(p[3], r[3])
                       \/ p[1] = r[1] /\ p[3] = r[3] /\ p[2] < r[2]

DiesBefore(p, r) == \/ p[1] < r[1]
                    \/ p[1] = r[1] /\ compareStarvationOrder(p[3], r[3])
                    \/ p[1] = r[1] /\ p[3] = r[3] /\ p[2] < r[2]

CeilDiv(a, b) == (a + b - 1) \div b

(* The killed, pool by pool: a pool loses what covers the deficit its      *)
(* predecessors leave, if it has that many.  Marching troops eat, so they  *)
(* are in the deficit, and are no pool.                                    *)
resolveStarvation(deficit, pools) ==
    [p \in DOMAIN pools |->
        LET upkeep(r) == Unit[r[3]].upkeep
            before == SumFunctionOnSet([r \in DOMAIN pools |-> upkeep(r) * pools[r]],
                                       {r \in DOMAIN pools : pools[r] > 0 /\ DiesBefore(r, p)})
        IN  IF pools[p] = 0 \/ upkeep(p) = 0 \/ before >= deficit THEN 0
            ELSE Min({pools[p], CeilDiv(deficit - before, upkeep(p))})]
=============================================================================
