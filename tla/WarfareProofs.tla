---------------------------- MODULE WarfareProofs ----------------------------
(***************************************************************************)
(* For any unit types, armies, levels, stocks and oases: no store and no   *)
(* troop count falls below zero, loot is conserved between the stores      *)
(* attacked and the attacker's, nobody loses anything without a report,    *)
(* nothing is won without a victory, a starving settlement loses its       *)
(* troops in the order promised and no more of them than it must, and an   *)
(* oasis is found as if nobody had looked at it since the last battle.     *)
(*                                                                         *)
(* None of it depends on the curve of the losses: a battle may kill any    *)
(* part of each count.                                                     *)
(***************************************************************************)
EXTENDS Oases, SumsProofs, NaturalsInduction

Goods == [RESOURCE_KINDS -> Nat]
Deltas == [RESOURCE_KINDS -> Int]

TownType == [values : Goods, buildings : [Building -> Nat], troops : Troops,
             awayTroops : Troops, stationed : [Supporter -> Troops], lastTick : Nat]
HomeType == [values : Goods, troops : Troops, awayTroops : Troops]
MovementType == [status : {"none", "outbound", "returning", "done"}, to : {"town", "oasis"},
                 type : {"scout", "raid", "assault"}, units : Troops, survivors : Troops,
                 siegeTarget : Building \cup {"none"}, loot : Goods]
SpoilsType == [taken : Goods, delivered : Deltas, lost : Deltas]

\* No store and no count of troops below zero, in town, at home, marching.
TownTypes == now \in Nat /\ town \in TownType
ArmyTypes ==
    /\ home \in HomeType
    /\ movement \in [Movement -> MovementType]
    /\ spoils \in [Movement -> SpoilsType]
    /\ plundered \in Deltas
WarTypes == TownTypes /\ ArmyTypes

\* The levels a town may have come down to.
Standing(buildings) ==
    /\ buildings \in [Building -> Nat]
    /\ \A b \in Building : buildings[b] <= Levels[b]
    /\ buildings["commandCenter"] >= CommandCenterFloor

\* No report runs ahead of the arrival, or of the starvation tick, it tells of.
NoReportAhead ==
    /\ town.lastTick <= now
    /\ \A rep \in reports :
          IF rep[2] = "starvation" THEN rep[3] \in 0 .. town.lastTick
          ELSE rep[3] \in Movement /\ movement[rep[3]].status \in {"returning", "done"}

\* A report takes its loot lines from its own movement, one after the other.
SpoilsOnTheWay ==
    \A m \in Movement :
        /\ movement[m].status \in {"none", "outbound"} => spoils[m].taken = Nothing
        /\ movement[m].status # "done" =>
              spoils[m].delivered = Nothing /\ spoils[m].lost = Nothing
        /\ movement[m].status = "returning" => spoils[m].taken = movement[m].loot

IInv == WarTypes /\ Standing(town.buildings) /\ NoReportAhead /\ SpoilsOnTheWay /\ SpoilsConserved

\* An oasis as settling or a battle leaves it: within its target and its cap,
\* less than an interval of regrowth outstanding.
OasisType == [defenders : Troops, food : Nat, lastRegenAt : Nat, lastDefenderRegenAt : Nat]
Sound(o) ==
    /\ o \in OasisType
    /\ \A t \in Types : o.defenders[t] <= Target[t]
    /\ o.food <= FoodCap
    /\ o.lastDefenderRegenAt <= o.lastRegenAt
    /\ o.lastRegenAt < o.lastDefenderRegenAt + Interval

\* An oasis somebody has reached is what settling the last battle's would give.
AsLastLeft ==
    oasis.lastRegenAt # Never =>
        /\ Sound(lastBattle) /\ Sound(oasis)
        /\ lastBattle.lastRegenAt <= oasis.lastRegenAt /\ oasis.lastRegenAt <= now
        /\ oasis = settleOasis(lastBattle, oasis.lastRegenAt)

OasisIInv == IInv /\ AsLastLeft

------------------------------------------------------------------------------
\* Numbers.

LEMMA MinIs ==
    ASSUME NEW a \in Int, NEW b \in Int
    PROVE  Min({a, b}) = IF a <= b THEN a ELSE b
<1>1. \E x \in {a, b} : \A y \in {a, b} : x <= y
  OBVIOUS
<1>2. Min({a, b}) \in {a, b} /\ \A y \in {a, b} : Min({a, b}) <= y
  BY <1>1 DEF Min
<1>. QED
  BY <1>2

LEMMA MaxIs ==
    ASSUME NEW a \in Int, NEW b \in Int
    PROVE  Max({a, b}) = IF a >= b THEN a ELSE b
<1>1. \E x \in {a, b} : \A y \in {a, b} : x >= y
  OBVIOUS
<1>2. Max({a, b}) \in {a, b} /\ \A y \in {a, b} : Max({a, b}) >= y
  BY <1>1 DEF Max
<1>. QED
  BY <1>2

\* The least of some natural numbers is one of them.
LEMMA LeastIsMember ==
    ASSUME NEW S, S \subseteq Nat, S # {}
    PROVE  Min(S) \in S
<1>1. PICK x \in S : \A y \in S : ~ (<<y, x>> \in OpToRel(<, Nat))
  BY NatLessThanWellFounded, WFMin
<1>2. \A y \in S : x <= y
  <2>1. \A y \in S : ~ (y < x)
    BY <1>1 DEF OpToRel
  <2>. QED
    BY <2>1
<1>. QED
  BY <1>2 DEF Min

\* A product of natural numbers is one.
LEMMA Product == \A a \in Nat, b \in Nat : a * b \in Nat
OBVIOUS

\* A share of a is at most a.
LEMMA ShareAtMost ==
    ASSUME NEW a \in Nat, NEW c \in Nat, NEW t \in Nat, c < t
    PROVE  (c * a) \div t \in Nat /\ (c * a) \div t <= a
<1>. DEFINE q == (c * a) \div t
            r == (c * a) % t
<1>1. c * a \in Nat /\ c * a <= t * a /\ t * a \in Nat
  OBVIOUS
<1>2. q \in Int /\ r \in 0 .. t - 1 /\ c * a = t * q + r
  BY <1>1
<1>. HIDE DEF q, r
<1>3. q >= 0
  <2>1. SUFFICES ASSUME q <= -1 PROVE FALSE
    BY <1>2
  <2>2. t * q <= t * (-1)
    BY <1>2, <2>1
  <2>. QED
    BY <1>1, <1>2, <2>2
<1>4. q <= a
  <2>1. SUFFICES ASSUME q >= a + 1 PROVE FALSE
    BY <1>2
  <2>2. t * q >= t * (a + 1) /\ t * (a + 1) = t * a + t
    BY <1>2, <2>1
  <2>. QED
    BY <1>1, <1>2, <2>2
<1>. QED
  BY <1>3, <1>4, <1>2 DEF q

------------------------------------------------------------------------------
\* Troop lists.

LEMMA TypesFinite == IsFiniteSet(Types)
<1>1. UNIT_TYPES \in [1 .. Len(UNIT_TYPES) -> Types] /\ Len(UNIT_TYPES) \in Nat
  BY CombatAssumption
<1>2. Types = {UNIT_TYPES[i] : i \in 1 .. Len(UNIT_TYPES)}
  BY <1>1 DEF Types, ToSet
<1>3. UNIT_TYPES \in Surjection(1 .. Len(UNIT_TYPES), Types)
  BY <1>1, <1>2 DEF Surjection
<1>4. IsFiniteSet(1 .. Len(UNIT_TYPES))
  BY <1>1, FS_Interval
<1>. QED
  BY <1>3, <1>4, FS_Surjection

LEMMA NobodyIsTroops == Nobody \in Troops
BY DEF Nobody, Troops

LEMMA MinusIsTroops ==
    ASSUME NEW a \in Troops, NEW b \in Troops
    PROVE  /\ Minus(a, b) \in Troops
           /\ \A t \in Types : Minus(a, b)[t] = IF a[t] >= b[t] THEN a[t] - b[t] ELSE 0
BY DEF Minus, Troops

LEMMA PlusIsTroops ==
    ASSUME NEW a \in Troops, NEW b \in Troops
    PROVE  Plus(a, b) \in Troops /\ \A t \in Types : Plus(a, b)[t] = a[t] + b[t]
BY DEF Plus, Troops

\* Lists of troops by key, over finitely many keys.
Contingents(lists, K) == IsFiniteSet(K) /\ lists \in [K -> Troops]

LEMMA UnionIsTroops ==
    ASSUME NEW K, NEW lists, Contingents(lists, K)
    PROVE  unionTroops(lists) \in Troops
<1>1. DOMAIN lists = K /\ IsFiniteSet(K)
  BY DEF Contingents
<1>2. ASSUME NEW t \in Types
      PROVE  SumFunction([k \in DOMAIN lists |-> lists[k][t]]) \in Nat
  <2>1. [k \in DOMAIN lists |-> lists[k][t]] \in [K -> Nat]
    BY <1>1 DEF Contingents, Troops
  <2>. QED
    BY <1>1, <2>1, TotalNat
<1>. QED
  BY <1>2 DEF unionTroops, Troops

\* A sum over some of the elements is natural when the values are.
LEMMA SumNat ==
    ASSUME NEW S, IsFiniteSet(S), NEW f, \A y \in S : f[y] \in Nat
    PROVE  SumFunctionOnSet(f, S) \in Nat
<1>. DEFINE zero == [y \in S |-> 0]
<1>1. SumFunctionOnSet(zero, S) = 0
  BY SumZero
<1>2. SumFunctionOnSet(zero, S) <= SumFunctionOnSet(f, S)
  BY SumAtMost
<1>. QED
  BY <1>1, <1>2, SumAny

LEMMA TotalIsNat ==
    ASSUME NEW weight \in [Types -> Nat], NEW troops \in Troops
    PROVE  Total(weight, troops) \in Nat
<1>. DEFINE some == {t \in Types : troops[t] > 0}
            f == [t \in Types |-> weight[t] * troops[t]]
<1>1. IsFiniteSet(some)
  BY TypesFinite, FS_Subset
<1>2. \A t \in some : f[t] \in Nat
  BY Product DEF Troops
<1>. HIDE DEF some, f
<1>3. SumFunctionOnSet(f, some) \in Nat
  BY <1>1, <1>2, SumNat
<1>. QED
  BY <1>3 DEF Total, some, f

LEMMA LostIn ==
    ASSUME NEW c \in Nat, NEW p, NEW q
    PROVE  LostToCurve(c, p, q) \in 0 .. c /\ LostToShare(c, p, q) \in 0 .. c
<1>1. IsFiniteSet(1 .. c) /\ Cardinality(1 .. c) = c
  BY FS_Interval
<1>2. ASSUME NEW A \in SUBSET (1 .. c) PROVE Cardinality(A) \in 0 .. c
  <2>1. IsFiniteSet(A) /\ Cardinality(A) <= Cardinality(1 .. c)
    BY <1>1, FS_Subset
  <2>2. Cardinality(A) \in Nat
    BY <2>1, FS_CardinalityType
  <2>. QED
    BY <1>1, <2>1, <2>2
<1>. QED
  BY <1>2 DEF LostToCurve, LostToShare

\* What a battle may do: some of every count fall, and whoever prevails has
\* the odds and survivors.
Fought(battle, attacker, defenders, K, odds) ==
    /\ battle.losses \in Troops /\ battle.survivors = Minus(attacker, battle.losses)
    /\ battle.survivors \in Troops
    /\ battle.defenders \in [K -> Troops]
    /\ battle.lootCapacity \in Nat
    /\ battle.attackerPrevailed \in BOOLEAN
    /\ battle.attackerPrevailed => odds[1] < odds[2] /\ battle.survivors # Nobody

LEMMA Battles ==
    ASSUME NEW attacker \in Troops, NEW K, NEW defenders, Contingents(defenders, K), NEW kind,
           NEW odds
    PROVE  Fought(Fight(attacker, defenders, kind, odds), attacker, defenders, K, odds)
<1>. DEFINE battle == Fight(attacker, defenders, kind, odds)
            x == Clamped(odds[1], odds[2])
            losses == [t \in Types |-> IF kind = "assault"
                                       THEN LostToCurve(attacker[t], x[1], x[2])
                                       ELSE LostToShare(attacker[t], x[1], x[2])]
            carry == [t \in Types |-> Unit[t].carry]
<1>1. battle.losses = losses /\ losses \in Troops
  <2>1. \A t \in Types : attacker[t] \in Nat
    BY DEF Troops
  <2>. QED
    BY <2>1, LostIn DEF Fight, Troops
<1>2. battle.survivors = Minus(attacker, losses) /\ battle.survivors \in Troops
  BY <1>1, MinusIsTroops DEF Fight
<1>3. battle.defenders \in [K -> Troops]
  <2>1. ASSUME NEW k \in K
        PROVE  /\ defenders[k] \in Troops
               /\ [t \in Types |-> LostToShare(defenders[k][t], x[2], x[1])] \in Troops
    <3>1. \A t \in Types : defenders[k][t] \in Nat
      BY DEF Contingents, Troops
    <3>. QED
      BY <3>1, LostIn DEF Contingents, Troops
  <2>. QED
    BY <2>1 DEF Fight, Contingents
<1>4. battle.lootCapacity \in Nat
  <2>1. carry \in [Types -> Nat]
    BY CombatAssumption
  <2>. QED
    BY <1>2, <2>1, TotalIsNat DEF Fight
<1>5. /\ battle.attackerPrevailed \in BOOLEAN
      /\ battle.attackerPrevailed => odds[1] < odds[2] /\ battle.survivors # Nobody
  BY DEF Fight
<1>. QED
  BY <1>1, <1>2, <1>3, <1>4, <1>5 DEF Fought

------------------------------------------------------------------------------
\* Siege, loot, and the town's resources.

LEMMA LevelFalls ==
    ASSUME NEW points \in Nat, NEW level \in Nat, NEW floor \in Nat
    PROVE  /\ LevelAfter(points, level, floor) \in 0 .. level
           /\ level >= floor => LevelAfter(points, level, floor) >= floor
<1>. DEFINE payable == {l \in floor .. level :
                SumFunctionOnSet(SiegeResistance, (l + 1) .. level) <= points}
<1>1. CASE level <= floor
  BY <1>1 DEF LevelAfter
<1>2. CASE ~(level <= floor)
  <2>1. (level + 1) .. level = {}
    OBVIOUS
  <2>2. SumFunctionOnSet(SiegeResistance, (level + 1) .. level) <= points
    BY <2>1, SumEmpty
  <2>3. payable \subseteq Nat /\ payable \subseteq floor .. level /\ level \in payable
    BY <1>2, <2>2
  <2>. HIDE DEF payable
  <2>4. Min(payable) \in floor .. level
    BY <2>3, LeastIsMember
  <2>5. LevelAfter(points, level, floor) = Min(payable)
    BY <1>2 DEF LevelAfter, payable
  <2>. QED
    BY <2>4, <2>5
<1>. QED
  BY <1>1, <1>2

LEMMA SiegeLowers ==
    ASSUME NEW battle, battle.survivors \in Troops, battle.attackerPrevailed \in BOOLEAN,
           NEW wallLevel \in Nat, NEW siegeTarget, NEW targetLevel \in Nat,
           NEW siege, siege = resolveSiegePass(battle, wallLevel, siegeTarget, targetLevel)
    PROVE  /\ siege.wallLevelAfter \in 0 .. wallLevel
           /\ siege.targetLevelAfter \in 0 .. targetLevel
           /\ ~battle.attackerPrevailed =>
                siege.wallLevelAfter = wallLevel /\ siege.targetLevelAfter = targetLevel
           /\ siege.targetLevelAfter < targetLevel => siege.wallLevelAfter = 0
           /\ siegeTarget = "commandCenter" /\ targetLevel >= CommandCenterFloor =>
                siege.targetLevelAfter >= CommandCenterFloor
<1>. DEFINE wallDamage == [t \in Types |-> Unit[t].wallDamage]
            buildingDamage == [t \in Types |-> Unit[t].buildingDamage]
            wallPoints == Total(wallDamage, battle.survivors)
            buildingPoints == Total(buildingDamage, battle.survivors)
            floor == IF siegeTarget = "commandCenter" THEN CommandCenterFloor ELSE 0
            wallAfter == IF battle.attackerPrevailed THEN LevelAfter(wallPoints, wallLevel, 0)
                         ELSE wallLevel
            targetAfter == IF battle.attackerPrevailed /\ siegeTarget # "wall" /\ wallAfter = 0
                           THEN LevelAfter(buildingPoints, targetLevel, floor) ELSE targetLevel
<1>1. wallDamage \in [Types -> Nat] /\ buildingDamage \in [Types -> Nat]
  BY CombatAssumption
<1>2. wallPoints \in Nat /\ buildingPoints \in Nat
  BY <1>1, TotalIsNat
<1>3. floor \in Nat
  BY WarfareAssumption
<1>4. siege = [wallLevelAfter |-> wallAfter, targetLevelAfter |-> targetAfter]
  BY DEF resolveSiegePass
<1>. HIDE DEF wallPoints, buildingPoints
<1>5. LevelAfter(wallPoints, wallLevel, 0) \in 0 .. wallLevel
  BY <1>2, LevelFalls
<1>6. /\ LevelAfter(buildingPoints, targetLevel, floor) \in 0 .. targetLevel
      /\ targetLevel >= floor => LevelAfter(buildingPoints, targetLevel, floor) >= floor
  BY <1>2, <1>3, LevelFalls
<1>. QED
  BY <1>3, <1>4, <1>5, <1>6

LEMMA NothingIsGoods == Nothing \in Goods
BY DEF Nothing, Goods

LEMMA LootIsStored ==
    ASSUME NEW battle, battle.lootCapacity \in Nat, battle.attackerPrevailed \in BOOLEAN,
           NEW stored \in Goods, NEW cacheLevel, hiddenCacheProtection(cacheLevel) \in Nat,
           NEW loot, loot = resolveLoot(battle, stored, cacheLevel)
    PROVE  /\ loot \in Goods
           /\ \A r \in RESOURCE_KINDS : loot[r] <= stored[r]
           /\ ~battle.attackerPrevailed => loot = Nothing
<1>. DEFINE protection == hiddenCacheProtection(cacheLevel)
            available == [r \in RESOURCE_KINDS |->
                            IF stored[r] > protection THEN stored[r] - protection ELSE 0]
            total == SumFunction(available)
            shares == [r \in RESOURCE_KINDS |-> (battle.lootCapacity * available[r]) \div total]
<1>. HIDE DEF protection
<1>1. protection \in Nat
  BY DEF protection
<1>2. available \in Goods /\ \A r \in RESOURCE_KINDS : available[r] <= stored[r]
  BY <1>1 DEF Goods
<1>3. loot = IF ~battle.attackerPrevailed THEN Nothing
             ELSE IF total <= battle.lootCapacity THEN available ELSE shares
  BY DEF resolveLoot, Nothing, protection
<1>. HIDE DEF available
<1>4. total \in Nat
  BY <1>2, CombatAssumption, TotalNat DEF Goods
<1>5. ASSUME ~(total <= battle.lootCapacity)
      PROVE  shares \in Goods /\ \A r \in RESOURCE_KINDS : shares[r] <= stored[r]
  <2>1. battle.lootCapacity < total
    BY <1>4, <1>5
  <2>. HIDE DEF total
  <2>2. ASSUME NEW r \in RESOURCE_KINDS
        PROVE  shares[r] \in Nat /\ shares[r] <= available[r]
    <3>1. available[r] \in Nat
      BY <1>2 DEF Goods
    <3>. QED
      BY <1>4, <2>1, <3>1, ShareAtMost
  <2>3. ASSUME NEW r \in RESOURCE_KINDS PROVE shares[r] <= stored[r]
    <3>1. available[r] \in Nat /\ stored[r] \in Nat /\ available[r] <= stored[r]
      BY <1>2 DEF Goods
    <3>. HIDE DEF shares
    <3>. QED
      BY <2>2, <3>1
  <2>. QED
    BY <2>2, <2>3 DEF Goods
<1>6. \A r \in RESOURCE_KINDS : Nothing[r] = 0 /\ stored[r] \in Nat
  BY DEF Nothing, Goods
<1>. HIDE DEF shares, total
<1>7. CASE ~battle.attackerPrevailed
  BY <1>3, <1>6, <1>7, NothingIsGoods
<1>8. CASE battle.attackerPrevailed /\ total <= battle.lootCapacity
  BY <1>2, <1>3, <1>8
<1>9. CASE battle.attackerPrevailed /\ ~(total <= battle.lootCapacity)
  BY <1>3, <1>5, <1>9
<1>. QED
  BY <1>7, <1>8, <1>9

LEMMA TablesCover ==
    ASSUME NEW buildings, Standing(buildings)
    PROVE  /\ calcStorageCaps(buildings) \in Goods
           /\ hiddenCacheProtection(buildings["hiddenCache"]) \in Nat
           /\ FoodOutput[buildings["greenhouseFarm"]] \in Nat
           /\ calcFoodUpkeepPerHour(buildings) \in Nat
<1>1. ASSUME NEW b \in Building
      PROVE  buildings[b] \in 0 .. Levels[b]
  BY WarfareAssumption DEF Standing
<1>2. ASSUME NEW r \in RESOURCE_KINDS
      PROVE  Cap[r][buildings[StoreOf[r]]] \in Nat
  <2>1. StoreOf[r] \in Building
    BY WarfareAssumption
  <2>. QED
    BY <1>1, <2>1, WarfareAssumption
<1>3. calcStorageCaps(buildings) \in Goods
  BY <1>2 DEF calcStorageCaps, Goods
<1>4. hiddenCacheProtection(buildings["hiddenCache"]) \in Nat
  <2>1. buildings["hiddenCache"] \in 0 .. Levels["hiddenCache"]
    BY <1>1, WarfareAssumption
  <2>2. Levels["hiddenCache"] \in Nat
    BY WarfareAssumption
  <2>. QED
    BY <2>1, <2>2, WarfareAssumption DEF hiddenCacheProtection
<1>5. FoodOutput[buildings["greenhouseFarm"]] \in Nat
  BY <1>1, WarfareAssumption
<1>6. calcFoodUpkeepPerHour(buildings) \in Nat
  <2>1. [b \in Building |-> FoodUpkeep[b][buildings[b]]] \in [Building -> Nat]
    BY <1>1, WarfareAssumption
  <2>. QED
    BY <2>1, TotalNat, WarfareAssumption DEF calcFoodUpkeepPerHour
<1>. QED
  BY <1>3, <1>4, <1>5, <1>6

LEMMA UpkeepType ==
    ASSUME NEW troops \in Troops
    PROVE  calcTroopFoodUpkeepPerHour(troops) \in Nat
<1>1. [t \in Types |-> Unit[t].upkeep] \in [Types -> Nat]
  BY CombatAssumption
<1>. QED
  BY <1>1, TotalIsNat DEF calcTroopFoodUpkeepPerHour

\* What a town grows less what it feeds whatever hunger does: its buildings
\* and whoever is away.
Fixed(t) == FoodOutput[t.buildings["greenhouseFarm"]] - calcFoodUpkeepPerHour(t.buildings)
            - calcTroopFoodUpkeepPerHour(t.awayTroops)

LEMMA FixedType ==
    ASSUME NEW t \in TownType, Standing(t.buildings)
    PROVE  /\ Fixed(t) \in Int
           /\ FoodOutput[t.buildings["greenhouseFarm"]] \in Nat
           /\ calcFoodUpkeepPerHour(t.buildings) \in Nat
           /\ calcTroopFoodUpkeepPerHour(t.awayTroops) \in Nat
<1>1. /\ FoodOutput[t.buildings["greenhouseFarm"]] \in Nat
      /\ calcFoodUpkeepPerHour(t.buildings) \in Nat
  BY TablesCover
<1>2. calcTroopFoodUpkeepPerHour(t.awayTroops) \in Nat
  BY UpkeepType DEF TownType
<1>. QED
  BY <1>1, <1>2 DEF Fixed

LEMMA NetFoodType ==
    ASSUME NEW t \in TownType, Standing(t.buildings)
    PROVE  calcNetFoodPerHour(t) \in Int
<1>1. Contingents(t.stationed, Supporter)
  BY WarfareAssumption DEF TownType, Contingents
<1>2. unionTroops(t.stationed) \in Troops /\ t.troops \in Troops
  BY <1>1, UnionIsTroops DEF TownType
<1>3. /\ calcTroopFoodUpkeepPerHour(unionTroops(t.stationed)) \in Nat
      /\ calcTroopFoodUpkeepPerHour(t.troops) \in Nat
  BY <1>2, UpkeepType
<1>. QED
  BY <1>3, FixedType DEF calcNetFoodPerHour

LEMMA SettlingIsGoods ==
    ASSUME NEW t \in TownType, Standing(t.buildings)
    PROVE  settleResources(t) \in Goods
<1>. DEFINE net == calcNetFoodPerHour(t)
            caps == calcStorageCaps(t.buildings)
<1>1. net \in Int /\ caps \in Goods /\ t.values \in Goods
  BY NetFoodType, TablesCover DEF TownType
<1>2. settleResources(t) = [r \in RESOURCE_KINDS |->
        LET rate == IF r = "food" THEN net ELSE Production[r]
            grown == t.values[r] + rate
        IN  IF rate > 0 THEN Min({grown, Max({caps[r], t.values[r]})}) ELSE Max({0, grown})]
  BY DEF settleResources
<1>. HIDE DEF net, caps
<1>3. ASSUME NEW r \in RESOURCE_KINDS, NEW rate \in Int
      PROVE  /\ rate > 0 => Min({t.values[r] + rate, Max({caps[r], t.values[r]})}) \in Nat
             /\ Max({0, t.values[r] + rate}) \in Nat
  <2>1. t.values[r] \in Nat /\ caps[r] \in Nat
    BY <1>1 DEF Goods
  <2>2. Max({caps[r], t.values[r]}) \in Nat /\ Max({0, t.values[r] + rate}) \in Nat
    BY <2>1, MaxIs
  <2>3. ASSUME NEW top \in Nat, rate > 0 PROVE Min({t.values[r] + rate, top}) \in Nat
    <3>1. t.values[r] + rate \in Nat
      BY <2>1, <2>3
    <3>. QED
      BY <2>3, <3>1, MinIs
  <2>. QED
    BY <2>2, <2>3
<1>4. \A r \in RESOURCE_KINDS : (IF r = "food" THEN net ELSE Production[r]) \in Int
  BY <1>1, WarfareAssumption
<1>. QED
  BY <1>2, <1>3, <1>4 DEF Goods

------------------------------------------------------------------------------
\* Armies on their way, and the spoils.

\* The army of movement m has fought or scouted: it turns back with its loot,
\* or is gone with nothing.
ComesBack(m, survivors, losses, loot) ==
    /\ movement[m].status = "outbound"
    /\ survivors \in Troops /\ losses \in Troops /\ loot \in Goods
    /\ survivors = Nobody => loot = Nothing
    /\ AfterBattle(m, survivors, loot)
    /\ home' = [home EXCEPT !.awayTroops = Minus(@, losses)]
    /\ spoils' = [spoils EXCEPT ![m].taken = loot]
    /\ plundered' = [r \in RESOURCE_KINDS |-> plundered[r] + loot[r]]

LEMMA ComesBackTypes ==
    ASSUME ArmyTypes, NEW m \in Movement, NEW survivors, NEW losses, NEW loot,
           ComesBack(m, survivors, losses, loot)
    PROVE  ArmyTypes'
<1>1. home' \in HomeType
  <2>1. home.awayTroops \in Troops /\ losses \in Troops
    BY DEF ArmyTypes, HomeType, ComesBack
  <2>2. Minus(home.awayTroops, losses) \in Troops
    BY <2>1, MinusIsTroops
  <2>. QED
    BY <2>2 DEF ArmyTypes, HomeType, ComesBack
<1>2. movement' \in [Movement -> MovementType]
  BY DEF ArmyTypes, MovementType, ComesBack, AfterBattle
<1>3. spoils' \in [Movement -> SpoilsType]
  BY DEF ArmyTypes, SpoilsType, ComesBack
<1>4. plundered' \in Deltas
  BY DEF ArmyTypes, Deltas, Goods, ComesBack
<1>. QED
  BY <1>1, <1>2, <1>3, <1>4 DEF ArmyTypes

\* One resource on its way home or lost there, movement by movement.
Cargo(r) == [m \in Movement |-> Underway(m)[r] + spoils[m].lost[r]]

\* What was taken is cargo or has been credited; a report that is finished
\* adds up.
StoresBalance == \A r \in RESOURCE_KINDS :
    plundered[r] = SumFunction(Cargo(r)) + home.values[r] - HomeStock[r]
ReportsAddUp == \A m \in Movement : movement[m].status = "done" =>
    \A r \in RESOURCE_KINDS : spoils[m].taken[r] = spoils[m].delivered[r] + spoils[m].lost[r]

LEMMA ConservedIs == SpoilsConserved <=> StoresBalance /\ ReportsAddUp
BY DEF SpoilsConserved, StoresBalance, ReportsAddUp, Cargo

LEMMA ConservedIsNext == SpoilsConserved' <=> StoresBalance' /\ ReportsAddUp'
BY DEF SpoilsConserved, StoresBalance, ReportsAddUp, Cargo

LEMMA CargoType ==
    ASSUME ArmyTypes, NEW r \in RESOURCE_KINDS
    PROVE  Cargo(r) \in [Movement -> Int]
<1>1. ASSUME NEW m \in Movement
      PROVE  Underway(m)[r] \in Int /\ spoils[m].lost[r] \in Int
  <2>1. movement[m].loot \in Goods /\ Nothing \in Goods /\ spoils[m].lost \in Deltas
    BY NothingIsGoods DEF ArmyTypes, MovementType, SpoilsType
  <2>. QED
    BY <2>1 DEF Underway, Goods, Deltas
<1>. QED
  BY <1>1 DEF Cargo

LEMMA CargoTypeNext ==
    ASSUME ArmyTypes', NEW r \in RESOURCE_KINDS
    PROVE  Cargo(r)' \in [Movement -> Int]
<1>1. ASSUME NEW m \in Movement
      PROVE  Underway(m)'[r] \in Int /\ spoils'[m].lost[r] \in Int
  <2>1. movement'[m].loot \in Goods /\ Nothing \in Goods /\ spoils'[m].lost \in Deltas
    BY NothingIsGoods DEF ArmyTypes, MovementType, SpoilsType
  <2>. QED
    BY <2>1 DEF Underway, Goods, Deltas
<1>. QED
  BY <1>1 DEF Cargo

LEMMA ComesBackOnTheWay ==
    ASSUME ArmyTypes, SpoilsOnTheWay, NEW m \in Movement, NEW survivors, NEW losses, NEW loot,
           ComesBack(m, survivors, losses, loot)
    PROVE  SpoilsOnTheWay'
<1>. SUFFICES ASSUME NEW n \in Movement
              PROVE  /\ movement'[n].status \in {"none", "outbound"} => spoils'[n].taken = Nothing
                     /\ movement'[n].status # "done" =>
                           spoils'[n].delivered = Nothing /\ spoils'[n].lost = Nothing
                     /\ movement'[n].status = "returning" => spoils'[n].taken = movement'[n].loot
  BY DEF SpoilsOnTheWay
<1>1. CASE n = m
  BY <1>1 DEF ArmyTypes, MovementType, SpoilsType, SpoilsOnTheWay, ComesBack, AfterBattle
<1>2. CASE n # m
  <2>1. movement'[n] = movement[n] /\ spoils'[n] = spoils[n]
    BY <1>2 DEF ArmyTypes, ComesBack, AfterBattle
  <2>. QED
    BY <2>1 DEF SpoilsOnTheWay
<1>. QED
  BY <1>1, <1>2

LEMMA ComesBackConserves ==
    ASSUME ArmyTypes, SpoilsOnTheWay, SpoilsConserved, NEW m \in Movement, NEW survivors,
           NEW losses, NEW loot, ComesBack(m, survivors, losses, loot)
    PROVE  SpoilsConserved'
<1>1. ArmyTypes'
  BY ComesBackTypes
<1>2. /\ movement'[m].status = IF survivors = Nobody THEN "done" ELSE "returning"
      /\ movement'[m].loot = loot /\ movement[m].status = "outbound"
      /\ survivors = Nobody => loot = Nothing
      /\ spoils'[m].taken = loot /\ spoils'[m].lost = spoils[m].lost
      /\ spoils'[m].delivered = spoils[m].delivered
      /\ loot \in Goods
      /\ home'.values = home.values
      /\ plundered' = [r \in RESOURCE_KINDS |-> plundered[r] + loot[r]]
  BY DEF ArmyTypes, HomeType, MovementType, SpoilsType, ComesBack, AfterBattle
<1>3. spoils[m].lost = Nothing /\ spoils[m].delivered = Nothing
  BY <1>2 DEF SpoilsOnTheWay
<1>4. \A n \in Movement : n # m => movement'[n] = movement[n] /\ spoils'[n] = spoils[n]
  BY DEF ArmyTypes, ComesBack, AfterBattle
<1>5. Underway(m) = Nothing /\ Underway(m)' = loot
  BY <1>2 DEF Underway
<1>6. \A n \in Movement : n # m => Underway(n)' = Underway(n)
  BY <1>4 DEF Underway
<1>7. ASSUME NEW r \in RESOURCE_KINDS
      PROVE  plundered'[r] = SumFunction(Cargo(r)') + home'.values[r] - HomeStock[r]
  <2>. DEFINE f == Cargo(r)
              g == Cargo(r)'
  <2>1. f \in [Movement -> Int] /\ g \in [Movement -> Int]
    BY <1>1, CargoType, CargoTypeNext
  <2>2. f[m] = 0 /\ g[m] = loot[r] /\ loot[r] \in Nat
    BY <1>2, <1>3, <1>5 DEF Cargo, Nothing, Goods
  <2>3. \A n \in Movement : n # m => g[n] = f[n]
    BY <1>4, <1>6 DEF Cargo
  <2>4. plundered[r] = SumFunction(f) + home.values[r] - HomeStock[r]
    BY ConservedIs DEF StoresBalance
  <2>5. plundered'[r] = plundered[r] + loot[r]
    BY <1>2
  <2>6. home.values[r] \in Int /\ HomeStock[r] \in Int
    BY WarfareAssumption DEF ArmyTypes, HomeType, Goods
  <2>. HIDE DEF f, g
  <2>7. DifferAt(Movement, f, g, m)
    BY <2>1, <2>3, WarfareAssumption DEF DifferAt
  <2>8. /\ SumFunction(f) \in Int /\ SumFunction(g) \in Int
        /\ SumFunction(g) = SumFunction(f) + g[m] - f[m]
    BY <2>7, TotalMoves
  <2>9. plundered'[r] = SumFunction(g) + home'.values[r] - HomeStock[r]
    BY <1>2, <2>2, <2>4, <2>5, <2>6, <2>8
  <2>. QED
    BY <2>9 DEF g
<1>8. ASSUME NEW n \in Movement, movement'[n].status = "done", NEW r \in RESOURCE_KINDS
      PROVE  spoils'[n].taken[r] = spoils'[n].delivered[r] + spoils'[n].lost[r]
  <2>1. CASE n = m
    BY <1>2, <1>3, <1>8, <2>1 DEF Nothing
  <2>2. CASE n # m
    BY <1>4, <1>8, <2>2, ConservedIs DEF ReportsAddUp
  <2>. QED
    BY <2>1, <2>2
<1>. QED
  BY <1>7, <1>8, ConservedIsNext DEF StoresBalance, ReportsAddUp

\* A return credits what fits and writes down what does not.
LEMMA ReturnKeeps ==
    ASSUME ArmyTypes, SpoilsOnTheWay, SpoilsConserved, NEW m \in Movement, MovementReturn(m)
    PROVE  ArmyTypes' /\ SpoilsOnTheWay' /\ SpoilsConserved'
<1>. DEFINE loot == movement[m].loot
            credited == creditResourcesClamped(home.values, loot)
            delivered == [r \in RESOURCE_KINDS |-> credited[r] - home.values[r]]
            lost == [r \in RESOURCE_KINDS |-> loot[r] - delivered[r]]
<1>1. /\ home' = [values |-> credited, troops |-> Plus(home.troops, movement[m].survivors),
                  awayTroops |-> Minus(home.awayTroops, movement[m].survivors)]
      /\ spoils' = [spoils EXCEPT ![m].delivered = delivered, ![m].lost = lost]
      /\ movement' = [movement EXCEPT ![m].status = "done"]
      /\ movement[m].status = "returning" /\ plundered' = plundered
  BY DEF MovementReturn
<1>2. /\ home.values \in Goods /\ home.troops \in Troops /\ home.awayTroops \in Troops
      /\ loot \in Goods /\ movement[m].survivors \in Troops
  BY DEF ArmyTypes, HomeType, MovementType
<1>3. credited \in Goods
  <2>1. ASSUME NEW r \in RESOURCE_KINDS
        PROVE  Min({Cap[r][0], home.values[r] + loot[r]}) \in Nat
    <3>1. 0 \in 0 .. Levels[StoreOf[r]]
      BY WarfareAssumption
    <3>2. Cap[r][0] \in Nat
      BY <3>1, WarfareAssumption
    <3>3. home.values[r] + loot[r] \in Nat
      BY <1>2 DEF Goods
    <3>. QED
      BY <3>2, <3>3, MinIs
  <2>. QED
    BY <2>1 DEF creditResourcesClamped, Goods
<1>. HIDE DEF credited
<1>4. delivered \in Deltas /\ lost \in Deltas
  BY <1>2, <1>3 DEF Goods, Deltas
<1>5. /\ Plus(home.troops, movement[m].survivors) \in Troops
      /\ Minus(home.awayTroops, movement[m].survivors) \in Troops
  BY <1>2, PlusIsTroops, MinusIsTroops
<1>6. \A r \in RESOURCE_KINDS :
        /\ delivered[r] + lost[r] = loot[r] /\ lost[r] \in Int /\ delivered[r] \in Int
        /\ delivered[r] = credited[r] - home.values[r] /\ loot[r] \in Nat
        /\ credited[r] \in Int /\ home.values[r] \in Int
  BY <1>2, <1>3 DEF Goods
<1>. HIDE DEF delivered, lost
<1>7. ArmyTypes'
  <2>1. home' \in HomeType
    BY <1>1, <1>3, <1>5 DEF HomeType
  <2>2. movement' \in [Movement -> MovementType]
    BY <1>1 DEF ArmyTypes, MovementType
  <2>3. spoils' \in [Movement -> SpoilsType]
    BY <1>1, <1>4 DEF ArmyTypes, SpoilsType
  <2>. QED
    BY <1>1, <2>1, <2>2, <2>3 DEF ArmyTypes
<1>8. /\ movement'[m].status = "done" /\ movement'[m].loot = loot
      /\ spoils'[m].taken = spoils[m].taken /\ spoils'[m].delivered = delivered
      /\ spoils'[m].lost = lost
      /\ \A n \in Movement : n # m => movement'[n] = movement[n] /\ spoils'[n] = spoils[n]
  BY <1>1 DEF ArmyTypes, MovementType, SpoilsType
<1>9. SpoilsOnTheWay'
  BY <1>8 DEF SpoilsOnTheWay
<1>10. Underway(m) = loot /\ Underway(m)' = Nothing /\ spoils[m].taken = loot
       /\ spoils[m].lost = Nothing
  BY <1>1, <1>8 DEF Underway, SpoilsOnTheWay
<1>11. \A n \in Movement : n # m => Underway(n)' = Underway(n)
  BY <1>8 DEF Underway
<1>12. ASSUME NEW r \in RESOURCE_KINDS
       PROVE  plundered'[r] = SumFunction(Cargo(r)') + home'.values[r] - HomeStock[r]
  <2>. DEFINE f == Cargo(r)
              g == Cargo(r)'
  <2>1. f \in [Movement -> Int] /\ g \in [Movement -> Int]
    BY <1>7, CargoType, CargoTypeNext
  <2>2. f[m] = loot[r] /\ g[m] = lost[r]
    BY <1>6, <1>8, <1>10 DEF Cargo, Nothing
  <2>3. \A n \in Movement : n # m => g[n] = f[n]
    BY <1>8, <1>11 DEF Cargo
  <2>4. plundered[r] = SumFunction(f) + home.values[r] - HomeStock[r]
    BY ConservedIs DEF StoresBalance
  <2>5. home'.values[r] = credited[r] /\ HomeStock[r] \in Int /\ plundered' = plundered
    BY <1>1, WarfareAssumption
  <2>. HIDE DEF f, g
  <2>6. DifferAt(Movement, f, g, m)
    BY <2>1, <2>3, WarfareAssumption DEF DifferAt
  <2>7. /\ SumFunction(f) \in Int /\ SumFunction(g) \in Int
        /\ SumFunction(g) = SumFunction(f) + g[m] - f[m]
    BY <2>6, TotalMoves
  <2>8. plundered'[r] = SumFunction(g) + home'.values[r] - HomeStock[r]
    BY <1>6, <2>2, <2>4, <2>5, <2>7
  <2>. QED
    BY <2>8 DEF g
<1>13. ASSUME NEW n \in Movement, movement'[n].status = "done", NEW r \in RESOURCE_KINDS
       PROVE  spoils'[n].taken[r] = spoils'[n].delivered[r] + spoils'[n].lost[r]
  <2>1. CASE n = m
    BY <1>6, <1>8, <1>10, <2>1
  <2>2. CASE n # m
    BY <1>8, <1>13, <2>2, ConservedIs DEF ReportsAddUp
  <2>. QED
    BY <2>1, <2>2
<1>. QED
  BY <1>7, <1>9, <1>12, <1>13, ConservedIsNext DEF StoresBalance, ReportsAddUp

\* An order takes the troops it sends, and brings nothing yet.
LEMMA SendKeeps ==
    ASSUME ArmyTypes, SpoilsOnTheWay, SpoilsConserved, NEW m \in Movement,
           NEW to \in {"town", "oasis"}, NEW type \in {"scout", "raid", "assault"},
           NEW units \in Troops, NEW target \in Building \cup {"none"},
           SendMovement(m, to, type, units, target)
    PROVE  ArmyTypes' /\ SpoilsOnTheWay' /\ SpoilsConserved'
<1>. DEFINE sent == [Absent EXCEPT !.status = "outbound", !.to = to, !.type = type,
                                   !.units = units, !.siegeTarget = target]
<1>1. /\ home' = [home EXCEPT !.troops = Minus(@, units), !.awayTroops = Plus(@, units)]
      /\ movement' = [movement EXCEPT ![m] = sent] /\ movement[m].status = "none"
      /\ spoils' = spoils /\ plundered' = plundered
  BY DEF SendMovement
<1>2. sent \in MovementType /\ sent.status = "outbound"
  <2>1. Absent \in MovementType
    BY NothingIsGoods, NobodyIsTroops DEF Absent, MovementType
  <2>. QED
    BY <2>1 DEF MovementType
<1>3. home.troops \in Troops /\ home.awayTroops \in Troops
  BY DEF ArmyTypes, HomeType
<1>4. Minus(home.troops, units) \in Troops /\ Plus(home.awayTroops, units) \in Troops
  BY <1>3, PlusIsTroops, MinusIsTroops
<1>5. home' \in HomeType /\ home'.values = home.values
  BY <1>1, <1>4 DEF ArmyTypes, HomeType
<1>6. /\ movement'[m].status = "outbound"
      /\ \A n \in Movement : n # m => movement'[n] = movement[n]
      /\ movement' \in [Movement -> MovementType]
  BY <1>1, <1>2 DEF ArmyTypes
<1>7. ArmyTypes'
  BY <1>1, <1>5, <1>6 DEF ArmyTypes
<1>8. SpoilsOnTheWay'
  BY <1>1, <1>6 DEF SpoilsOnTheWay
<1>9. \A n \in Movement : Underway(n)' = Underway(n)
  BY <1>1, <1>6 DEF Underway
<1>10. \A r \in RESOURCE_KINDS : Cargo(r)' = Cargo(r)
  BY <1>1, <1>9 DEF Cargo
<1>11. StoresBalance'
  BY <1>1, <1>5, <1>10, ConservedIs DEF StoresBalance
<1>12. ReportsAddUp'
  BY <1>1, <1>6, ConservedIs DEF ReportsAddUp
<1>. QED
  BY <1>7, <1>8, <1>11, <1>12, ConservedIsNext

\* What neither an army nor the attacker's store takes part in.
LEMMA ElsewhereKeeps ==
    ASSUME ArmyTypes, SpoilsOnTheWay, SpoilsConserved,
           UNCHANGED << home, movement, spoils, plundered >>
    PROVE  ArmyTypes' /\ SpoilsOnTheWay' /\ SpoilsConserved'
<1>1. ArmyTypes' /\ SpoilsOnTheWay'
  BY DEF ArmyTypes, SpoilsOnTheWay
<1>2. \A n \in Movement : Underway(n)' = Underway(n)
  BY DEF Underway
<1>3. \A r \in RESOURCE_KINDS : Cargo(r)' = Cargo(r)
  BY <1>2 DEF Cargo
<1>4. StoresBalance' /\ ReportsAddUp'
  BY <1>3, ConservedIs DEF StoresBalance, ReportsAddUp
<1>. QED
  BY <1>1, <1>4, ConservedIsNext

------------------------------------------------------------------------------
\* The attack on the town.

Parties == Supporter \cup {HOME_CONTINGENT_KEY}
Odds(m) == BattleOdds(movement[m].units, unionTroops(Defenders), town.buildings["wall"], Roll[m])
LootOf(m) == resolveLoot(Battle(m), town.values, town.buildings["hiddenCache"])
BuildingsAfter(m) == LevelsAfterSiege(m, Battle(m))

\* What a battle may do to the town: take what is stored, after a victory,
\* and lower levels, the wall first.
Struck(m) ==
    /\ Fought(Battle(m), movement[m].units, Defenders, Parties, Odds(m))
    /\ LootOf(m) \in Goods
    /\ \A r \in RESOURCE_KINDS : LootOf(m)[r] <= town.values[r]
    /\ Standing(BuildingsAfter(m))
    /\ ~Battle(m).attackerPrevailed => LootOf(m) = Nothing /\ BuildingsAfter(m) = town.buildings
    /\ \A b \in Building \ {"wall"} : BuildingsAfter(m)[b] < town.buildings[b] =>
          BuildingsAfter(m)["wall"] = 0

LEMMA DefendersAre ==
    ASSUME TownTypes
    PROVE  Contingents(Defenders, Parties) /\ unionTroops(Defenders) \in Troops
<1>1. IsFiniteSet(Parties)
  BY WarfareAssumption, FS_AddElement DEF Parties
<1>2. Contingents(Defenders, Parties)
  BY <1>1 DEF Contingents, Defenders, Parties, TownTypes, TownType
<1>. QED
  BY <1>2, UnionIsTroops

LEMMA AttackStrikes ==
    ASSUME TownTypes, Standing(town.buildings), NEW m \in Movement, movement[m] \in MovementType
    PROVE  Struck(m)
<1>. DEFINE target == movement[m].siegeTarget
            level == IF target \in Building THEN town.buildings[target] ELSE 0
            siege == resolveSiegePass(Battle(m), town.buildings["wall"], target, level)
            after == BuildingsAfter(m)
<1>1. Fought(Battle(m), movement[m].units, Defenders, Parties, Odds(m))
  <2>1. movement[m].units \in Troops
    BY DEF MovementType
  <2>. QED
    BY <2>1, DefendersAre, Battles DEF Battle, Odds, resolveBattle
<1>2. /\ Battle(m).survivors \in Troops /\ Battle(m).attackerPrevailed \in BOOLEAN
      /\ Battle(m).lootCapacity \in Nat
  BY <1>1 DEF Fought
<1>3. town.values \in Goods /\ hiddenCacheProtection(town.buildings["hiddenCache"]) \in Nat
  BY TablesCover DEF TownTypes, TownType
<1>4. /\ LootOf(m) \in Goods
      /\ \A r \in RESOURCE_KINDS : LootOf(m)[r] <= town.values[r]
      /\ ~Battle(m).attackerPrevailed => LootOf(m) = Nothing
  BY <1>2, <1>3, LootIsStored DEF LootOf
<1>5. "wall" \in Building /\ town.buildings["wall"] \in Nat /\ level \in Nat
  BY WarfareAssumption DEF Standing
<1>. HIDE DEF level
<1>6. /\ siege.wallLevelAfter \in 0 .. town.buildings["wall"]
      /\ siege.targetLevelAfter \in 0 .. level
      /\ ~Battle(m).attackerPrevailed =>
           siege.wallLevelAfter = town.buildings["wall"] /\ siege.targetLevelAfter = level
      /\ siege.targetLevelAfter < level => siege.wallLevelAfter = 0
      /\ target = "commandCenter" /\ level >= CommandCenterFloor =>
           siege.targetLevelAfter >= CommandCenterFloor
  BY <1>2, <1>5, SiegeLowers
<1>7. after = IF movement[m].type # "assault" \/ target = "none" THEN town.buildings
              ELSE [b \in Building |-> CASE b = "wall" -> siege.wallLevelAfter
                                         [] b # "wall" /\ b = target -> siege.targetLevelAfter
                                         [] OTHER -> town.buildings[b]]
  BY DEF BuildingsAfter, LevelsAfterSiege, level
<1>. HIDE DEF siege, after
<1>8. target \in Building => level = town.buildings[target]
  BY DEF level
<1>9. ASSUME NEW b \in Building
      PROVE  /\ after[b] \in Nat /\ after[b] <= town.buildings[b]
             /\ b = "commandCenter" => after[b] >= CommandCenterFloor
             /\ ~Battle(m).attackerPrevailed => after[b] = town.buildings[b]
             /\ b # "wall" /\ after[b] < town.buildings[b] => after["wall"] = 0
  <2>1. town.buildings[b] \in Nat /\ CommandCenterFloor \in Nat
        /\ (b = "commandCenter" => town.buildings[b] >= CommandCenterFloor)
    BY WarfareAssumption DEF Standing
  <2>2. CASE movement[m].type # "assault" \/ target = "none"
    BY <1>7, <2>1, <2>2
  <2>3. CASE movement[m].type = "assault" /\ target # "none" /\ b = "wall"
    <3>1. after[b] = siege.wallLevelAfter
      BY <1>7, <2>3
    <3>. QED
      BY <1>6, <2>1, <2>3, <3>1
  <2>4. CASE movement[m].type = "assault" /\ target # "none" /\ b # "wall" /\ b = target
    <3>1. after[b] = siege.targetLevelAfter /\ after["wall"] = siege.wallLevelAfter
      BY <1>5, <1>7, <2>4
    <3>. QED
      BY <1>6, <1>8, <2>1, <2>4, <3>1
  <2>5. CASE movement[m].type = "assault" /\ target # "none" /\ b # "wall" /\ b # target
    <3>1. after[b] = town.buildings[b]
      BY <1>7, <2>5
    <3>. QED
      BY <2>1, <3>1
  <2>. QED
    BY <2>2, <2>3, <2>4, <2>5
<1>10. after \in [Building -> Nat] /\ DOMAIN town.buildings = Building
       /\ town.buildings \in [Building -> Nat]
  BY <1>7, <1>9 DEF Standing
<1>11. Standing(after)
  <2>1. \A b \in Building : town.buildings[b] \in Nat /\ town.buildings[b] <= Levels[b]
                            /\ Levels[b] \in Nat
    BY WarfareAssumption DEF Standing
  <2>2. "commandCenter" \in Building
    BY WarfareAssumption
  <2>. QED
    BY <1>9, <1>10, <2>1, <2>2 DEF Standing
<1>12. ~Battle(m).attackerPrevailed => after = town.buildings
  BY <1>9, <1>10
<1>. QED
  BY <1>1, <1>4, <1>9, <1>11, <1>12 DEF Struck, after

\* The whole arrival, with its parts named.
LEMMA BattleIs ==
    ASSUME NEW m \in Movement, BattleArrives(m)
    PROVE  /\ movement[m].status = "outbound" /\ movement[m].to = "town"
           /\ movement[m].type # "scout" /\ now' = now
           /\ town' = [town EXCEPT
                !.troops = Minus(@, Battle(m).defenders[HOME_CONTINGENT_KEY]),
                !.stationed = [k \in Supporter |-> Minus(@[k], Battle(m).defenders[k])],
                !.buildings = BuildingsAfter(m),
                !.values = IF movement[m].siegeTarget = "none"
                           THEN [r \in RESOURCE_KINDS |-> town.values[r] - LootOf(m)[r]]
                           ELSE [r \in RESOURCE_KINDS |-> Min({town.values[r] - LootOf(m)[r],
                                    calcStorageCaps(BuildingsAfter(m))[r]})]]
           /\ AfterBattle(m, Battle(m).survivors, LootOf(m))
           /\ home' = [home EXCEPT !.awayTroops = Minus(@, Battle(m).losses)]
           /\ reports' = reports \cup AttackReports(m) \cup DefenceReports(m, BuildingsAfter(m))
                                 \cup SupportLossReports(m, Battle(m))
           /\ spoils' = [spoils EXCEPT ![m].taken = LootOf(m)]
           /\ plundered' = [r \in RESOURCE_KINDS |-> plundered[r] + town.values[r]
                                - (town.values[r] - LootOf(m)[r])]
<1>. DEFINE left == [r \in RESOURCE_KINDS |-> town.values[r] - LootOf(m)[r]]
            caps == calcStorageCaps(BuildingsAfter(m))
            values == IF movement[m].siegeTarget = "none" THEN left
                      ELSE [r \in RESOURCE_KINDS |-> Min({left[r], caps[r]})]
<1>1. /\ movement[m].status = "outbound" /\ movement[m].to = "town"
      /\ movement[m].type # "scout" /\ now' = now
      /\ town' = [town EXCEPT
           !.troops = Minus(@, Battle(m).defenders[HOME_CONTINGENT_KEY]),
           !.stationed = [k \in Supporter |-> Minus(@[k], Battle(m).defenders[k])],
           !.buildings = BuildingsAfter(m), !.values = values]
      /\ AfterBattle(m, Battle(m).survivors, LootOf(m))
      /\ home' = [home EXCEPT !.awayTroops = Minus(@, Battle(m).losses)]
      /\ reports' = reports \cup AttackReports(m) \cup DefenceReports(m, BuildingsAfter(m))
                            \cup SupportLossReports(m, Battle(m))
      /\ spoils' = [spoils EXCEPT ![m].taken = LootOf(m)]
      /\ plundered' = [r \in RESOURCE_KINDS |-> plundered[r] + town.values[r] - left[r]]
  BY DEF BattleArrives, LootOf, BuildingsAfter
<1>2. values = IF movement[m].siegeTarget = "none"
               THEN [r \in RESOURCE_KINDS |-> town.values[r] - LootOf(m)[r]]
               ELSE [r \in RESOURCE_KINDS |-> Min({town.values[r] - LootOf(m)[r], caps[r]})]
  OBVIOUS
<1>3. [r \in RESOURCE_KINDS |-> plundered[r] + town.values[r] - left[r]]
      = [r \in RESOURCE_KINDS |-> plundered[r] + town.values[r]
                                - (town.values[r] - LootOf(m)[r])]
  OBVIOUS
<1>. HIDE DEF left, values
<1>. QED
  BY <1>1, <1>2, <1>3

\* What the attack leaves of the town.
LEMMA TownAfterBattle ==
    ASSUME TownTypes, Standing(town.buildings), NEW m \in Movement, movement[m] \in MovementType,
           BattleArrives(m)
    PROVE  /\ TownTypes' /\ Standing(town'.buildings)
           /\ now' = now /\ town'.lastTick = town.lastTick /\ town'.buildings = BuildingsAfter(m)
           /\ \A k \in Supporter :
                town'.stationed[k] = Minus(town.stationed[k], Battle(m).defenders[k])
           /\ \A r \in RESOURCE_KINDS : \/ town'.values[r] = town.values[r] - LootOf(m)[r]
                                        \/ town'.values[r] = calcStorageCaps(BuildingsAfter(m))[r]
<1>. DEFINE caps == calcStorageCaps(BuildingsAfter(m))
            values == IF movement[m].siegeTarget = "none"
                      THEN [r \in RESOURCE_KINDS |-> town.values[r] - LootOf(m)[r]]
                      ELSE [r \in RESOURCE_KINDS |-> Min({town.values[r] - LootOf(m)[r], caps[r]})]
            troops == Minus(town.troops, Battle(m).defenders[HOME_CONTINGENT_KEY])
            stationed == [k \in Supporter |-> Minus(town.stationed[k], Battle(m).defenders[k])]
<1>1. Struck(m)
  BY AttackStrikes
<1>2. Standing(BuildingsAfter(m)) /\ caps \in Goods
  BY <1>1, TablesCover DEF Struck
<1>3. town' = [town EXCEPT !.troops = troops, !.stationed = stationed,
                           !.buildings = BuildingsAfter(m), !.values = values]
  BY BattleIs DEF TownTypes, TownType
<1>4. Battle(m).defenders \in [Parties -> Troops]
  BY <1>1 DEF Struck, Fought
<1>5. troops \in Troops /\ stationed \in [Supporter -> Troops]
  <2>1. town.troops \in Troops /\ town.stationed \in [Supporter -> Troops]
    BY DEF TownTypes, TownType
  <2>. QED
    BY <1>4, <2>1, MinusIsTroops DEF Parties
<1>6. ASSUME NEW r \in RESOURCE_KINDS
      PROVE  /\ values[r] \in Nat
             /\ values[r] = town.values[r] - LootOf(m)[r] \/ values[r] = caps[r]
  <2>1. LootOf(m)[r] \in Nat /\ LootOf(m)[r] <= town.values[r]
    BY <1>1 DEF Struck, Goods
  <2>2. town.values[r] \in Nat /\ caps[r] \in Nat
    BY <1>2 DEF TownTypes, TownType, Goods
  <2>3. town.values[r] - LootOf(m)[r] \in Nat
    BY <2>1, <2>2
  <2>. QED
    BY <2>2, <2>3, MinIs
<1>7. values \in Goods
  BY <1>6 DEF Goods
<1>. HIDE DEF caps, values, troops, stationed
<1>8. /\ town'.troops = troops /\ town'.stationed = stationed /\ town'.values = values
      /\ town'.buildings = BuildingsAfter(m) /\ town'.lastTick = town.lastTick
      /\ town' \in TownType
  BY <1>2, <1>3, <1>5, <1>7 DEF TownTypes, TownType, Standing
<1>9. now' = now
  BY BattleIs
<1>. QED
  BY <1>2, <1>6, <1>8, <1>9 DEF TownTypes, stationed, caps

LEMMA BattleComesBack ==
    ASSUME WarTypes, Standing(town.buildings), NEW m \in Movement, BattleArrives(m)
    PROVE  ComesBack(m, Battle(m).survivors, Battle(m).losses, LootOf(m))
<1>1. Struck(m)
  BY AttackStrikes DEF WarTypes, ArmyTypes
<1>2. /\ Battle(m).survivors \in Troops /\ Battle(m).losses \in Troops /\ LootOf(m) \in Goods
      /\ Battle(m).survivors = Nobody => LootOf(m) = Nothing
  BY <1>1 DEF Struck, Fought
<1>3. \A r \in RESOURCE_KINDS : plundered[r] + town.values[r] - (town.values[r] - LootOf(m)[r])
                                = plundered[r] + LootOf(m)[r]
  <2>1. ASSUME NEW r \in RESOURCE_KINDS
        PROVE  plundered[r] \in Int /\ town.values[r] \in Int /\ LootOf(m)[r] \in Int
    BY <1>2 DEF WarTypes, ArmyTypes, TownTypes, TownType, Goods, Deltas
  <2>. QED
    BY <2>1
<1>4. plundered' = [r \in RESOURCE_KINDS |-> plundered[r] + LootOf(m)[r]]
  <2>1. plundered' = [r \in RESOURCE_KINDS |-> plundered[r] + town.values[r]
                                - (town.values[r] - LootOf(m)[r])]
    BY BattleIs
  <2>. QED
    BY <1>3, <2>1
<1>. QED
  BY <1>2, <1>4, BattleIs DEF ComesBack

\* A report of a movement that is still on its way is new.
LEMMA ReportIsNew ==
    ASSUME NoReportAhead, NEW m, movement[m].status = "outbound", NEW who, NEW type,
           type # "starvation"
    PROVE  << who, type, m >> \notin reports
BY DEF NoReportAhead

\* The reports written, and the movement they tell of.
ToldOf(m, told) ==
    /\ reports' = reports \cup told
    /\ \A rep \in told : rep[2] # "starvation" /\ rep[3] = m

LEMMA ReportsStayBehind ==
    ASSUME NoReportAhead, ArmyTypes, NEW m \in Movement, NEW survivors, NEW loot,
           AfterBattle(m, survivors, loot), NEW told, ToldOf(m, told),
           town'.lastTick = town.lastTick, now' = now
    PROVE  NoReportAhead'
<1>1. movement'[m].status \in {"returning", "done"}
  BY DEF AfterBattle, ArmyTypes, MovementType
<1>2. \A n \in Movement : movement[n].status \in {"returning", "done"} =>
             movement'[n].status \in {"returning", "done"}
  <2>. SUFFICES ASSUME NEW n \in Movement, movement[n].status \in {"returning", "done"}
                PROVE  movement'[n].status \in {"returning", "done"}
    OBVIOUS
  <2>1. CASE n = m
    BY <1>1, <2>1
  <2>2. CASE n # m
    BY <2>2 DEF AfterBattle, ArmyTypes
  <2>. QED
    BY <2>1, <2>2
<1>. QED
  BY <1>1, <1>2 DEF NoReportAhead, ToldOf

LEMMA BattleTells ==
    ASSUME NEW m \in Movement, movement[m] \in MovementType, BattleArrives(m)
    PROVE  \E told : /\ ToldOf(m, told)
                     /\ << Defender, "defense", m >> \in told
                     /\ << Attacker, movement[m].type, m >> \in told
                     /\ \A k \in Supporter : Battle(m).defenders[k] # Nobody =>
                           << k, "supportLoss", m >> \in told
<1>. DEFINE told == AttackReports(m) \cup DefenceReports(m, BuildingsAfter(m))
                       \cup SupportLossReports(m, Battle(m))
<1>1. reports' = reports \cup told
  BY BattleIs
<1>2. \A rep \in told : rep[2] # "starvation" /\ rep[3] = m
  <2>1. movement[m].type # "starvation"
    BY DEF MovementType
  <2>. QED
    BY <2>1 DEF AttackReports, DefenceReports, SupportLossReports
<1>3. /\ << Defender, "defense", m >> \in told
      /\ << Attacker, movement[m].type, m >> \in told
      /\ \A k \in Supporter : Battle(m).defenders[k] # Nobody =>
            << k, "supportLoss", m >> \in told
  BY DEF AttackReports, DefenceReports, SupportLossReports
<1>. HIDE DEF told
<1>. QED
  BY <1>1, <1>2, <1>3 DEF ToldOf

LEMMA BattleKeeps ==
    ASSUME IInv, NEW m \in Movement, BattleArrives(m)
    PROVE  IInv'
<1>1. /\ TownTypes' /\ Standing(town'.buildings)
      /\ now' = now /\ town'.lastTick = town.lastTick
  BY TownAfterBattle DEF IInv, WarTypes, ArmyTypes
<1>2. ComesBack(m, Battle(m).survivors, Battle(m).losses, LootOf(m))
  BY BattleComesBack DEF IInv
<1>3. ArmyTypes' /\ SpoilsOnTheWay' /\ SpoilsConserved'
  BY <1>2, ComesBackTypes, ComesBackOnTheWay, ComesBackConserves DEF IInv, WarTypes
<1>4. NoReportAhead'
  <2>1. PICK told : ToldOf(m, told)
    BY BattleTells DEF IInv, WarTypes, ArmyTypes
  <2>2. AfterBattle(m, Battle(m).survivors, LootOf(m))
    BY BattleIs
  <2>. QED
    BY <1>1, <2>1, <2>2, ReportsStayBehind DEF IInv, WarTypes
<1>. QED
  BY <1>1, <1>3, <1>4 DEF IInv, WarTypes

\* Whoever comes back without loot leaves the books as they are.
LEMMA ComesBackEmpty ==
    ASSUME ArmyTypes, SpoilsOnTheWay, NEW m \in Movement, movement[m].status = "outbound",
           NEW survivors \in Troops, NEW losses \in Troops,
           AfterBattle(m, survivors, Nothing),
           home' = [home EXCEPT !.awayTroops = Minus(@, losses)],
           UNCHANGED << spoils, plundered >>
    PROVE  ComesBack(m, survivors, losses, Nothing)
<1>1. spoils[m].taken = Nothing
  BY DEF SpoilsOnTheWay
<1>2. spoils' = [spoils EXCEPT ![m].taken = Nothing]
  <2>1. spoils \in [Movement -> SpoilsType] /\ spoils[m] \in SpoilsType
    BY DEF ArmyTypes
  <2>2. [spoils[m] EXCEPT !.taken = Nothing] = spoils[m]
    BY <1>1, <2>1 DEF SpoilsType
  <2>3. [spoils EXCEPT ![m] = [spoils[m] EXCEPT !.taken = Nothing]] = spoils
    BY <2>1, <2>2
  <2>. QED
    BY <2>3
<1>3. plundered' = [r \in RESOURCE_KINDS |-> plundered[r] + Nothing[r]]
  <2>1. plundered \in [RESOURCE_KINDS -> Int]
    BY DEF ArmyTypes, Deltas
  <2>2. \A r \in RESOURCE_KINDS : plundered[r] + Nothing[r] = plundered[r]
    BY <2>1 DEF Nothing
  <2>. QED
    BY <2>1, <2>2
<1>. QED
  BY <1>2, <1>3, NothingIsGoods DEF ComesBack

LEMMA ScoutsFall ==
    ASSUME NEW attackers \in Troops, NEW defenders
    PROVE  resolveScoutCombat(attackers, defenders) \in Troops
<1>. DEFINE atkPts == Total([t \in Types |-> Unit[t].scoutAttack], attackers)
            defPts == Total([t \in Types |-> Unit[t].scoutDefense], defenders)
            x == Clamped(defPts, atkPts)
            losses == [t \in Types |-> LostToCurve(attackers[t], x[1], x[2])]
<1>1. resolveScoutCombat(attackers, defenders) = IF atkPts = 0 THEN Nobody ELSE losses
  BY DEF resolveScoutCombat
<1>. HIDE DEF atkPts, x
<1>2. losses \in Troops
  <2>1. \A t \in Types : attackers[t] \in Nat
    BY DEF Troops
  <2>. QED
    BY <2>1, LostIn DEF Troops
<1>. QED
  BY <1>1, <1>2, NobodyIsTroops

\* The scouts of movement m and what becomes of them.
ScoutResult(m) == resolveScouting(movement[m].units, unionTroops(Defenders), 0, 0)
ScoutTold(m) ==
    {<< Attacker, IF ScoutResult(m).intel = "none" THEN "scoutFailed" ELSE "scout", m >>}
    \cup (IF ScoutResult(m).detected THEN {<< Defender, "scoutDetected", m >>} ELSE {})

LEMMA ScoutIs ==
    ASSUME NEW m \in Movement, ScoutArrives(m)
    PROVE  /\ movement[m].status = "outbound" /\ movement[m].type = "scout"
           /\ AfterBattle(m, ScoutResult(m).survivors, Nothing)
           /\ home' = [home EXCEPT !.awayTroops = Minus(@, ScoutResult(m).losses)]
           /\ reports' = reports \cup ScoutTold(m)
           /\ UNCHANGED << now, town, spoils, plundered >>
<1>1. /\ movement[m].status = "outbound" /\ movement[m].type = "scout"
      /\ AfterBattle(m, ScoutResult(m).survivors, Nothing)
      /\ home' = [home EXCEPT !.awayTroops = Minus(@, ScoutResult(m).losses)]
      /\ reports' = reports
           \cup {<< Attacker, IF ScoutResult(m).intel = "none" THEN "scoutFailed" ELSE "scout", m >>}
           \cup (IF ScoutResult(m).detected THEN {<< Defender, "scoutDetected", m >>} ELSE {})
      /\ UNCHANGED << now, town, spoils, plundered >>
  BY DEF ScoutArrives, ScoutResult
<1>. QED
  BY <1>1 DEF ScoutTold

LEMMA ScoutsAre ==
    ASSUME NEW m \in Movement, movement[m] \in MovementType
    PROVE  ScoutResult(m).survivors \in Troops /\ ScoutResult(m).losses \in Troops
<1>1. movement[m].units \in Troops
  BY DEF MovementType
<1>. DEFINE losses == resolveScoutCombat(movement[m].units, unionTroops(Defenders))
<1>2. ScoutResult(m).losses = losses /\ ScoutResult(m).survivors = Minus(movement[m].units, losses)
  BY DEF ScoutResult, resolveScouting
<1>3. losses \in Troops
  BY <1>1, ScoutsFall
<1>. HIDE DEF losses
<1>. QED
  BY <1>1, <1>2, <1>3, MinusIsTroops

LEMMA ScoutTells ==
    ASSUME NEW m \in Movement, ScoutArrives(m)
    PROVE  /\ ToldOf(m, ScoutTold(m))
           /\ \E type \in {"scout", "scoutFailed"} : << Attacker, type, m >> \in ScoutTold(m)
<1>1. reports' = reports \cup ScoutTold(m)
  BY ScoutIs
<1>. QED
  BY <1>1 DEF ToldOf, ScoutTold

LEMMA ScoutKeeps ==
    ASSUME IInv, NEW m \in Movement, ScoutArrives(m)
    PROVE  IInv'
<1>1. /\ movement[m].status = "outbound"
      /\ AfterBattle(m, ScoutResult(m).survivors, Nothing)
      /\ home' = [home EXCEPT !.awayTroops = Minus(@, ScoutResult(m).losses)]
      /\ UNCHANGED << now, town, spoils, plundered >>
  BY ScoutIs
<1>2. ScoutResult(m).survivors \in Troops /\ ScoutResult(m).losses \in Troops
  BY ScoutsAre DEF IInv, WarTypes, ArmyTypes
<1>3. ComesBack(m, ScoutResult(m).survivors, ScoutResult(m).losses, Nothing)
  BY <1>1, <1>2, ComesBackEmpty DEF IInv, WarTypes
<1>4. ArmyTypes' /\ SpoilsOnTheWay' /\ SpoilsConserved'
  BY <1>3, ComesBackTypes, ComesBackOnTheWay, ComesBackConserves DEF IInv, WarTypes
<1>5. NoReportAhead'
  BY <1>1, ScoutTells, ReportsStayBehind DEF IInv, WarTypes
<1>6. TownTypes' /\ Standing(town.buildings)'
  BY <1>1 DEF IInv, WarTypes, TownTypes, Standing
<1>. QED
  BY <1>4, <1>5, <1>6 DEF IInv, WarTypes

LEMMA ElapseKeeps ==
    ASSUME IInv, Elapse
    PROVE  IInv'
<1>1. town \in TownType /\ Standing(town.buildings)
  BY DEF IInv, WarTypes, TownTypes
<1>2. settleResources(town) \in Goods
  BY <1>1, SettlingIsGoods
<1>3. /\ town' \in TownType /\ town'.buildings = town.buildings
      /\ town'.lastTick = town.lastTick
  BY <1>1, <1>2 DEF Elapse, TownType
<1>4. TownTypes' /\ Standing(town.buildings)'
  BY <1>1, <1>3 DEF Elapse, IInv, WarTypes, TownTypes
<1>5. NoReportAhead'
  <2>1. town.lastTick <= now /\ now \in Int /\ town.lastTick \in Int
    BY <1>1 DEF IInv, WarTypes, TownTypes, TownType, NoReportAhead
  <2>. QED
    BY <1>3, <2>1 DEF Elapse, IInv, NoReportAhead
<1>6. ArmyTypes' /\ SpoilsOnTheWay' /\ SpoilsConserved'
  BY ElsewhereKeeps DEF Elapse, IInv, WarTypes
<1>. QED
  BY <1>4, <1>5, <1>6 DEF IInv, WarTypes

LEMMA SendingKeeps ==
    ASSUME IInv, NEW m \in Movement, NEW to \in {"town", "oasis"},
           NEW type \in {"scout", "raid", "assault"}, NEW units \in Troops,
           NEW target \in Building \cup {"none"}, SendMovement(m, to, type, units, target)
    PROVE  IInv'
<1>1. ArmyTypes' /\ SpoilsOnTheWay' /\ SpoilsConserved'
  BY SendKeeps DEF IInv, WarTypes
<1>2. UNCHANGED << now, town, reports >> /\ movement[m].status = "none"
      /\ \A n \in Movement : n # m => movement'[n] = movement[n]
  BY DEF SendMovement, IInv, WarTypes, ArmyTypes
<1>3. TownTypes' /\ Standing(town.buildings)'
  BY <1>2 DEF IInv, WarTypes, TownTypes, Standing
<1>4. NoReportAhead'
  BY <1>2 DEF IInv, NoReportAhead
<1>. QED
  BY <1>1, <1>3, <1>4 DEF IInv, WarTypes

LEMMA ReturningKeeps ==
    ASSUME IInv, NEW m \in Movement, MovementReturn(m)
    PROVE  IInv'
<1>1. ArmyTypes' /\ SpoilsOnTheWay' /\ SpoilsConserved'
  BY ReturnKeeps DEF IInv, WarTypes
<1>2. UNCHANGED << now, town, reports >>
      /\ \A n \in Movement : movement'[n].status = IF n = m THEN "done" ELSE movement[n].status
  BY DEF MovementReturn, IInv, WarTypes, ArmyTypes, MovementType
<1>3. TownTypes' /\ Standing(town.buildings)'
  BY <1>2 DEF IInv, WarTypes, TownTypes, Standing
<1>4. NoReportAhead'
  BY <1>2 DEF IInv, NoReportAhead
<1>. QED
  BY <1>1, <1>3, <1>4 DEF IInv, WarTypes

------------------------------------------------------------------------------
\* The order of death.

Places == ({0} \X Supporter \X Types) \cup ({1} \X {HOME_CONTINGENT_KEY} \X Types)
Strength(t) == Unit[t].attack + Unit[t].defInfantry + Unit[t].defCavalry

LEMMA PlaceIs ==
    ASSUME NEW p \in Places
    PROVE  /\ p = << p[1], p[2], p[3] >>
           /\ p[1] \in {0, 1} /\ p[2] \in Nat /\ p[3] \in Types
           /\ p[1] = 0 => p[2] \in Supporter
           /\ p[1] = 1 => p[2] = HOME_CONTINGENT_KEY
<1>1. CASE p \in {0} \X Supporter \X Types
  <2>1. p = << p[1], p[2], p[3] >> /\ p[1] = 0 /\ p[2] \in Supporter /\ p[3] \in Types
    BY <1>1
  <2>. QED
    BY <2>1, WarfareAssumption
<1>2. CASE p \in {1} \X {HOME_CONTINGENT_KEY} \X Types
  <2>1. p = << p[1], p[2], p[3] >> /\ p[1] = 1 /\ p[2] = HOME_CONTINGENT_KEY /\ p[3] \in Types
    BY <1>2
  <2>. QED
    BY <2>1 DEF HOME_CONTINGENT_KEY
<1>. QED
  BY <1>1, <1>2 DEF Places

LEMMA PositionIs ==
    /\ \A t \in Types : Position(t) \in Nat
    /\ \A s, t \in Types : Position(s) = Position(t) => s = t
<1>1. UNIT_TYPES \in [1 .. Len(UNIT_TYPES) -> Types] /\ Len(UNIT_TYPES) \in Nat
  BY CombatAssumption
<1>2. DOMAIN UNIT_TYPES = 1 .. Len(UNIT_TYPES)
  BY <1>1
<1>3. ASSUME NEW t \in Types
      PROVE  Position(t) \in DOMAIN UNIT_TYPES /\ UNIT_TYPES[Position(t)] = t
  <2>1. \E i \in DOMAIN UNIT_TYPES : UNIT_TYPES[i] = t
    BY DEF Types, ToSet
  <2>. QED
    BY <2>1 DEF Position
<1>. QED
  BY <1>1, <1>2, <1>3

LEMMA OrderType ==
    ASSUME NEW t \in Types
    PROVE  /\ diesLastRank(t) \in 0 .. 2 /\ Strength(t) \in Int
           /\ Unit[t].cost \in Int /\ Position(t) \in Int
<1>1. Strength(t) \in Int /\ Unit[t].cost \in Int
  BY CombatAssumption DEF Strength
<1>2. diesLastRank(t) \in 0 .. 2
  BY DEF diesLastRank
<1>. QED
  BY <1>1, <1>2, PositionIs

\* The comparison, written out.
LEMMA CompareIs ==
    ASSUME NEW s \in Types, NEW t \in Types
    PROVE  compareStarvationOrder(s, t) <=>
             \/ diesLastRank(s) < diesLastRank(t)
             \/ /\ diesLastRank(s) = diesLastRank(t)
                /\ \/ Strength(s) < Strength(t)
                   \/ /\ Strength(s) = Strength(t)
                      /\ \/ Unit[s].cost < Unit[t].cost
                         \/ Unit[s].cost = Unit[t].cost /\ Position(s) < Position(t)
<1>. DEFINE d == DeathOrder(s)
            e == DeathOrder(t)
<1>1. /\ d[1] = diesLastRank(s) /\ d[2] = Strength(s) /\ d[3] = Unit[s].cost
      /\ d[4] = Position(s)
      /\ e[1] = diesLastRank(t) /\ e[2] = Strength(t) /\ e[3] = Unit[t].cost
      /\ e[4] = Position(t)
  BY DEF DeathOrder, Strength
<1>2. compareStarvationOrder(s, t) <=>
        \E i \in 1 .. 4 : d[i] < e[i] /\ \A j \in 1 .. i - 1 : d[j] = e[j]
  BY DEF compareStarvationOrder
<1>. HIDE DEF d, e
<1>3. (\E i \in 1 .. 4 : d[i] < e[i] /\ \A j \in 1 .. i - 1 : d[j] = e[j]) <=>
        \/ d[1] < e[1]
        \/ d[2] < e[2] /\ d[1] = e[1]
        \/ d[3] < e[3] /\ d[1] = e[1] /\ d[2] = e[2]
        \/ d[4] < e[4] /\ d[1] = e[1] /\ d[2] = e[2] /\ d[3] = e[3]
  <2>1. \A i \in 1 .. 4 : i = 1 \/ i = 2 \/ i = 3 \/ i = 4
    OBVIOUS
  <2>2. /\ \A j \in 1 .. 1 - 1 : FALSE
        /\ \A j \in 1 .. 2 - 1 : j = 1
        /\ \A j \in 1 .. 3 - 1 : j = 1 \/ j = 2
        /\ \A j \in 1 .. 4 - 1 : j = 1 \/ j = 2 \/ j = 3
        /\ 1 \in 1 .. 2 - 1 /\ 1 \in 1 .. 3 - 1 /\ 2 \in 1 .. 3 - 1
        /\ 1 \in 1 .. 4 - 1 /\ 2 \in 1 .. 4 - 1 /\ 3 \in 1 .. 4 - 1
        /\ 1 \in 1 .. 4 /\ 2 \in 1 .. 4 /\ 3 \in 1 .. 4 /\ 4 \in 1 .. 4
    OBVIOUS
  <2>. QED
    BY <2>1, <2>2
<1>. QED
  BY <1>1, <1>2, <1>3

\* It is a strict total order of the types.
LEMMA CompareOrders ==
    /\ \A s \in Types : ~compareStarvationOrder(s, s)
    /\ \A s, t, u \in Types :
          compareStarvationOrder(s, t) /\ compareStarvationOrder(t, u) => compareStarvationOrder(s, u)
    /\ \A s, t \in Types :
          s = t \/ compareStarvationOrder(s, t) \/ compareStarvationOrder(t, s)
<1>1. \A s \in Types : ~compareStarvationOrder(s, s)
  BY CompareIs, OrderType
<1>2. ASSUME NEW s \in Types, NEW t \in Types, NEW u \in Types,
             compareStarvationOrder(s, t), compareStarvationOrder(t, u)
      PROVE  compareStarvationOrder(s, u)
  BY <1>2, CompareIs, OrderType
<1>3. ASSUME NEW s \in Types, NEW t \in Types, s # t
      PROVE  compareStarvationOrder(s, t) \/ compareStarvationOrder(t, s)
  BY <1>3, CompareIs, OrderType, PositionIs
<1>. QED
  BY <1>1, <1>2, <1>3

\* And DiesBefore one of the pools.
LEMMA DeathOrders ==
    /\ \A p \in Places : ~DiesBefore(p, p)
    /\ \A p, q, r \in Places : DiesBefore(p, q) /\ DiesBefore(q, r) => DiesBefore(p, r)
    /\ \A p, q \in Places : p = q \/ DiesBefore(p, q) \/ DiesBefore(q, p)
<1>1. \A p \in Places : ~DiesBefore(p, p)
  BY PlaceIs, CompareOrders DEF DiesBefore
<1>2. ASSUME NEW p \in Places, NEW q \in Places, NEW r \in Places,
             DiesBefore(p, q), DiesBefore(q, r)
      PROVE  DiesBefore(p, r)
  <2>1. /\ p[1] \in Int /\ q[1] \in Int /\ r[1] \in Int
        /\ p[2] \in Int /\ q[2] \in Int /\ r[2] \in Int
        /\ p[3] \in Types /\ q[3] \in Types /\ r[3] \in Types
    BY PlaceIs
  <2>2. compareStarvationOrder(p[3], q[3]) /\ compareStarvationOrder(q[3], r[3]) =>
          compareStarvationOrder(p[3], r[3])
    BY <2>1, CompareOrders
  <2>. QED
    BY <1>2, <2>1, <2>2 DEF DiesBefore
<1>3. ASSUME NEW p \in Places, NEW q \in Places, p # q
      PROVE  DiesBefore(p, q) \/ DiesBefore(q, p)
  <2>1. /\ p[1] \in Int /\ q[1] \in Int /\ p[2] \in Int /\ q[2] \in Int
        /\ p[3] \in Types /\ q[3] \in Types
        /\ p = << p[1], p[2], p[3] >> /\ q = << q[1], q[2], q[3] >>
    BY PlaceIs
  <2>2. p[1] # q[1] \/ p[2] # q[2] \/ p[3] # q[3]
    BY <1>3, <2>1
  <2>3. \/ p[3] = q[3] \/ compareStarvationOrder(p[3], q[3])
        \/ compareStarvationOrder(q[3], p[3])
    BY <2>1, CompareOrders
  <2>. QED
    BY <2>1, <2>2, <2>3 DEF DiesBefore
<1>. QED
  BY <1>1, <1>2, <1>3

\* Some of the pools are the first and the last of any of them.
LEMMA FirstToDie ==
    ASSUME NEW S \in SUBSET Places, IsFiniteSet(S), S # {}
    PROVE  /\ \E p \in S : \A r \in S : r = p \/ DiesBefore(p, r)
           /\ \E p \in S : \A r \in S : r = p \/ DiesBefore(r, p)
<1>. DEFINE FirstOf(T) == \E p \in T : \A r \in T : r = p \/ DiesBefore(p, r)
            LastOf(T) == \E p \in T : \A r \in T : r = p \/ DiesBefore(r, p)
            G == {T \in SUBSET S : T # {} => FirstOf(T) /\ LastOf(T)}
<1>1. {} \in G
  OBVIOUS
<1>2. ASSUME NEW T \in SUBSET S, NEW x \in S \ T, T \in G
      PROVE  T \cup {x} \in G
  <2>1. CASE T = {}
    BY <2>1
  <2>2. CASE T # {}
    <3>1. PICK p \in T : \A r \in T : r = p \/ DiesBefore(p, r)
      BY <1>2, <2>2
    <3>2. PICK q \in T : \A r \in T : r = q \/ DiesBefore(r, q)
      BY <1>2, <2>2
    <3>3. x \in Places /\ p \in Places /\ q \in Places /\ T \subseteq Places
      OBVIOUS
    <3>4. FirstOf(T \cup {x})
      <4>1. CASE DiesBefore(p, x)
        BY <3>1, <4>1
      <4>2. CASE ~DiesBefore(p, x)
        <5>1. DiesBefore(x, p)
          BY <3>3, <4>2, DeathOrders
        <5>2. \A r \in T : DiesBefore(x, r)
          BY <3>1, <3>3, <5>1, DeathOrders
        <5>. QED
          BY <5>2
      <4>. QED
        BY <4>1, <4>2
    <3>5. LastOf(T \cup {x})
      <4>1. CASE DiesBefore(x, q)
        BY <3>2, <4>1
      <4>2. CASE ~DiesBefore(x, q)
        <5>1. DiesBefore(q, x)
          BY <3>3, <4>2, DeathOrders
        <5>2. \A r \in T : DiesBefore(r, x)
          BY <3>2, <3>3, <5>1, DeathOrders
        <5>. QED
          BY <5>2
      <4>. QED
        BY <4>1, <4>2
    <3>. QED
      BY <3>4, <3>5
  <2>. QED
    BY <2>1, <2>2
<1>. HIDE DEF G
<1>3. S \in G
  BY <1>1, <1>2, SetInduction
<1>. QED
  BY <1>3 DEF G

------------------------------------------------------------------------------
\* The killed.

LEMMA PlacesFinite == IsFiniteSet(Places)
<1>1. IsFiniteSet(Supporter \X Types)
  BY WarfareAssumption, TypesFinite, FS_Product
<1>2. IsFiniteSet({0} \X Supporter \X Types)
  <2>. DEFINE f == [x \in Supporter \X Types |-> << 0, x[1], x[2] >>]
  <2>1. f \in Surjection(Supporter \X Types, {0} \X Supporter \X Types)
    <3>1. f \in [Supporter \X Types -> {0} \X Supporter \X Types]
      OBVIOUS
    <3>2. ASSUME NEW y \in {0} \X Supporter \X Types
          PROVE  \E x \in Supporter \X Types : f[x] = y
      <4>1. << y[2], y[3] >> \in Supporter \X Types /\ f[<< y[2], y[3] >>] = y
        OBVIOUS
      <4>. QED
        BY <4>1
    <3>. QED
      BY <3>1, <3>2 DEF Surjection
  <2>. QED
    BY <1>1, <2>1, FS_Surjection
<1>3. IsFiniteSet({1} \X {HOME_CONTINGENT_KEY} \X Types)
  <2>. DEFINE f == [t \in Types |-> << 1, HOME_CONTINGENT_KEY, t >>]
  <2>1. f \in Surjection(Types, {1} \X {HOME_CONTINGENT_KEY} \X Types)
    <3>1. f \in [Types -> {1} \X {HOME_CONTINGENT_KEY} \X Types]
      OBVIOUS
    <3>2. ASSUME NEW y \in {1} \X {HOME_CONTINGENT_KEY} \X Types
          PROVE  \E t \in Types : f[t] = y
      <4>1. y[3] \in Types /\ f[y[3]] = y
        OBVIOUS
      <4>. QED
        BY <4>1
    <3>. QED
      BY <3>1, <3>2 DEF Surjection
  <2>. QED
    BY TypesFinite, <2>1, FS_Surjection
<1>. QED
  BY <1>2, <1>3, FS_Union DEF Places

\* What the units of a pool eat, and what some of the pools eat together.
Appetite(p) == Unit[p[3]].upkeep
Eaten(units) == [p \in Places |-> Appetite(p) * units[p]]
Needs(units, S) == SumFunctionOnSet(Eaten(units), S)
Ahead(pools, p) == {r \in Places : pools[r] > 0 /\ DiesBefore(r, p)}
Eater(pools, killed, r) == r \in Places /\ killed[r] < pools[r] /\ Appetite(r) > 0

LEMMA AppetiteType == \A p \in Places : Appetite(p) \in Nat
BY PlaceIs, CombatAssumption DEF Appetite

LEMMA EatenType ==
    ASSUME NEW units \in [Places -> Nat]
    PROVE  \A p \in Places : /\ Eaten(units)[p] \in Nat
                             /\ Eaten(units)[p] = Appetite(p) * units[p]
BY AppetiteType, Product DEF Eaten

\* More pools eat no less, and the pools eat what each of them does.
LEMMA NeedsGrow ==
    ASSUME NEW units \in [Places -> Nat], NEW B \in SUBSET Places, NEW A \in SUBSET B
    PROVE  Needs(units, A) \in Nat /\ Needs(units, B) \in Nat /\ Needs(units, A) <= Needs(units, B)
<1>. DEFINE f == Eaten(units)
            g == [p \in Places |-> IF p \in A THEN f[p] ELSE 0]
<1>1. \A p \in Places : f[p] \in Nat
  BY EatenType
<1>2. IsFiniteSet(A) /\ IsFiniteSet(B) /\ A \subseteq Places
  BY PlacesFinite, FS_Subset
<1>. HIDE DEF f
<1>3. SumFunctionOnSet(f, A) \in Nat /\ SumFunctionOnSet(f, B) \in Nat
  <2>1. \A p \in A : f[p] \in Nat
    BY <1>1
  <2>2. \A p \in B : f[p] \in Nat
    BY <1>1
  <2>. QED
    BY <1>2, <2>1, <2>2, SumNat
<1>4. \A p \in B : g[p] \in Int /\ f[p] \in Int /\ g[p] <= f[p] /\ (p \notin A => g[p] = 0)
  BY <1>1
<1>5. \A p \in A : f[p] \in Int /\ f[p] = g[p]
  BY <1>1
<1>. HIDE DEF g
<1>6. SumFunctionOnSet(g, B) <= SumFunctionOnSet(f, B)
  BY <1>2, <1>4, SumAtMost
<1>7. SumFunctionOnSet(g, B) = SumFunctionOnSet(g, A)
  <2>1. \A p \in B : g[p] \in Int
    BY <1>4
  <2>2. \A p \in B \ A : g[p] = 0
    BY <1>4
  <2>. QED
    BY <1>2, <2>1, <2>2, SumPart
<1>8. SumFunctionOnSet(f, A) = SumFunctionOnSet(g, A)
  BY <1>2, <1>5, SumSame
<1>. QED
  BY <1>3, <1>6, <1>7, <1>8 DEF Needs, f

LEMMA NeedsOneMore ==
    ASSUME NEW units \in [Places -> Nat], NEW A \in SUBSET Places, NEW p \in Places, p \notin A
    PROVE  Needs(units, A \cup {p}) = Needs(units, A) + Appetite(p) * units[p]
<1>1. IsFiniteSet(A)
  BY PlacesFinite, FS_Subset
<1>2. /\ \A y \in A : Eaten(units)[y] \in Int
      /\ Eaten(units)[p] \in Int /\ Eaten(units)[p] = Appetite(p) * units[p]
  BY EatenType
<1>3. SumFunctionOnSet(Eaten(units), A \cup {p})
      = SumFunctionOnSet(Eaten(units), A) + Eaten(units)[p]
  BY <1>1, <1>2, SumAdd
<1>. QED
  BY <1>2, <1>3 DEF Needs

LEMMA CeilDivIs ==
    ASSUME NEW a \in Nat \ {0}, NEW b \in Nat \ {0}
    PROVE  /\ CeilDiv(a, b) \in Nat \ {0}
           /\ b * CeilDiv(a, b) >= a /\ b * (CeilDiv(a, b) - 1) < a
<1>. DEFINE c == (a + b - 1) \div b
            r == (a + b - 1) % b
<1>1. a + b - 1 \in Nat
  OBVIOUS
<1>2. c \in Int /\ r \in 0 .. b - 1 /\ a + b - 1 = b * c + r
  BY <1>1
<1>. HIDE DEF c, r
<1>3. b * c >= a /\ b * c \in Int
  BY <1>2
<1>4. b * (c - 1) = b * c - b
  BY <1>2
<1>5. b * (c - 1) < a
  BY <1>2, <1>4
<1>6. c >= 1
  <2>1. SUFFICES ASSUME c <= 0 PROVE FALSE
    BY <1>2
  <2>2. b * c <= 0
    BY <1>2, <2>1
  <2>. QED
    BY <1>3, <2>2
<1>. QED
  BY <1>2, <1>3, <1>5, <1>6 DEF CeilDiv, c

\* What resolveStarvation leaves of a pool, given what dies before it.
Starves(deficit, pools, killed) ==
    /\ deficit \in Nat \ {0} /\ pools \in [Places -> Nat] /\ killed \in [Places -> Nat]
    /\ \A p \in Places :
        /\ killed[p] <= pools[p]
        /\ killed[p] > 0 =>
             /\ pools[p] > 0 /\ Appetite(p) > 0
             /\ Needs(pools, Ahead(pools, p)) + Appetite(p) * (killed[p] - 1) < deficit
        /\ Eater(pools, killed, p) /\ Needs(pools, Ahead(pools, p)) < deficit =>
             /\ killed[p] > 0
             /\ Needs(pools, Ahead(pools, p)) + Appetite(p) * killed[p] >= deficit

LEMMA KilledIs ==
    ASSUME NEW deficit \in Nat \ {0}, NEW pools \in [Places -> Nat],
           NEW killed, killed = resolveStarvation(deficit, pools)
    PROVE  Starves(deficit, pools, killed)
<1>. DEFINE before(p) == Needs(pools, Ahead(pools, p))
            share(p) == IF pools[p] = 0 \/ Appetite(p) = 0 \/ before(p) >= deficit THEN 0
                        ELSE Min({pools[p], CeilDiv(deficit - before(p), Appetite(p))})
<1>1. killed = [p \in Places |-> share(p)]
  <2>1. DOMAIN pools = Places
    OBVIOUS
  <2>2. killed = [p \in Places |->
           IF pools[p] = 0 \/ Appetite(p) = 0
              \/ SumFunctionOnSet([r \in Places |-> Appetite(r) * pools[r]],
                                  {r \in Places : pools[r] > 0 /\ DiesBefore(r, p)}) >= deficit
           THEN 0
           ELSE Min({pools[p], CeilDiv(deficit
                    - SumFunctionOnSet([r \in Places |-> Appetite(r) * pools[r]],
                                       {r \in Places : pools[r] > 0 /\ DiesBefore(r, p)}),
                    Appetite(p))})]
    BY <2>1 DEF resolveStarvation, Appetite
  <2>. QED
    BY <2>2 DEF Needs, Eaten, Ahead
<1>2. ASSUME NEW p \in Places
      PROVE  before(p) \in Nat /\ Appetite(p) \in Nat /\ pools[p] \in Nat
  <2>1. Ahead(pools, p) \in SUBSET Places
    BY DEF Ahead
  <2>. QED
    BY <2>1, NeedsGrow, AppetiteType
<1>. HIDE DEF before
<1>3. ASSUME NEW p \in Places
      PROVE  /\ share(p) \in Nat /\ share(p) <= pools[p]
             /\ share(p) > 0 => /\ pools[p] > 0 /\ Appetite(p) > 0
                                /\ before(p) + Appetite(p) * (share(p) - 1) < deficit
             /\ share(p) < pools[p] /\ Appetite(p) > 0 /\ before(p) < deficit =>
                  share(p) > 0 /\ before(p) + Appetite(p) * share(p) >= deficit
  <2>1. CASE pools[p] = 0 \/ Appetite(p) = 0 \/ before(p) >= deficit
    BY <1>2, <2>1
  <2>2. CASE ~(pools[p] = 0 \/ Appetite(p) = 0 \/ before(p) >= deficit)
    <3>. DEFINE a == deficit - before(p)
                c == CeilDiv(a, Appetite(p))
    <3>1. a \in Nat \ {0} /\ Appetite(p) \in Nat \ {0} /\ pools[p] \in Nat \ {0}
      BY <1>2, <2>2
    <3>2. c \in Nat \ {0} /\ Appetite(p) * c >= a /\ Appetite(p) * (c - 1) < a
      BY <3>1, CeilDivIs
    <3>3. share(p) = Min({pools[p], c})
      BY <2>2
    <3>4. before(p) + a = deficit
      BY <1>2
    <3>. HIDE DEF a, c, share
    <3>5. share(p) = IF pools[p] <= c THEN pools[p] ELSE c
      BY <3>1, <3>2, <3>3, MinIs
    <3>6. CASE pools[p] <= c
      <4>1. share(p) = pools[p]
        BY <3>5, <3>6
      <4>2. Appetite(p) * (pools[p] - 1) <= Appetite(p) * (c - 1)
        BY <3>1, <3>2, <3>6
      <4>3. before(p) + Appetite(p) * (pools[p] - 1) < deficit
        <5>1. Appetite(p) * (pools[p] - 1) \in Int /\ Appetite(p) * (c - 1) \in Int
          BY <3>1, <3>2
        <5>. QED
          BY <1>2, <3>1, <3>2, <3>4, <4>2, <5>1
      <4>. QED
        BY <3>1, <4>1, <4>3
    <3>7. CASE ~(pools[p] <= c)
      <4>1. share(p) = c
        BY <3>5, <3>7
      <4>2. Appetite(p) * c \in Int /\ Appetite(p) * (c - 1) \in Int
        BY <3>1, <3>2
      <4>. QED
        BY <1>2, <3>1, <3>2, <3>4, <3>7, <4>1, <4>2
    <3>. QED
      BY <3>6, <3>7
  <2>. QED
    BY <2>1, <2>2
<1>4. \A p \in Places : killed[p] = share(p)
  BY <1>1
<1>. HIDE DEF share
<1>5. killed \in [Places -> Nat]
  BY <1>1, <1>3
<1>. QED
  BY <1>3, <1>4, <1>5 DEF Starves, Eater, before

\* Whoever still eats comes after everybody who died.
LEMMA NobodyOutOfTurn ==
    ASSUME NEW deficit, NEW pools, NEW killed, Starves(deficit, pools, killed),
           NEW p \in Places, killed[p] > 0, NEW r, Eater(pools, killed, r)
    PROVE  ~DiesBefore(r, p)
<1>. SUFFICES ASSUME DiesBefore(r, p) PROVE FALSE
  OBVIOUS
<1>. DEFINE A == Ahead(pools, r)
            B == Ahead(pools, p)
<1>1. /\ pools \in [Places -> Nat] /\ deficit \in Nat /\ r \in Places
      /\ killed[r] \in Nat /\ pools[r] \in Nat /\ killed[r] < pools[r]
      /\ killed[p] \in Nat /\ Appetite(r) \in Nat /\ Appetite(p) \in Nat
  BY AppetiteType DEF Starves, Eater
<1>2. r \notin A /\ A \in SUBSET Places
  BY <1>1, DeathOrders DEF Ahead
<1>3. A \cup {r} \in SUBSET B /\ B \in SUBSET Places
  BY <1>1, DeathOrders DEF Ahead
<1>4. Needs(pools, A \cup {r}) = Needs(pools, A) + Appetite(r) * pools[r]
  BY <1>1, <1>2, NeedsOneMore
<1>5. /\ Needs(pools, A \cup {r}) \in Nat /\ Needs(pools, B) \in Nat
      /\ Needs(pools, A \cup {r}) <= Needs(pools, B)
  BY <1>1, <1>3, NeedsGrow
<1>6. Needs(pools, A) \in Nat
  BY <1>1, <1>2, NeedsGrow
<1>7. Needs(pools, B) + Appetite(p) * (killed[p] - 1) < deficit
  BY DEF Starves
<1>8. Appetite(p) * (killed[p] - 1) >= 0 /\ Appetite(p) * (killed[p] - 1) \in Int
  <2>1. killed[p] - 1 \in Nat
    BY <1>1
  <2>. QED
    BY <1>1, <2>1, Product
<1>9. Needs(pools, A) < deficit => Needs(pools, A) + Appetite(r) * killed[r] >= deficit
  BY <1>1 DEF Starves
<1>10. /\ Appetite(r) * killed[r] <= Appetite(r) * pools[r]
       /\ Appetite(r) * killed[r] \in Nat /\ Appetite(r) * pools[r] \in Nat
  BY <1>1
<1>. HIDE DEF A, B
<1>. QED
  BY <1>1, <1>4, <1>5, <1>6, <1>7, <1>8, <1>9, <1>10

\* Where nobody eats any more, the units that were there ate what the killed did.
LEMMA AllEatenUp ==
    ASSUME NEW deficit, NEW pools, NEW killed, Starves(deficit, pools, killed),
           NEW A \in SUBSET Places, \A r \in A : ~Eater(pools, killed, r)
    PROVE  Needs(pools, A) = Needs(killed, A)
<1>1. pools \in [Places -> Nat] /\ killed \in [Places -> Nat] /\ IsFiniteSet(A)
  BY PlacesFinite, FS_Subset DEF Starves
<1>2. ASSUME NEW r \in A
      PROVE  /\ Eaten(pools)[r] \in Int /\ Eaten(pools)[r] = Eaten(killed)[r]
  <2>1. /\ Appetite(r) \in Nat /\ pools[r] \in Nat /\ killed[r] \in Nat /\ killed[r] <= pools[r]
        /\ ~(killed[r] < pools[r] /\ Appetite(r) > 0)
    BY <1>1, AppetiteType DEF Starves, Eater
  <2>2. Appetite(r) = 0 \/ killed[r] = pools[r]
    BY <2>1
  <2>3. Appetite(r) * pools[r] = Appetite(r) * killed[r]
    BY <2>1, <2>2
  <2>. QED
    BY <1>1, <2>3, EatenType
<1>. QED
  BY <1>1, <1>2, SumSame DEF Needs

\* As long as anybody eats, the killed have eaten as much as was missing.
LEMMA EnoughDie ==
    ASSUME NEW deficit, NEW pools, NEW killed, Starves(deficit, pools, killed),
           NEW e, Eater(pools, killed, e)
    PROVE  Needs(killed, Places) >= deficit
<1>. DEFINE eaters == {r \in Places : Eater(pools, killed, r)}
<1>1. /\ pools \in [Places -> Nat] /\ killed \in [Places -> Nat] /\ deficit \in Nat
  BY DEF Starves
<1>2. eaters \in SUBSET Places /\ IsFiniteSet(eaters) /\ eaters # {}
  BY PlacesFinite, FS_Subset DEF Eater
<1>. HIDE DEF eaters
<1>3. PICK r \in eaters : \A q \in eaters : q = r \/ DiesBefore(r, q)
  BY <1>2, FirstToDie
<1>4. r \in Places /\ Eater(pools, killed, r)
  BY <1>3 DEF eaters
<1>. DEFINE A == Ahead(pools, r)
<1>5. A \in SUBSET Places /\ r \notin A
  BY <1>4, DeathOrders DEF Ahead
<1>6. \A q \in A : ~Eater(pools, killed, q)
  BY <1>3, <1>4, DeathOrders DEF Ahead, eaters
<1>7. Needs(pools, A) = Needs(killed, A)
  BY <1>5, <1>6, AllEatenUp
<1>8. Needs(killed, A \cup {r}) = Needs(killed, A) + Appetite(r) * killed[r]
  BY <1>1, <1>4, <1>5, NeedsOneMore
<1>9. /\ Needs(killed, A \cup {r}) \in Nat /\ Needs(killed, Places) \in Nat
      /\ Needs(killed, A \cup {r}) <= Needs(killed, Places)
      /\ Needs(killed, A) \in Nat /\ Needs(killed, A) <= Needs(killed, Places)
  BY <1>1, <1>4, <1>5, NeedsGrow
<1>10. Needs(pools, A) < deficit => Needs(pools, A) + Appetite(r) * killed[r] >= deficit
  BY <1>4 DEF Starves
<1>. HIDE DEF A
<1>. QED
  BY <1>1, <1>7, <1>8, <1>9, <1>10

\* And the last of them was needed.
LEMMA NoMoreThanNeeded ==
    ASSUME NEW deficit, NEW pools, NEW killed, Starves(deficit, pools, killed),
           Needs(killed, Places) >= deficit
    PROVE  \E q \in Places : killed[q] > 0 /\ Needs(killed, Places) - deficit < Appetite(q)
<1>. DEFINE dead == {q \in Places : killed[q] > 0}
<1>1. /\ pools \in [Places -> Nat] /\ killed \in [Places -> Nat] /\ deficit \in Nat \ {0}
  BY DEF Starves
<1>2. dead \in SUBSET Places /\ IsFiniteSet(dead)
  BY PlacesFinite, FS_Subset
<1>3. Needs(killed, dead) = Needs(killed, Places)
  <2>1. /\ \A q \in Places : Eaten(killed)[q] \in Int
        /\ \A q \in Places \ dead : Eaten(killed)[q] = 0
    <3>1. ASSUME NEW q \in Places \ dead
          PROVE  Eaten(killed)[q] = 0
      <4>1. killed[q] = 0 /\ Appetite(q) \in Nat
        BY <1>1, AppetiteType
      <4>2. Eaten(killed)[q] = Appetite(q) * killed[q]
        BY <1>1, EatenType
      <4>. QED
        BY <4>1, <4>2
    <3>. QED
      BY <1>1, <3>1, EatenType
  <2>. QED
    BY <1>2, <2>1, PlacesFinite, SumPart DEF Needs
<1>4. dead # {}
  <2>1. SUFFICES ASSUME dead = {} PROVE FALSE
    OBVIOUS
  <2>2. Needs(killed, dead) = 0
    BY <2>1, SumEmpty DEF Needs
  <2>. QED
    BY <1>1, <1>3, <2>2
<1>5. \A p \in dead : p \in Places /\ killed[p] > 0
  OBVIOUS
<1>6. \A p \in Places : p \notin dead => killed[p] = 0
  BY <1>1
<1>. HIDE DEF dead
<1>7. PICK q \in dead : \A p \in dead : p = q \/ DiesBefore(p, q)
  BY <1>2, <1>4, FirstToDie
<1>. DEFINE A == Ahead(pools, q)
<1>8. /\ q \in Places /\ killed[q] > 0 /\ killed[q] \in Nat /\ Appetite(q) \in Nat
      /\ A \in SUBSET Places /\ q \notin A
  BY <1>1, <1>5, <1>7, DeathOrders, AppetiteType DEF Ahead
<1>9. \A r \in A : ~Eater(pools, killed, r)
  BY <1>8, NobodyOutOfTurn DEF Ahead
<1>10. Needs(pools, A) = Needs(killed, A)
  BY <1>8, <1>9, AllEatenUp
<1>11. dead \in SUBSET (A \cup {q})
  <2>1. ASSUME NEW p \in dead, p # q
        PROVE  p \in A
    <3>1. p \in Places /\ DiesBefore(p, q) /\ pools[p] > 0
      BY <1>5, <1>7, <2>1 DEF Starves
    <3>. QED
      BY <3>1 DEF Ahead
  <2>. QED
    BY <2>1
<1>12. A \cup {q} \in SUBSET Places
  BY <1>8
<1>13. /\ Needs(killed, dead) <= Needs(killed, A \cup {q})
       /\ Needs(killed, dead) \in Nat /\ Needs(killed, A \cup {q}) \in Nat
  BY <1>1, <1>11, <1>12, NeedsGrow
<1>14. Needs(killed, A \cup {q}) = Needs(killed, A) + Appetite(q) * killed[q]
  BY <1>1, <1>8, NeedsOneMore
<1>15. Needs(pools, A) + Appetite(q) * (killed[q] - 1) < deficit
  BY <1>8 DEF Starves
<1>16. /\ Appetite(q) * (killed[q] - 1) = Appetite(q) * killed[q] - Appetite(q)
       /\ Appetite(q) * killed[q] \in Int
  BY <1>8
<1>17. Needs(killed, A) \in Nat
  BY <1>1, <1>8, NeedsGrow
<1>. HIDE DEF A
<1>18. Needs(killed, Places) - deficit < Appetite(q)
  BY <1>1, <1>3, <1>8, <1>10, <1>13, <1>14, <1>15, <1>16, <1>17
<1>. QED
  BY <1>8, <1>18

------------------------------------------------------------------------------
\* What the pools eat is what the town's troops eat.

\* Sums over two sets that share nothing.
LEMMA SumApart ==
    ASSUME NEW A, NEW B, IsFiniteSet(A), IsFiniteSet(B), A \cap B = {}, NEW f,
           \A y \in A \cup B : f[y] \in Int
    PROVE  SumFunctionOnSet(f, A \cup B) = SumFunctionOnSet(f, A) + SumFunctionOnSet(f, B)
<1>. DEFINE Sum(T) == SumFunctionOnSet(f, T)
            G == {T \in SUBSET B : Sum(A \cup T) = Sum(A) + Sum(T)}
<1>1. {} \in G
  <2>1. A \cup {} = A /\ Sum({}) = 0 /\ Sum(A) \in Int
    BY SumEmpty, SumAny
  <2>. QED
    BY <2>1
<1>2. ASSUME NEW T \in SUBSET B, NEW x \in B \ T, T \in G
      PROVE  T \cup {x} \in G
  <2>1. IsFiniteSet(T) /\ IsFiniteSet(A \cup T)
    BY FS_Subset, FS_Union
  <2>2. x \notin T /\ x \notin A \cup T /\ f[x] \in Int /\ A \cup (T \cup {x}) = (A \cup T) \cup {x}
    OBVIOUS
  <2>3. Sum((A \cup T) \cup {x}) = Sum(A \cup T) + f[x]
    BY <2>1, <2>2, SumAdd
  <2>4. Sum(T \cup {x}) = Sum(T) + f[x]
    BY <2>1, <2>2, SumAdd
  <2>5. Sum(A \cup T) \in Int /\ Sum(T) \in Int /\ Sum(A) \in Int
    BY <2>1, SumAny
  <2>6. Sum(A \cup T) = Sum(A) + Sum(T) /\ T \cup {x} \in SUBSET B
    BY <1>2
  <2>7. Sum(A \cup (T \cup {x})) = Sum((A \cup T) \cup {x})
    BY <2>2
  <2>. HIDE DEF Sum
  <2>8. Sum(A \cup (T \cup {x})) = Sum(A) + Sum(T \cup {x})
    BY <2>2, <2>3, <2>4, <2>5, <2>6, <2>7
  <2>. QED
    BY <2>6, <2>8
<1>. HIDE DEF G
<1>3. B \in G
  BY <1>1, <1>2, SetInduction
<1>. QED
  BY <1>3 DEF G

\* The pools of some contingents, and the row that repeats one of them.
Block(h, K) == {h} \X K \X Types
RowOf(h, k, f, g) == \A t \in Types : f[<< h, k, t >>] \in Int /\ g[t] = f[<< h, k, t >>]

\* One contingent of the pools, type by type.
LEMMA SumOfContingent ==
    ASSUME NEW h, NEW k, NEW f, NEW g, RowOf(h, k, f, g)
    PROVE  SumFunctionOnSet(f, Block(h, {k})) = SumFunctionOnSet(g, Types)
<1>. USE DEF RowOf
<1>. DEFINE R(T) == {h} \X {k} \X T
            G == {T \in SUBSET Types :
                    IsFiniteSet(R(T)) /\ SumFunctionOnSet(f, R(T)) = SumFunctionOnSet(g, T)}
<1>1. {} \in G
  <2>1. R({}) = {}
    OBVIOUS
  <2>. QED
    BY <2>1, SumEmpty, FS_EmptySet
<1>2. ASSUME NEW T \in SUBSET Types, NEW x \in Types \ T, T \in G
      PROVE  T \cup {x} \in G
  <2>1. IsFiniteSet(T)
    BY TypesFinite, FS_Subset
  <2>2. R(T \cup {x}) = R(T) \cup {<< h, k, x >>} /\ << h, k, x >> \notin R(T)
    OBVIOUS
  <2>3. \A y \in R(T) : f[y] \in Int
    OBVIOUS
  <2>4. /\ IsFiniteSet(R(T)) /\ SumFunctionOnSet(f, R(T)) = SumFunctionOnSet(g, T)
        /\ f[<< h, k, x >>] \in Int /\ g[x] = f[<< h, k, x >>] /\ T \cup {x} \in SUBSET Types
        /\ \A t \in T : g[t] \in Int
    BY <1>2
  <2>. HIDE DEF R
  <2>5. SumFunctionOnSet(f, R(T) \cup {<< h, k, x >>})
        = SumFunctionOnSet(f, R(T)) + f[<< h, k, x >>]
    BY <2>2, <2>3, <2>4, SumAdd
  <2>6. SumFunctionOnSet(g, T \cup {x}) = SumFunctionOnSet(g, T) + g[x]
    BY <2>1, <2>4, SumAdd
  <2>7. IsFiniteSet(R(T) \cup {<< h, k, x >>})
    BY <2>4, FS_AddElement
  <2>. QED
    BY <2>2, <2>4, <2>5, <2>6, <2>7
<1>. HIDE DEF G
<1>3. Types \in G
  BY <1>1, <1>2, TypesFinite, SetInduction
<1>. QED
  BY <1>3 DEF G, Block

\* Several contingents, one after the other.
LEMMA SumOfContingents ==
    ASSUME NEW h, NEW K, IsFiniteSet(K), NEW f, NEW rows, NEW g, IsFiniteSet(Block(h, K)),
           \A k \in K : RowOf(h, k, f, rows[k]),
           \A k \in K : g[k] = SumFunctionOnSet(rows[k], Types)
    PROVE  SumFunctionOnSet(f, Block(h, K)) = SumFunctionOnSet(g, K)
<1>. DEFINE R(T) == Block(h, T)
            G == {T \in SUBSET K : SumFunctionOnSet(f, R(T)) = SumFunctionOnSet(g, T)}
<1>1. {} \in G
  <2>1. R({}) = {}
    BY DEF Block
  <2>. QED
    BY <2>1, SumEmpty
<1>2. ASSUME NEW k \in K
      PROVE  g[k] \in Int /\ SumFunctionOnSet(f, Block(h, {k})) = g[k]
  <2>1. RowOf(h, k, f, rows[k])
    OBVIOUS
  <2>2. SumFunctionOnSet(f, Block(h, {k})) = SumFunctionOnSet(rows[k], Types)
    BY <2>1, SumOfContingent
  <2>3. SumFunctionOnSet(rows[k], Types) \in Int
    BY <2>1, TypesFinite, SumAny DEF RowOf
  <2>. QED
    BY <2>2, <2>3
<1>3. ASSUME NEW T \in SUBSET K, NEW x \in K \ T, T \in G
      PROVE  T \cup {x} \in G
  <2>. DEFINE C == Block(h, {x})
  <2>1. IsFiniteSet(T)
    BY FS_Subset
  <2>2. R(T \cup {x}) = R(T) \cup C /\ R(T) \cap C = {}
    BY DEF Block
  <2>3. R(T) \in SUBSET R(K) /\ C \in SUBSET R(K)
    BY DEF Block
  <2>4. IsFiniteSet(R(T)) /\ IsFiniteSet(C)
    BY <2>3, FS_Subset
  <2>5. \A y \in R(T) \cup C : f[y] \in Int
    <3>1. \A k \in K, t \in Types : f[<< h, k, t >>] \in Int
      BY DEF RowOf
    <3>. QED
      BY <3>1 DEF Block
  <2>6. /\ SumFunctionOnSet(f, R(T)) = SumFunctionOnSet(g, T) /\ T \cup {x} \in SUBSET K
        /\ x \notin T
    BY <1>3
  <2>7. SumFunctionOnSet(f, C) = g[x]
    BY <1>2
  <2>8. g[x] \in Int /\ \A k \in T : g[k] \in Int
    BY <1>2
  <2>. HIDE DEF R, C
  <2>9. SumFunctionOnSet(f, R(T) \cup C) = SumFunctionOnSet(f, R(T)) + SumFunctionOnSet(f, C)
    BY <2>2, <2>4, <2>5, SumApart
  <2>10. SumFunctionOnSet(g, T \cup {x}) = SumFunctionOnSet(g, T) + g[x]
    BY <2>1, <2>6, <2>8, SumAdd
  <2>. QED
    BY <2>2, <2>6, <2>7, <2>9, <2>10
<1>. HIDE DEF G
<1>4. K \in G
  BY <1>1, <1>3, SetInduction
<1>. QED
  BY <1>4 DEF G

UpkeepOf == [t \in Types |-> Unit[t].upkeep]

\* The upkeep of a troop list counts every type, also those nobody is of.
LEMMA UpkeepIs ==
    ASSUME NEW troops \in Troops
    PROVE  calcTroopFoodUpkeepPerHour(troops)
           = SumFunctionOnSet([t \in Types |-> UpkeepOf[t] * troops[t]], Types)
<1>. DEFINE some == {t \in Types : troops[t] > 0}
            f == [t \in Types |-> UpkeepOf[t] * troops[t]]
<1>1. \A t \in Types : UpkeepOf[t] \in Nat /\ troops[t] \in Nat
  BY CombatAssumption DEF UpkeepOf, Troops
<1>2. \A t \in Types : f[t] \in Int
  BY <1>1, Product
<1>3. \A t \in Types \ some : f[t] = 0
  BY <1>1
<1>4. some \in SUBSET Types
  OBVIOUS
<1>5. calcTroopFoodUpkeepPerHour(troops) = SumFunctionOnSet(f, some)
  BY DEF calcTroopFoodUpkeepPerHour, Total, UpkeepOf
<1>. HIDE DEF some, f
<1>6. SumFunctionOnSet(f, Types) = SumFunctionOnSet(f, some)
  BY <1>2, <1>3, <1>4, TypesFinite, SumPart
<1>. QED
  BY <1>5, <1>6 DEF f

\* What guests eat together is what each contingent eats.
LEMMA GuestsEat ==
    ASSUME NEW K, NEW lists, Contingents(lists, K)
    PROVE  calcTroopFoodUpkeepPerHour(unionTroops(lists))
           = SumFunctionOnSet([k \in K |->
                SumFunctionOnSet([t \in Types |-> UpkeepOf[t] * lists[k][t]], Types)], K)
<1>. DEFINE F == [x \in K \X Types |-> UpkeepOf[x[2]] * lists[x[1]][x[2]]]
            all == unionTroops(lists)
            column(t) == [k \in K |-> lists[k][t]]
<1>1. all \in Troops
  BY UnionIsTroops
<1>2. \A t \in Types : UpkeepOf[t] \in Nat
  BY CombatAssumption DEF UpkeepOf
<1>3. \A k \in K, t \in Types : lists[k][t] \in Nat
  BY DEF Contingents, Troops
<1>4. IsFiniteSet(K) /\ DOMAIN lists = K
  BY DEF Contingents
<1>5. \A k \in K, t \in Types : F[<< k, t >>] = UpkeepOf[t] * lists[k][t] /\ F[<< k, t >>] \in Int
  <2>1. \A k \in K, t \in Types : F[<< k, t >>] = UpkeepOf[t] * lists[k][t]
    OBVIOUS
  <2>. HIDE DEF F
  <2>2. ASSUME NEW k \in K, NEW t \in Types
        PROVE  F[<< k, t >>] \in Int
    <3>1. UpkeepOf[t] \in Nat /\ lists[k][t] \in Nat
      BY <1>2, <1>3
    <3>2. UpkeepOf[t] * lists[k][t] \in Nat
      BY <3>1, Product
    <3>3. F[<< k, t >>] = UpkeepOf[t] * lists[k][t]
      BY <2>1
    <3>. QED
      BY <3>2, <3>3
  <2>. QED
    BY <2>1, <2>2
<1>. HIDE DEF F
<1>6. ASSUME NEW t \in Types
      PROVE  UpkeepOf[t] * all[t] = SumFunctionOnSet([k \in K |-> F[<< k, t >>]], K)
  <2>1. all[t] = SumFunctionOnSet(column(t), K)
    <3>1. column(t) \in [K -> Int]
      BY <1>3
    <3>2. all[t] = SumFunction(column(t))
      BY <1>4 DEF unionTroops
    <3>. QED
      BY <1>4, <3>1, <3>2, TotalIs
  <2>2. \A k \in K : column(t)[k] \in Int /\ [j \in K |-> F[<< j, t >>]][k] = UpkeepOf[t] * column(t)[k]
    BY <1>3, <1>5
  <2>3. UpkeepOf[t] \in Int
    BY <1>2
  <2>. HIDE DEF column
  <2>4. SumFunctionOnSet([k \in K |-> F[<< k, t >>]], K) = UpkeepOf[t] * SumFunctionOnSet(column(t), K)
    BY <1>4, <2>2, <2>3, SumTimes
  <2>. QED
    BY <2>1, <2>4
<1>7. calcTroopFoodUpkeepPerHour(all)
      = SumFunctionOnSet([t \in Types |-> SumFunctionOnSet([k \in K |-> F[<< k, t >>]], K)], Types)
  <2>1. calcTroopFoodUpkeepPerHour(all)
        = SumFunctionOnSet([t \in Types |-> UpkeepOf[t] * all[t]], Types)
    BY <1>1, UpkeepIs
  <2>. QED
    BY <1>6, <2>1
<1>8. SumFunctionOnSet([k \in K |-> SumFunctionOnSet([t \in Types |-> F[<< k, t >>]], Types)], K)
      = SumFunctionOnSet([t \in Types |-> SumFunctionOnSet([k \in K |-> F[<< k, t >>]], K)], Types)
  <2>1. \A k \in K, t \in Types : F[<< k, t >>] \in Int
    BY <1>5
  <2>2. IsFiniteSet(K)
    BY <1>4
  <2>. QED
    BY <2>1, <2>2, TypesFinite, SumSwap, Zenon
<1>9. [k \in K |-> SumFunctionOnSet([t \in Types |-> F[<< k, t >>]], Types)]
      = [k \in K |-> SumFunctionOnSet([t \in Types |-> UpkeepOf[t] * lists[k][t]], Types)]
  <2>1. \A k \in K : [t \in Types |-> F[<< k, t >>]] = [t \in Types |-> UpkeepOf[t] * lists[k][t]]
    BY <1>5
  <2>. QED
    BY <2>1
<1>. QED
  BY <1>7, <1>8, <1>9

LEMMA PoolsAre ==
    ASSUME NEW t \in TownType
    PROVE  /\ Pools(t) \in [Places -> Nat]
           /\ \A k \in Supporter, u \in Types : Pools(t)[<< 0, k, u >>] = t.stationed[k][u]
           /\ \A u \in Types : Pools(t)[<< 1, HOME_CONTINGENT_KEY, u >>] = t.troops[u]
<1>1. Pools(t) = [p \in Places |-> IF p[1] = 0 THEN t.stationed[p[2]][p[3]] ELSE t.troops[p[3]]]
  BY DEF Pools, Places
<1>2. \A k \in Supporter, u \in Types : t.stationed[k][u] \in Nat /\ t.troops[u] \in Nat
  BY DEF TownType, Troops
<1>3. \A p \in Places : Pools(t)[p] \in Nat
  <2>1. ASSUME NEW p \in Places
        PROVE  (IF p[1] = 0 THEN t.stationed[p[2]][p[3]] ELSE t.troops[p[3]]) \in Nat
    <3>1. p[3] \in Types /\ (p[1] = 0 => p[2] \in Supporter)
      BY PlaceIs
    <3>2. t.troops \in Troops
      BY DEF TownType
    <3>. QED
      BY <1>2, <3>1, <3>2 DEF Troops
  <2>. QED
    BY <1>1, <2>1
<1>4. /\ \A k \in Supporter, u \in Types : << 0, k, u >> \in Places
      /\ \A u \in Types : << 1, HOME_CONTINGENT_KEY, u >> \in Places
  BY DEF Places
<1>. QED
  BY <1>1, <1>3, <1>4

\* The net of a town is what it has to spare less what its pools eat.
LEMMA NetIs ==
    ASSUME NEW t \in TownType, Standing(t.buildings)
    PROVE  calcNetFoodPerHour(t) = Fixed(t) - Needs(Pools(t), Places)
<1>. DEFINE f == Eaten(Pools(t))
            guests == Block(0, Supporter)
            own == Block(1, {HOME_CONTINGENT_KEY})
<1>1. Pools(t) \in [Places -> Nat]
  BY PoolsAre
<1>2. \A p \in Places : f[p] \in Nat /\ f[p] = Appetite(p) * Pools(t)[p]
  BY <1>1, EatenType
<1>3. /\ \A k \in Supporter, u \in Types : << 0, k, u >> \in Places
      /\ \A u \in Types : << 1, HOME_CONTINGENT_KEY, u >> \in Places
  BY DEF Places
<1>4. /\ \A k \in Supporter, u \in Types :
            f[<< 0, k, u >>] = UpkeepOf[u] * t.stationed[k][u]
      /\ \A u \in Types : f[<< 1, HOME_CONTINGENT_KEY, u >>] = UpkeepOf[u] * t.troops[u]
  <2>1. /\ \A k, u : Appetite(<< 0, k, u >>) = Unit[u].upkeep
        /\ \A u : Appetite(<< 1, HOME_CONTINGENT_KEY, u >>) = Unit[u].upkeep
    BY DEF Appetite
  <2>. QED
    BY <1>2, <1>3, <2>1, PoolsAre DEF UpkeepOf
<1>5. IsFiniteSet(guests) /\ IsFiniteSet(own) /\ guests \cap own = {} /\ Places = guests \cup own
  <2>1. guests \in SUBSET Places /\ own \in SUBSET Places /\ Places = guests \cup own
    BY DEF Places, Block
  <2>2. guests \cap own = {}
    BY DEF Block
  <2>. QED
    BY <2>1, <2>2, PlacesFinite, FS_Subset
<1>. HIDE DEF f
<1>6. Needs(Pools(t), Places) = SumFunctionOnSet(f, guests) + SumFunctionOnSet(f, own)
  <2>1. \A p \in guests \cup own : f[p] \in Int
    BY <1>2, <1>5
  <2>. HIDE DEF guests, own
  <2>. QED
    BY <1>5, <2>1, SumApart DEF Needs, f
<1>7. calcTroopFoodUpkeepPerHour(unionTroops(t.stationed)) = SumFunctionOnSet(f, guests)
  <2>1. Contingents(t.stationed, Supporter)
    BY WarfareAssumption DEF TownType, Contingents
  <2>2. calcTroopFoodUpkeepPerHour(unionTroops(t.stationed))
        = SumFunctionOnSet([k \in Supporter |->
              SumFunctionOnSet([u \in Types |-> UpkeepOf[u] * t.stationed[k][u]], Types)], Supporter)
    BY <2>1, GuestsEat
  <2>. DEFINE rows == [k \in Supporter |-> [u \in Types |-> UpkeepOf[u] * t.stationed[k][u]]]
              g == [k \in Supporter |->
                      SumFunctionOnSet([u \in Types |-> UpkeepOf[u] * t.stationed[k][u]], Types)]
  <2>3. \A k \in Supporter : RowOf(0, k, f, rows[k])
    <3>1. ASSUME NEW k \in Supporter, NEW u \in Types
          PROVE  f[<< 0, k, u >>] \in Int /\ rows[k][u] = f[<< 0, k, u >>]
      <4>1. << 0, k, u >> \in Places
        BY <1>3
      <4>2. f[<< 0, k, u >>] \in Nat
        BY <1>2, <4>1
      <4>3. rows[k][u] = UpkeepOf[u] * t.stationed[k][u]
        OBVIOUS
      <4>. HIDE DEF rows
      <4>. QED
        BY <1>4, <4>2, <4>3
    <3>. HIDE DEF rows
    <3>. QED
      BY <3>1 DEF RowOf
  <2>4. \A k \in Supporter : g[k] = SumFunctionOnSet(rows[k], Types)
    OBVIOUS
  <2>5. IsFiniteSet(Block(0, Supporter)) /\ IsFiniteSet(Supporter)
    BY <1>5, WarfareAssumption
  <2>. HIDE DEF rows, g
  <2>6. SumFunctionOnSet(f, guests) = SumFunctionOnSet(g, Supporter)
    BY <2>3, <2>4, <2>5, SumOfContingents
  <2>. QED
    BY <2>2, <2>6 DEF g
<1>8. calcTroopFoodUpkeepPerHour(t.troops) = SumFunctionOnSet(f, own)
  <2>1. t.troops \in Troops
    BY DEF TownType
  <2>2. calcTroopFoodUpkeepPerHour(t.troops)
        = SumFunctionOnSet([u \in Types |-> UpkeepOf[u] * t.troops[u]], Types)
    BY <2>1, UpkeepIs
  <2>. DEFINE g == [u \in Types |-> UpkeepOf[u] * t.troops[u]]
  <2>3. RowOf(1, HOME_CONTINGENT_KEY, f, g)
    BY <1>2, <1>3, <1>4 DEF RowOf
  <2>. HIDE DEF g
  <2>4. SumFunctionOnSet(f, own) = SumFunctionOnSet(g, Types)
    BY <2>3, SumOfContingent
  <2>. QED
    BY <2>2, <2>4 DEF g
<1>9. /\ unionTroops(t.stationed) \in Troops /\ t.troops \in Troops
  <2>1. Contingents(t.stationed, Supporter)
    BY WarfareAssumption DEF TownType, Contingents
  <2>. QED
    BY <2>1, UnionIsTroops DEF TownType
<1>10. /\ calcTroopFoodUpkeepPerHour(unionTroops(t.stationed)) \in Nat
       /\ calcTroopFoodUpkeepPerHour(t.troops) \in Nat
  BY <1>9, UpkeepType
<1>. DEFINE g == calcTroopFoodUpkeepPerHour(unionTroops(t.stationed))
            o == calcTroopFoodUpkeepPerHour(t.troops)
            n == Needs(Pools(t), Places)
            out == FoodOutput[t.buildings["greenhouseFarm"]]
            eaten == calcFoodUpkeepPerHour(t.buildings)
            away == calcTroopFoodUpkeepPerHour(t.awayTroops)
<1>11. calcNetFoodPerHour(t) = out - eaten - g - o - away
  BY DEF calcNetFoodPerHour
<1>12. g \in Nat /\ o \in Nat /\ n = g + o
  BY <1>6, <1>7, <1>8, <1>10
<1>13. out \in Nat /\ eaten \in Nat /\ away \in Nat /\ Fixed(t) = out - eaten - away
  BY FixedType DEF Fixed
<1>. HIDE DEF g, o, out, eaten, away
<1>14. calcNetFoodPerHour(t) = Fixed(t) - n
  <2>. HIDE DEF n
  <2>. QED
    BY <1>11, <1>12, <1>13
<1>. QED
  BY <1>14

------------------------------------------------------------------------------
\* The town's own troops come home.

LEMMA TownReturnIs ==
    ASSUME TownTypes, TownReturn
    PROVE  /\ town' \in TownType
           /\ town'.troops = Plus(town.troops, town.awayTroops) /\ town'.awayTroops = Nobody
           /\ town'.values = town.values /\ town'.buildings = town.buildings
           /\ town'.stationed = town.stationed /\ town'.lastTick = town.lastTick
           /\ UNCHANGED << now, home, movement, reports, spoils, plundered >>
<1>1. town \in TownType /\ town.troops \in Troops /\ town.awayTroops \in Troops
  BY DEF TownTypes, TownType
<1>2. Plus(town.troops, town.awayTroops) \in Troops /\ Nobody \in Troops
  BY <1>1, PlusIsTroops, NobodyIsTroops
<1>. QED
  BY <1>1, <1>2 DEF TownReturn, TownType

LEMMA TownReturnKeeps ==
    ASSUME IInv, TownReturn
    PROVE  IInv'
<1>1. /\ town' \in TownType /\ town'.buildings = town.buildings
      /\ town'.lastTick = town.lastTick
      /\ UNCHANGED << now, home, movement, reports, spoils, plundered >>
  BY TownReturnIs DEF IInv, WarTypes
<1>2. ArmyTypes' /\ SpoilsOnTheWay' /\ SpoilsConserved'
  BY <1>1, ElsewhereKeeps DEF IInv, WarTypes
<1>3. TownTypes' /\ Standing(town.buildings)' /\ NoReportAhead'
  BY <1>1 DEF IInv, WarTypes, TownTypes, Standing, NoReportAhead
<1>. QED
  BY <1>2, <1>3 DEF IInv, WarTypes

------------------------------------------------------------------------------
\* The starvation tick.

\* The town after losing the killed of a deficit.
Bereft(killed) ==
    /\ Starves(-calcNetFoodPerHour(town), Pools(town), killed)
    /\ town' \in TownType /\ town'.buildings = town.buildings /\ town'.values = town.values
    /\ town'.lastTick = now /\ town'.awayTroops = town.awayTroops
    /\ \A p \in Places : Pools(town')[p] = Pools(town)[p] - killed[p]
    /\ \A k \in Supporter, u \in Types :
          town'.stationed[k][u] = town.stationed[k][u] - killed[<< 0, k, u >>]
    /\ \A u \in Types : town'.troops[u] = town.troops[u] - killed[<< 1, HOME_CONTINGENT_KEY, u >>]

Dead(killed) == {p \in Places : killed[p] > 0}

LEMMA TickIs ==
    ASSUME TownTypes, Standing(town.buildings), StarvationTick
    PROVE  \E killed :
             /\ Bereft(killed)
             /\ reports' = reports \cup {<< Defender, "starvation", now >> : p \in Dead(killed)}
                    \cup {<< p[2], "starvation", now >> : p \in {q \in Dead(killed) : q[1] = 0}}
<1>. DEFINE net == calcNetFoodPerHour(town)
            pools == Pools(town)
            killed == resolveStarvation(-net, pools)
<1>1. town \in TownType /\ now \in Nat
  BY DEF TownTypes
<1>2. net \in Int /\ net < 0
  BY <1>1, NetFoodType DEF StarvationTick
<1>3. pools \in [Places -> Nat]
  BY <1>1, PoolsAre
<1>4. /\ town' = Starved(killed)
      /\ reports' = reports
           \cup {<< Defender, "starvation", now >> : p \in {p \in DOMAIN killed : killed[p] > 0}}
           \cup {<< p[2], "starvation", now >> :
                   p \in {q \in {p \in DOMAIN killed : killed[p] > 0} : q[1] = 0}}
  BY DEF StarvationTick
<1>. HIDE DEF net, pools
<1>5. Starves(-net, pools, killed)
  <2>1. -net \in Nat \ {0}
    BY <1>2
  <2>. QED
    BY <1>3, <2>1, KilledIs
<1>. HIDE DEF killed
<1>6. killed \in [Places -> Nat] /\ \A p \in Places : killed[p] <= pools[p]
  BY <1>5 DEF Starves
<1>7. /\ \A k \in Supporter, u \in Types : << 0, k, u >> \in Places
      /\ \A u \in Types : << 1, HOME_CONTINGENT_KEY, u >> \in Places
  BY DEF Places
<1>8. /\ \A k \in Supporter, u \in Types : pools[<< 0, k, u >>] = town.stationed[k][u]
      /\ \A u \in Types : pools[<< 1, HOME_CONTINGENT_KEY, u >>] = town.troops[u]
  BY <1>1, PoolsAre DEF pools
<1>. DEFINE troops == [u \in Types |-> town.troops[u] - killed[<< 1, HOME_CONTINGENT_KEY, u >>]]
            stationed == [k \in Supporter |->
                            [u \in Types |-> town.stationed[k][u] - killed[<< 0, k, u >>]]]
<1>9. troops \in Troops
  <2>1. ASSUME NEW u \in Types
        PROVE  town.troops[u] - killed[<< 1, HOME_CONTINGENT_KEY, u >>] \in Nat
    <3>1. << 1, HOME_CONTINGENT_KEY, u >> \in Places
      BY <1>7
    <3>2. /\ killed[<< 1, HOME_CONTINGENT_KEY, u >>] \in Nat
          /\ killed[<< 1, HOME_CONTINGENT_KEY, u >>] <= pools[<< 1, HOME_CONTINGENT_KEY, u >>]
      BY <1>6, <3>1
    <3>3. pools[<< 1, HOME_CONTINGENT_KEY, u >>] = town.troops[u] /\ town.troops[u] \in Nat
      BY <1>1, <1>8 DEF TownType, Troops
    <3>. QED
      BY <3>2, <3>3
  <2>. QED
    BY <2>1 DEF Troops
<1>10. stationed \in [Supporter -> Troops]
  <2>1. ASSUME NEW k \in Supporter, NEW u \in Types
        PROVE  town.stationed[k][u] - killed[<< 0, k, u >>] \in Nat
    <3>1. << 0, k, u >> \in Places
      BY <1>7
    <3>2. killed[<< 0, k, u >>] \in Nat /\ killed[<< 0, k, u >>] <= pools[<< 0, k, u >>]
      BY <1>6, <3>1
    <3>3. pools[<< 0, k, u >>] = town.stationed[k][u] /\ town.stationed[k][u] \in Nat
      BY <1>1, <1>8 DEF TownType, Troops
    <3>. QED
      BY <3>2, <3>3
  <2>. QED
    BY <2>1 DEF Troops
<1>11. town' = [town EXCEPT !.troops = troops, !.stationed = stationed, !.lastTick = now]
  BY <1>1, <1>4 DEF Starved, TownType
<1>12. /\ \A u \in Types :
            troops[u] = town.troops[u] - killed[<< 1, HOME_CONTINGENT_KEY, u >>]
       /\ \A k \in Supporter, u \in Types :
            stationed[k][u] = town.stationed[k][u] - killed[<< 0, k, u >>]
  OBVIOUS
<1>. HIDE DEF troops, stationed
<1>13. /\ town' \in TownType /\ town'.buildings = town.buildings /\ town'.values = town.values
       /\ town'.lastTick = now /\ town'.troops = troops /\ town'.stationed = stationed
       /\ town'.awayTroops = town.awayTroops
  BY <1>1, <1>9, <1>10, <1>11 DEF TownType
<1>14. ASSUME NEW p \in Places
       PROVE  Pools(town')[p] = pools[p] - killed[p]
  <2>1. p = << p[1], p[2], p[3] >> /\ p[3] \in Types /\ p[1] \in {0, 1}
        /\ (p[1] = 0 => p[2] \in Supporter) /\ (p[1] = 1 => p[2] = HOME_CONTINGENT_KEY)
    BY PlaceIs
  <2>2. CASE p[1] = 0
    <3>1. PICK k \in Supporter, u \in Types : p = << 0, k, u >>
      BY <2>1, <2>2
    <3>2. Pools(town')[<< 0, k, u >>] = town'.stationed[k][u]
      BY <1>13, PoolsAre
    <3>3. pools[<< 0, k, u >>] = town.stationed[k][u]
      BY <1>8
    <3>. QED
      BY <1>12, <1>13, <3>1, <3>2, <3>3
  <2>3. CASE p[1] = 1
    <3>1. PICK u \in Types : p = << 1, HOME_CONTINGENT_KEY, u >>
      BY <2>1, <2>3
    <3>2. Pools(town')[<< 1, HOME_CONTINGENT_KEY, u >>] = town'.troops[u]
      BY <1>13, PoolsAre
    <3>3. pools[<< 1, HOME_CONTINGENT_KEY, u >>] = town.troops[u]
      BY <1>8
    <3>. QED
      BY <1>12, <1>13, <3>1, <3>2, <3>3
  <2>. QED
    BY <2>1, <2>2, <2>3
<1>15. DOMAIN killed = Places
  BY <1>6
<1>16. Bereft(killed)
  BY <1>5, <1>12, <1>13, <1>14 DEF Bereft, net, pools
<1>. QED
  BY <1>4, <1>15, <1>16 DEF Dead

LEMMA NetAfterTick ==
    ASSUME TownTypes, Standing(town.buildings), NEW killed, Bereft(killed)
    PROVE  calcNetFoodPerHour(town') = calcNetFoodPerHour(town) + Needs(killed, Places)
<1>. DEFINE before == Eaten(Pools(town))
            after == Eaten(Pools(town'))
            lost == Eaten(killed)
            out == Fixed(town)
<1>1. town \in TownType /\ town' \in TownType /\ town'.buildings = town.buildings
      /\ Standing(town'.buildings) /\ town'.awayTroops = town.awayTroops
  BY DEF TownTypes, Bereft
<1>2. /\ calcNetFoodPerHour(town) = out - Needs(Pools(town), Places)
      /\ calcNetFoodPerHour(town') = out - Needs(Pools(town'), Places)
      /\ out \in Int
  <2>1. Fixed(town') = Fixed(town)
    BY <1>1 DEF Fixed
  <2>. QED
    BY <1>1, <2>1, NetIs, FixedType
<1>3. /\ Pools(town) \in [Places -> Nat] /\ Pools(town') \in [Places -> Nat]
      /\ killed \in [Places -> Nat]
  BY <1>1, PoolsAre DEF Bereft, Starves
<1>4. ASSUME NEW p \in Places
      PROVE  /\ after[p] \in Int /\ lost[p] \in Int /\ before[p] = after[p] + lost[p]
  <2>1. /\ Pools(town')[p] = Pools(town)[p] - killed[p] /\ Appetite(p) \in Nat
        /\ Pools(town)[p] \in Nat /\ killed[p] \in Nat /\ Pools(town')[p] \in Nat
    BY <1>3, AppetiteType DEF Bereft
  <2>2. /\ before[p] = Appetite(p) * Pools(town)[p] /\ lost[p] = Appetite(p) * killed[p]
        /\ after[p] = Appetite(p) * Pools(town')[p] /\ after[p] \in Nat /\ lost[p] \in Nat
    BY <1>3, EatenType
  <2>3. Appetite(p) * Pools(town)[p] = Appetite(p) * Pools(town')[p] + Appetite(p) * killed[p]
    <3>1. ASSUME NEW a \in Nat, NEW b \in Nat, NEW c \in Nat
          PROVE  a * (b + c) = a * b + a * c
      OBVIOUS
    <3>2. Pools(town)[p] = Pools(town')[p] + killed[p]
      BY <2>1
    <3>. QED
      BY <2>1, <3>1, <3>2
  <2>. QED
    BY <2>2, <2>3
<1>. HIDE DEF before, after, lost
<1>5. SumFunctionOnSet(before, Places)
      = SumFunctionOnSet(after, Places) + SumFunctionOnSet(lost, Places)
  BY <1>4, PlacesFinite, SumPlus
<1>6. Needs(Pools(town), Places) = Needs(Pools(town'), Places) + Needs(killed, Places)
  BY <1>5 DEF Needs, before, after, lost
<1>7. /\ Needs(Pools(town), Places) \in Int /\ Needs(Pools(town'), Places) \in Int
      /\ Needs(killed, Places) \in Int
  BY <1>3, NeedsGrow
<1>. QED
  BY <1>2, <1>6, <1>7

LEMMA TickKeeps ==
    ASSUME IInv, StarvationTick
    PROVE  IInv'
<1>1. PICK killed : /\ Bereft(killed)
                    /\ reports' = reports
                         \cup {<< Defender, "starvation", now >> : p \in Dead(killed)}
                         \cup {<< p[2], "starvation", now >> : p \in {q \in Dead(killed) : q[1] = 0}}
  BY TickIs DEF IInv, WarTypes
<1>2. now' = now /\ UNCHANGED << home, movement, spoils, plundered >>
  BY DEF StarvationTick
<1>3. TownTypes' /\ Standing(town'.buildings) /\ town'.lastTick = now
  BY <1>1, <1>2 DEF Bereft, IInv, WarTypes, TownTypes
<1>4. ArmyTypes' /\ SpoilsOnTheWay' /\ SpoilsConserved'
  BY <1>2, ElsewhereKeeps DEF IInv, WarTypes
<1>5. NoReportAhead'
  <2>1. now \in Nat /\ town.lastTick \in Int /\ town.lastTick <= now
    BY DEF IInv, WarTypes, TownTypes, TownType, NoReportAhead
  <2>2. \A rep \in reports' : \/ rep \in reports
                              \/ rep[2] = "starvation" /\ rep[3] = now
    BY <1>1
  <2>3. \A rep \in reports : rep[2] = "starvation" => rep[3] \in 0 .. town.lastTick
    BY DEF IInv, NoReportAhead
  <2>4. ASSUME NEW rep \in reports', rep[2] = "starvation" PROVE rep[3] \in 0 .. now
    <3>1. CASE rep \in reports
      <4>1. rep[3] \in 0 .. town.lastTick
        BY <2>3, <2>4, <3>1
      <4>. QED
        BY <2>1, <4>1
    <3>2. CASE rep[3] = now
      BY <2>1, <3>2
    <3>. QED
      BY <2>2, <3>1, <3>2
  <2>5. ASSUME NEW rep \in reports', rep[2] # "starvation"
        PROVE  rep[3] \in Movement /\ movement'[rep[3]].status \in {"returning", "done"}
    BY <1>2, <2>2, <2>5 DEF IInv, NoReportAhead
  <2>. QED
    BY <1>2, <1>3, <2>1, <2>4, <2>5 DEF NoReportAhead
<1>. QED
  BY <1>3, <1>4, <1>5 DEF IInv, WarTypes

------------------------------------------------------------------------------
\* The oasis.

\* Whole intervals add up, however they are counted.
LEMMA WholeIntervals ==
    ASSUME NEW x \in Nat, NEW y \in Nat, NEW n \in Nat \ {0}
    PROVE  /\ x \div n \in Nat /\ n * (x \div n) <= x /\ x < n * (x \div n) + n
           /\ (x + y) \div n = x \div n + (x + y - n * (x \div n)) \div n
<1>. DEFINE q == x \div n
            z == x + y - n * q
            p == z \div n
            w == (x + y) \div n
<1>1. q \in Int /\ (x % n) \in 0 .. n - 1 /\ x = n * q + (x % n)
  OBVIOUS
<1>. HIDE DEF q
<1>2. n * q <= x /\ x < n * q + n /\ n * q \in Int
  BY <1>1
<1>3. q >= 0
  <2>1. SUFFICES ASSUME q <= -1 PROVE FALSE
    BY <1>1
  <2>2. n * q <= n * (-1)
    BY <1>1, <2>1
  <2>. QED
    BY <1>2, <2>2
<1>4. z \in Nat
  BY <1>2
<1>5. p \in Int /\ (z % n) \in 0 .. n - 1 /\ z = n * p + (z % n)
  BY <1>4
<1>6. w \in Int /\ ((x + y) % n) \in 0 .. n - 1 /\ x + y = n * w + ((x + y) % n)
  OBVIOUS
<1>7. x + y = z + n * q
  BY <1>2
<1>. HIDE DEF z, p, w
<1>8. n * w + ((x + y) % n) = n * p + (z % n) + n * q
  BY <1>5, <1>6, <1>7
<1>9. n * (w - p - q) = (z % n) - ((x + y) % n)
  <2>1. n * (w - p - q) = n * w - n * p - n * q /\ n * w \in Int /\ n * p \in Int
    BY <1>1, <1>5, <1>6
  <2>. QED
    BY <1>2, <1>5, <1>6, <1>8, <2>1
<1>10. w - p - q = 0
  <2>. DEFINE d == w - p - q
  <2>1. d \in Int
    BY <1>1, <1>5, <1>6
  <2>2. n * d < n /\ n * d > -n
    BY <1>5, <1>6, <1>9
  <2>. HIDE DEF d
  <2>3. d < 1
    <3>1. SUFFICES ASSUME d >= 1 PROVE FALSE
      BY <2>1
    <3>2. n * d >= n
      BY <2>1, <3>1
    <3>. QED
      BY <2>2, <2>1, <3>2
  <2>4. d > -1
    <3>1. SUFFICES ASSUME d <= -1 PROVE FALSE
      BY <2>1
    <3>2. n * d <= n * (-1)
      BY <2>1, <3>1
    <3>. QED
      BY <2>2, <2>1, <3>2
  <2>5. d = 0
    BY <2>1, <2>3, <2>4
  <2>. QED
    BY <2>5 DEF d
<1>11. w = q + p
  BY <1>1, <1>5, <1>6, <1>10
<1>. QED
  BY <1>2, <1>3, <1>11, <1>1 DEF q, z, p, w

\* What settling an oasis gives, in one form.
Whole(o, at) == (at - o.lastDefenderRegenAt) \div Interval
AtMostTarget(d, w, t) == IF d + w <= Target[t] THEN d + w ELSE Target[t]
AtMostCap(f) == IF f <= FoodCap THEN f ELSE FoodCap

LEMMA SettlingIs ==
    ASSUME NEW o, Sound(o), NEW at \in Nat, o.lastRegenAt <= at
    PROVE  /\ Whole(o, at) \in Nat
           /\ settleOasis(o, at) =
                [defenders |-> [t \in Types |-> AtMostTarget(o.defenders[t], Whole(o, at), t)],
                 food |-> AtMostCap(o.food + FoodPerHour * (at - o.lastRegenAt)),
                 lastRegenAt |-> at,
                 lastDefenderRegenAt |-> o.lastDefenderRegenAt + Interval * Whole(o, at)]
<1>. DEFINE w == Whole(o, at)
            x == at - o.lastDefenderRegenAt
            d == settleOasisDefenders(o, at)
            grown == [t \in Types |-> AtMostTarget(o.defenders[t], w, t)]
<1>1. /\ o.lastRegenAt \in Nat /\ o.lastDefenderRegenAt \in Nat /\ o.food \in Nat
      /\ o.defenders \in Troops /\ o.food <= FoodCap
      /\ o.lastDefenderRegenAt <= o.lastRegenAt
      /\ \A t \in Types : o.defenders[t] \in Nat /\ o.defenders[t] <= Target[t]
                          /\ Target[t] \in Nat
  BY OasesAssumption DEF Sound, OasisType, Troops
<1>2. Interval \in Nat \ {0} /\ FoodCap \in Nat /\ FoodPerHour \in Nat
  BY OasesAssumption
<1>3. x \in Nat
  BY <1>1
<1>4. w = x \div Interval /\ w \in Nat /\ (x = 0 => w = 0)
  BY <1>2, <1>3, WholeIntervals DEF Whole
<1>5. settleOasisFood(o, at) = AtMostCap(o.food + FoodPerHour * (at - o.lastRegenAt))
  <2>1. FoodPerHour * (at - o.lastRegenAt) \in Nat
    BY <1>1, <1>2
  <2>2. Max({FoodCap, o.food}) = FoodCap
    BY <1>1, <1>2, MaxIs
  <2>3. o.food + FoodPerHour * (at - o.lastRegenAt) \in Nat
    BY <1>1, <2>1
  <2>4. CASE at <= o.lastRegenAt
    <3>1. at - o.lastRegenAt = 0
      BY <1>1, <2>4
    <3>2. FoodPerHour * (at - o.lastRegenAt) = 0
      BY <1>2, <3>1
    <3>. QED
      BY <1>1, <2>4, <3>2 DEF settleOasisFood, AtMostCap
  <2>5. CASE ~(at <= o.lastRegenAt)
    <3>. DEFINE grownFood == o.food + FoodPerHour * (at - o.lastRegenAt)
    <3>1. grownFood \in Int /\ FoodCap \in Int
      BY <1>2, <2>3
    <3>2. settleOasisFood(o, at) = Min({grownFood, FoodCap})
      BY <2>2, <2>5 DEF settleOasisFood
    <3>. HIDE DEF grownFood
    <3>3. settleOasisFood(o, at) = IF grownFood <= FoodCap THEN grownFood ELSE FoodCap
      BY <3>1, <3>2, MinIs
    <3>. QED
      BY <3>3 DEF AtMostCap, grownFood
  <2>. QED
    BY <2>4, <2>5
<1>6. grown = IF w <= 0 THEN o.defenders ELSE [t \in Types |-> Min({Target[t], o.defenders[t] + w})]
  <2>1. CASE w <= 0
    <3>1. w = 0
      BY <1>4, <2>1
    <3>2. \A t \in Types : AtMostTarget(o.defenders[t], w, t) = o.defenders[t]
      BY <1>1, <3>1 DEF AtMostTarget
    <3>3. o.defenders = [t \in Types |-> o.defenders[t]]
      BY <1>1 DEF Troops
    <3>. QED
      BY <2>1, <3>2, <3>3
  <2>2. CASE ~(w <= 0)
    <3>1. \A t \in Types : AtMostTarget(o.defenders[t], w, t) = Min({Target[t], o.defenders[t] + w})
      <4>1. ASSUME NEW t \in Types
            PROVE  AtMostTarget(o.defenders[t], w, t) = Min({Target[t], o.defenders[t] + w})
        <5>1. Target[t] \in Int /\ o.defenders[t] + w \in Int
          BY <1>1, <1>4
        <5>2. Min({Target[t], o.defenders[t] + w})
              = IF Target[t] <= o.defenders[t] + w THEN Target[t] ELSE o.defenders[t] + w
          BY <5>1, MinIs
        <5>. QED
          BY <5>1, <5>2 DEF AtMostTarget
      <4>. QED
        BY <4>1
    <3>. QED
      BY <2>2, <3>1
  <2>. QED
    BY <2>1, <2>2
<1>. HIDE DEF w, grown
<1>7. d.defenders = grown /\ d.stamp = o.lastDefenderRegenAt + Interval * w
  <2>1. CASE at <= o.lastDefenderRegenAt
    <3>1. at = o.lastDefenderRegenAt /\ w = 0
      BY <1>1, <1>4, <2>1
    <3>2. d = [defenders |-> o.defenders, stamp |-> at]
      BY <2>1 DEF settleOasisDefenders
    <3>. QED
      BY <1>1, <1>2, <1>6, <3>1, <3>2
  <2>2. CASE ~(at <= o.lastDefenderRegenAt)
    <3>1. d = [defenders |-> IF w <= 0 THEN o.defenders
                             ELSE [t \in Types |-> Min({Target[t], o.defenders[t] + w})],
               stamp |-> o.lastDefenderRegenAt + w * Interval]
      BY <2>2 DEF settleOasisDefenders, w, Whole
    <3>2. w * Interval = Interval * w
      BY <1>2, <1>4
    <3>. QED
      BY <1>6, <3>1, <3>2
  <2>. QED
    BY <2>1, <2>2
<1>8. o.lastRegenAt # Never
  BY <1>1 DEF Never
<1>9. settleOasis(o, at) = [defenders |-> d.defenders, food |-> settleOasisFood(o, at),
                            lastRegenAt |-> at, lastDefenderRegenAt |-> d.stamp]
  BY <1>8 DEF settleOasis
<1>. HIDE DEF d
<1>. QED
  BY <1>4, <1>5, <1>7, <1>9 DEF w, grown

\* Settling leaves an oasis within its bounds, credited up to that instant.
LEMMA SettleSound ==
    ASSUME NEW o, Sound(o), NEW at \in Nat, o.lastRegenAt <= at
    PROVE  Sound(settleOasis(o, at)) /\ settleOasis(o, at).lastRegenAt = at
<1>. DEFINE w == Whole(o, at)
            s == settleOasis(o, at)
            earned == FoodPerHour * (at - o.lastRegenAt)
<1>1. /\ o.lastRegenAt \in Nat /\ o.lastDefenderRegenAt \in Nat /\ o.food \in Nat
      /\ o.defenders \in Troops /\ o.food <= FoodCap
      /\ o.lastDefenderRegenAt <= o.lastRegenAt
      /\ \A t \in Types : o.defenders[t] \in Nat /\ o.defenders[t] <= Target[t]
                          /\ Target[t] \in Nat
  BY OasesAssumption DEF Sound, OasisType, Troops
<1>2. Interval \in Nat \ {0} /\ FoodCap \in Nat /\ FoodPerHour \in Nat
  BY OasesAssumption
<1>3. /\ w \in Nat
      /\ s.defenders = [t \in Types |-> AtMostTarget(o.defenders[t], w, t)]
      /\ s.food = AtMostCap(o.food + earned)
      /\ s.lastRegenAt = at
      /\ s.lastDefenderRegenAt = o.lastDefenderRegenAt + Interval * w
      /\ s = [defenders |-> s.defenders, food |-> s.food, lastRegenAt |-> s.lastRegenAt,
              lastDefenderRegenAt |-> s.lastDefenderRegenAt]
  BY SettlingIs
<1>4. /\ Interval * w <= at - o.lastDefenderRegenAt
      /\ at - o.lastDefenderRegenAt < Interval * w + Interval
      /\ Interval * w \in Nat
  <2>1. at - o.lastDefenderRegenAt \in Nat
    BY <1>1
  <2>2. /\ Interval * ((at - o.lastDefenderRegenAt) \div Interval) <= at - o.lastDefenderRegenAt
        /\ at - o.lastDefenderRegenAt
             < Interval * ((at - o.lastDefenderRegenAt) \div Interval) + Interval
    BY <1>2, <2>1, WholeIntervals, 0 \in Nat
  <2>3. w = (at - o.lastDefenderRegenAt) \div Interval
    BY DEF Whole
  <2>. QED
    BY <1>2, <1>3, <2>2, <2>3, Product
<1>5. earned \in Nat
  BY <1>1, <1>2
<1>. HIDE DEF w, s, earned
<1>6. \A t \in Types : s.defenders[t] \in Nat /\ s.defenders[t] <= Target[t]
  BY <1>1, <1>3 DEF AtMostTarget
<1>7. s.food \in Nat /\ s.food <= FoodCap
  BY <1>1, <1>2, <1>3, <1>5 DEF AtMostCap
<1>8. s.lastDefenderRegenAt \in Nat /\ s.lastDefenderRegenAt <= s.lastRegenAt
      /\ s.lastRegenAt < s.lastDefenderRegenAt + Interval
  BY <1>1, <1>2, <1>3, <1>4
<1>9. s.defenders \in Troops
  BY <1>3, <1>6 DEF Troops
<1>10. s \in OasisType
  BY <1>3, <1>7, <1>8, <1>9 DEF OasisType
<1>. QED
  BY <1>3, <1>6, <1>7, <1>8, <1>10 DEF Sound, s

\* Settling again at the same instant changes nothing.
LEMMA SettleNow ==
    ASSUME NEW o, Sound(o)
    PROVE  settleOasis(o, o.lastRegenAt) = o
<1>. DEFINE w == Whole(o, o.lastRegenAt)
            s == settleOasis(o, o.lastRegenAt)
            x == o.lastRegenAt - o.lastDefenderRegenAt
<1>1. /\ o.lastRegenAt \in Nat /\ o.lastDefenderRegenAt \in Nat /\ o.food \in Nat
      /\ o.defenders \in Troops /\ o.food <= FoodCap
      /\ o.lastDefenderRegenAt <= o.lastRegenAt
      /\ o.lastRegenAt < o.lastDefenderRegenAt + Interval
      /\ \A t \in Types : o.defenders[t] \in Nat /\ o.defenders[t] <= Target[t]
                          /\ Target[t] \in Nat
      /\ o = [defenders |-> o.defenders, food |-> o.food, lastRegenAt |-> o.lastRegenAt,
              lastDefenderRegenAt |-> o.lastDefenderRegenAt]
  BY OasesAssumption DEF Sound, OasisType, Troops
<1>2. Interval \in Nat \ {0} /\ FoodCap \in Nat /\ FoodPerHour \in Nat
  BY OasesAssumption
<1>3. /\ w \in Nat
      /\ s = [defenders |-> [t \in Types |-> AtMostTarget(o.defenders[t], w, t)],
              food |-> AtMostCap(o.food + FoodPerHour * (o.lastRegenAt - o.lastRegenAt)),
              lastRegenAt |-> o.lastRegenAt,
              lastDefenderRegenAt |-> o.lastDefenderRegenAt + Interval * w]
  BY <1>1, SettlingIs
<1>4. w = 0
  <2>1. x \in Nat /\ x < Interval
    BY <1>1, <1>2
  <2>2. w = x \div Interval
    BY DEF Whole
  <2>3. Interval * (x \div Interval) <= x
    BY <1>2, <2>1, WholeIntervals, 0 \in Nat
  <2>. HIDE DEF w, x
  <2>4. SUFFICES ASSUME w >= 1 PROVE FALSE
    BY <1>3
  <2>5. Interval * w >= Interval
    BY <1>2, <1>3, <2>4
  <2>. QED
    BY <1>2, <1>3, <2>1, <2>2, <2>3, <2>5
<1>5. FoodPerHour * (o.lastRegenAt - o.lastRegenAt) = 0 /\ Interval * w = 0
  <2>1. o.lastRegenAt - o.lastRegenAt = 0
    BY <1>1
  <2>. QED
    BY <1>2, <1>4, <2>1
<1>6. [t \in Types |-> AtMostTarget(o.defenders[t], w, t)] = o.defenders
  <2>1. \A t \in Types : AtMostTarget(o.defenders[t], w, t) = o.defenders[t]
    BY <1>1, <1>4 DEF AtMostTarget
  <2>2. o.defenders = [t \in Types |-> o.defenders[t]]
    BY <1>1 DEF Troops
  <2>. QED
    BY <2>1, <2>2
<1>7. AtMostCap(o.food + FoodPerHour * (o.lastRegenAt - o.lastRegenAt)) = o.food
  BY <1>1, <1>2, <1>5 DEF AtMostCap
<1>8. o.lastDefenderRegenAt + Interval * w = o.lastDefenderRegenAt
  BY <1>1, <1>5
<1>. HIDE DEF w
<1>. QED
  BY <1>1, <1>3, <1>6, <1>7, <1>8 DEF s

\* Settling on the way and settling once come to the same.
LEMMA SettleTwice ==
    ASSUME NEW o, Sound(o), NEW s \in Nat, NEW u \in Nat, o.lastRegenAt <= s, s <= u
    PROVE  settleOasis(settleOasis(o, s), u) = settleOasis(o, u)
<1>. DEFINE p == settleOasis(o, s)
            v == Whole(o, s)
            w == Whole(p, u)
            z == Whole(o, u)
            f == FoodPerHour * (s - o.lastRegenAt)
            g == FoodPerHour * (u - s)
            h == FoodPerHour * (u - o.lastRegenAt)
<1>1. /\ o.lastRegenAt \in Nat /\ o.lastDefenderRegenAt \in Nat /\ o.food \in Nat
      /\ o.lastDefenderRegenAt <= o.lastRegenAt /\ o.food <= FoodCap
      /\ \A t \in Types : o.defenders[t] \in Nat /\ o.defenders[t] <= Target[t]
                          /\ Target[t] \in Nat
  BY OasesAssumption DEF Sound, OasisType, Troops
<1>2. Interval \in Nat \ {0} /\ FoodCap \in Nat /\ FoodPerHour \in Nat
  BY OasesAssumption
<1>3. /\ v \in Nat
      /\ p = [defenders |-> [t \in Types |-> AtMostTarget(o.defenders[t], v, t)],
              food |-> AtMostCap(o.food + f), lastRegenAt |-> s,
              lastDefenderRegenAt |-> o.lastDefenderRegenAt + Interval * v]
  BY SettlingIs
<1>4. Sound(p) /\ p.lastRegenAt = s
  BY SettleSound
<1>5. o.lastRegenAt <= u
  BY <1>1
<1>6. /\ z \in Nat
      /\ settleOasis(o, u) = [defenders |-> [t \in Types |-> AtMostTarget(o.defenders[t], z, t)],
              food |-> AtMostCap(o.food + h), lastRegenAt |-> u,
              lastDefenderRegenAt |-> o.lastDefenderRegenAt + Interval * z]
  BY <1>5, SettlingIs
<1>7. /\ w \in Nat
      /\ settleOasis(p, u) = [defenders |-> [t \in Types |-> AtMostTarget(p.defenders[t], w, t)],
              food |-> AtMostCap(p.food + FoodPerHour * (u - p.lastRegenAt)), lastRegenAt |-> u,
              lastDefenderRegenAt |-> p.lastDefenderRegenAt + Interval * w]
  <2>. HIDE DEF p
  <2>. QED
    BY <1>4, SettlingIs
<1>8. /\ p.defenders = [t \in Types |-> AtMostTarget(o.defenders[t], v, t)]
      /\ p.food = AtMostCap(o.food + f)
      /\ p.lastDefenderRegenAt = o.lastDefenderRegenAt + Interval * v
  <2>. HIDE DEF p, f, v
  <2>. QED
    BY <1>3
<1>9. f \in Nat /\ g \in Nat /\ h = f + g
  BY <1>1, <1>2
<1>10. z = v + w
  <2>. DEFINE x == s - o.lastDefenderRegenAt
              y == u - s
  <2>1. x \in Nat /\ y \in Nat /\ x + y = u - o.lastDefenderRegenAt
    BY <1>1
  <2>2. (x + y) \div Interval
          = x \div Interval + (x + y - Interval * (x \div Interval)) \div Interval
    BY <1>2, <2>1, WholeIntervals
  <2>3. v = x \div Interval
    BY DEF Whole
  <2>4. z = (x + y) \div Interval
    BY <2>1 DEF Whole
  <2>5. w = (x + y - Interval * v) \div Interval
    <3>1. u - p.lastDefenderRegenAt = x + y - Interval * v
      <4>1. Interval * v \in Nat
        BY <1>2, <1>3
      <4>. HIDE DEF p, v, x, y
      <4>. QED
        BY <1>1, <1>8, <2>1, <4>1
    <3>2. w = (u - p.lastDefenderRegenAt) \div Interval
      BY DEF Whole
    <3>. HIDE DEF p, v, x, y, w
    <3>. QED
      BY <3>1, <3>2
  <2>. HIDE DEF x, y, v, w, z
  <2>. QED
    BY <2>2, <2>3, <2>4, <2>5
<1>11. Interval * v + Interval * w = Interval * z
       /\ Interval * v \in Nat /\ Interval * w \in Nat
  <2>. HIDE DEF v, w, z
  <2>. QED
    BY <1>2, <1>3, <1>7, <1>10
<1>. HIDE DEF p, v, w, z, f, g
<1>12. [t \in Types |-> AtMostTarget(p.defenders[t], w, t)]
         = [t \in Types |-> AtMostTarget(o.defenders[t], z, t)]
  <2>1. ASSUME NEW t \in Types
        PROVE  AtMostTarget(p.defenders[t], w, t) = AtMostTarget(o.defenders[t], z, t)
    <3>1. p.defenders[t] = AtMostTarget(o.defenders[t], v, t)
      BY <1>8
    <3>2. o.defenders[t] \in Nat /\ Target[t] \in Nat
      BY <1>1
    <3>. QED
      BY <3>1, <3>2, <1>3, <1>7, <1>10 DEF AtMostTarget
  <2>. QED
    BY <2>1
<1>13. AtMostCap(p.food + FoodPerHour * (u - p.lastRegenAt)) = AtMostCap(o.food + h)
  <2>1. p.food + FoodPerHour * (u - p.lastRegenAt) = p.food + g
    BY <1>4 DEF g
  <2>. HIDE DEF h
  <2>. QED
    BY <1>1, <1>2, <1>8, <1>9, <2>1 DEF AtMostCap
<1>14. p.lastDefenderRegenAt + Interval * w = o.lastDefenderRegenAt + Interval * z
  BY <1>1, <1>8, <1>11
<1>. HIDE DEF h
<1>. QED
  BY <1>6, <1>7, <1>12, <1>13, <1>14 DEF p

\* The first to arrive finds the garrison complete and no Food.
LEMMA FirstContact ==
    ASSUME NEW o, o.lastRegenAt = Never, NEW at \in Nat
    PROVE  Sound(settleOasis(o, at)) /\ settleOasis(o, at).lastRegenAt = at
<1>1. settleOasis(o, at) = [defenders |-> Target, food |-> 0, lastRegenAt |-> at,
                            lastDefenderRegenAt |-> at]
  BY DEF settleOasis
<1>2. Target \in Troops /\ FoodCap \in Nat /\ Interval \in Nat \ {0}
  BY OasesAssumption
<1>3. \A t \in Types : Target[t] \in Nat
  BY <1>2 DEF Troops
<1>4. at < at + Interval
  BY <1>2
<1>. QED
  BY <1>1, <1>2, <1>3, <1>4 DEF Sound, OasisType

\* Whoever arrives finds what the last battle's oasis settles to.
LEMMA SettledIs ==
    ASSUME TownTypes, AsLastLeft
    PROVE  /\ Sound(Settled) /\ Settled.lastRegenAt = now
           /\ oasis.lastRegenAt # Never => Settled = settleOasis(lastBattle, now)
<1>1. now \in Nat
  BY DEF TownTypes
<1>2. CASE oasis.lastRegenAt = Never
  <2>1. Settled = settleOasis(oasis, now)
    BY <1>2 DEF Settled
  <2>. QED
    BY <1>1, <1>2, <2>1, FirstContact
<1>3. CASE oasis.lastRegenAt # Never
  <2>1. /\ Sound(lastBattle) /\ Sound(oasis)
        /\ lastBattle.lastRegenAt <= oasis.lastRegenAt /\ oasis.lastRegenAt <= now
        /\ oasis = settleOasis(lastBattle, oasis.lastRegenAt)
    BY <1>3 DEF AsLastLeft
  <2>2. oasis.lastRegenAt \in Nat /\ lastBattle.lastRegenAt \in Nat
    BY <2>1 DEF Sound, OasisType
  <2>3. CASE now <= oasis.lastRegenAt
    <3>1. Settled = oasis /\ oasis.lastRegenAt = now
      BY <1>1, <1>3, <2>1, <2>2, <2>3 DEF Settled
    <3>. QED
      BY <2>1, <3>1
  <2>4. CASE ~(now <= oasis.lastRegenAt)
    <3>1. Settled = settleOasis(oasis, now)
      BY <2>4 DEF Settled
    <3>2. Sound(settleOasis(oasis, now)) /\ settleOasis(oasis, now).lastRegenAt = now
      BY <1>1, <2>1, SettleSound
    <3>3. settleOasis(settleOasis(lastBattle, oasis.lastRegenAt), now)
          = settleOasis(lastBattle, now)
      BY <1>1, <2>1, <2>2, SettleTwice
    <3>. QED
      BY <2>1, <3>1, <3>2, <3>3
  <2>. QED
    BY <2>3, <2>4
<1>. QED
  BY <1>2, <1>3

\* The raid on the oasis, with its parts named.
Wildlife == [k \in {HOME_CONTINGENT_KEY} |-> Settled.defenders]
OasisStore == [Nothing EXCEPT !["food"] = Settled.food]
OasisBattle(m) == resolveBattle(movement[m].units, Wildlife, 0, movement[m].type, Roll[m])
OasisLoot(m) == resolveLoot(OasisBattle(m), OasisStore, 0)
OasisAfter(m) ==
    [Settled EXCEPT !.defenders = Minus(@, OasisBattle(m).defenders[HOME_CONTINGENT_KEY]),
                    !.food = @ - OasisLoot(m)["food"]]

LEMMA RaidIs ==
    ASSUME NEW m \in Movement, OasisBattleArrives(m)
    PROVE  /\ movement[m].status = "outbound" /\ movement[m].to = "oasis"
           /\ oasis' = OasisAfter(m) /\ lastBattle' = oasis'
           /\ AfterBattle(m, OasisBattle(m).survivors, OasisLoot(m))
           /\ home' = [home EXCEPT !.awayTroops = Minus(@, OasisBattle(m).losses)]
           /\ spoils' = [spoils EXCEPT ![m].taken = OasisLoot(m)]
           /\ plundered' = [plundered EXCEPT !["food"] = @ + Settled.food - OasisAfter(m).food]
           /\ reports' = reports \cup {<< Attacker, "oasisRaid", m >>}
           /\ UNCHANGED << now, town >>
<1>1. /\ movement[m].status = "outbound" /\ movement[m].to = "oasis"
      /\ oasis' = OasisAfter(m) /\ lastBattle' = oasis'
      /\ AfterBattle(m, OasisBattle(m).survivors, OasisLoot(m))
      /\ home' = [home EXCEPT !.awayTroops = Minus(@, OasisBattle(m).losses)]
      /\ spoils' = [spoils EXCEPT ![m].taken = OasisLoot(m)]
      /\ plundered' = [plundered EXCEPT !["food"] = @ + Settled.food - oasis'.food]
      /\ reports' = reports \cup {<< Attacker, "oasisRaid", m >>}
      /\ UNCHANGED << now, town >>
  BY DEF OasisBattleArrives, OasisAfter, OasisBattle, OasisLoot, OasisStore, Wildlife
<1>. QED
  BY <1>1

LEMMA RaidTakes ==
    ASSUME TownTypes, AsLastLeft, NEW m \in Movement, movement[m] \in MovementType
    PROVE  /\ OasisBattle(m).survivors \in Troops /\ OasisBattle(m).losses \in Troops
           /\ OasisBattle(m).defenders[HOME_CONTINGENT_KEY] \in Troops
           /\ OasisLoot(m) \in Goods /\ OasisLoot(m)["food"] <= Settled.food
           /\ \A r \in RESOURCE_KINDS \ {"food"} : OasisLoot(m)[r] = 0
           /\ OasisBattle(m).survivors = Nobody => OasisLoot(m) = Nothing
<1>. DEFINE odds == BattleOdds(movement[m].units, unionTroops(Wildlife), 0, Roll[m])
<1>1. Settled.defenders \in Troops /\ Settled.food \in Nat
  BY SettledIs DEF Sound, OasisType
<1>2. Contingents(Wildlife, {HOME_CONTINGENT_KEY})
  BY <1>1, FS_Singleton DEF Contingents, Wildlife
<1>3. Fought(OasisBattle(m), movement[m].units, Wildlife, {HOME_CONTINGENT_KEY}, odds)
  <2>1. movement[m].units \in Troops
    BY DEF MovementType
  <2>. QED
    BY <1>2, <2>1, Battles DEF OasisBattle, resolveBattle
<1>4. OasisStore \in Goods /\ OasisStore["food"] = Settled.food
      /\ \A r \in RESOURCE_KINDS \ {"food"} : OasisStore[r] = 0
  BY <1>1, WarfareAssumption DEF OasisStore, Nothing, Goods
<1>5. hiddenCacheProtection(0) \in Nat
  BY DEF hiddenCacheProtection
<1>6. /\ OasisBattle(m).lootCapacity \in Nat /\ OasisBattle(m).attackerPrevailed \in BOOLEAN
      /\ OasisBattle(m).survivors \in Troops /\ OasisBattle(m).losses \in Troops
      /\ OasisBattle(m).defenders[HOME_CONTINGENT_KEY] \in Troops
      /\ OasisBattle(m).attackerPrevailed => OasisBattle(m).survivors # Nobody
  BY <1>3 DEF Fought
<1>7. /\ OasisLoot(m) \in Goods
      /\ \A r \in RESOURCE_KINDS : OasisLoot(m)[r] <= OasisStore[r]
      /\ ~OasisBattle(m).attackerPrevailed => OasisLoot(m) = Nothing
  BY <1>4, <1>5, <1>6, LootIsStored DEF OasisLoot
<1>8. \A r \in RESOURCE_KINDS \ {"food"} : OasisLoot(m)[r] = 0
  BY <1>4, <1>7 DEF Goods
<1>9. "food" \in RESOURCE_KINDS
  BY WarfareAssumption
<1>. QED
  BY <1>4, <1>6, <1>7, <1>8, <1>9

LEMMA RaidLeaves ==
    ASSUME TownTypes, AsLastLeft, NEW m \in Movement, movement[m] \in MovementType
    PROVE  /\ Sound(OasisAfter(m)) /\ OasisAfter(m).lastRegenAt = now
           /\ OasisAfter(m).food = Settled.food - OasisLoot(m)["food"]
<1>. DEFINE s == Settled
            fallen == OasisBattle(m).defenders[HOME_CONTINGENT_KEY]
            a == OasisAfter(m)
<1>1. Sound(s) /\ s.lastRegenAt = now
  BY SettledIs
<1>2. /\ fallen \in Troops /\ OasisLoot(m)["food"] \in Nat /\ OasisLoot(m)["food"] <= s.food
  BY RaidTakes, WarfareAssumption DEF Goods
<1>3. a = [s EXCEPT !.defenders = Minus(@, fallen), !.food = @ - OasisLoot(m)["food"]]
  BY DEF OasisAfter
<1>. HIDE DEF s, fallen, a
<1>4. s \in OasisType /\ s.defenders \in Troops /\ s.food \in Nat /\ s.food <= FoodCap
      /\ FoodCap \in Nat /\ \A t \in Types : s.defenders[t] \in Nat /\ s.defenders[t] <= Target[t]
                                            /\ Target[t] \in Nat
  BY <1>1, OasesAssumption DEF Sound, OasisType, Troops
<1>5. /\ Minus(s.defenders, fallen) \in Troops
      /\ \A t \in Types : /\ Minus(s.defenders, fallen)[t] \in Nat
                          /\ Minus(s.defenders, fallen)[t] <= s.defenders[t]
  <2>1. Minus(s.defenders, fallen) \in Troops
        /\ \A t \in Types : Minus(s.defenders, fallen)[t]
               = IF s.defenders[t] >= fallen[t] THEN s.defenders[t] - fallen[t] ELSE 0
    BY <1>2, <1>4, MinusIsTroops
  <2>2. \A t \in Types : fallen[t] \in Nat
    BY <1>2 DEF Troops
  <2>. QED
    BY <1>4, <2>1, <2>2
<1>6. /\ a.defenders = Minus(s.defenders, fallen) /\ a.food = s.food - OasisLoot(m)["food"]
      /\ a.lastRegenAt = s.lastRegenAt /\ a.lastDefenderRegenAt = s.lastDefenderRegenAt
      /\ a.food \in Nat /\ a.food <= FoodCap
      /\ a \in OasisType
  <2>. DEFINE d == Minus(s.defenders, fallen)
              f == s.food - OasisLoot(m)["food"]
  <2>1. d \in Troops /\ f \in Nat /\ f <= FoodCap
    BY <1>2, <1>4, <1>5
  <2>2. a = [s EXCEPT !.defenders = d, !.food = f]
    BY <1>3, <1>4 DEF OasisType
  <2>. HIDE DEF d, f
  <2>3. /\ a.defenders = d /\ a.food = f /\ a.lastRegenAt = s.lastRegenAt
        /\ a.lastDefenderRegenAt = s.lastDefenderRegenAt /\ a \in OasisType
    BY <1>4, <2>1, <2>2 DEF OasisType
  <2>. QED
    BY <2>1, <2>3 DEF d, f
<1>7. \A t \in Types : a.defenders[t] <= Target[t]
  BY <1>4, <1>5, <1>6
<1>. QED
  BY <1>1, <1>6, <1>7 DEF Sound, s, a

LEMMA RaidComesBack ==
    ASSUME WarTypes, AsLastLeft, NEW m \in Movement, OasisBattleArrives(m)
    PROVE  ComesBack(m, OasisBattle(m).survivors, OasisBattle(m).losses, OasisLoot(m))
<1>. DEFINE loot == OasisLoot(m)
<1>1. movement[m] \in MovementType /\ plundered \in [RESOURCE_KINDS -> Int] /\ TownTypes
      /\ "food" \in RESOURCE_KINDS
  BY WarfareAssumption DEF WarTypes, ArmyTypes, Deltas
<1>2. /\ loot \in Goods /\ \A r \in RESOURCE_KINDS \ {"food"} : loot[r] = 0
      /\ OasisBattle(m).survivors \in Troops /\ OasisBattle(m).losses \in Troops
      /\ OasisBattle(m).survivors = Nobody => loot = Nothing
  BY <1>1, RaidTakes
<1>3. Settled.food \in Nat /\ OasisAfter(m).food = Settled.food - loot["food"]
  BY <1>1, SettledIs, RaidLeaves DEF Sound, OasisType
<1>4. plundered' = [plundered EXCEPT !["food"] = @ + Settled.food - OasisAfter(m).food]
  BY RaidIs
<1>5. loot["food"] \in Nat
  BY <1>1, <1>2 DEF Goods
<1>. HIDE DEF loot
<1>6. \A r \in RESOURCE_KINDS : plundered'[r] = plundered[r] + loot[r]
  <2>1. ASSUME NEW r \in RESOURCE_KINDS
        PROVE  plundered'[r] = plundered[r] + loot[r]
    <3>1. CASE r = "food"
      <4>1. plundered'[r] = plundered["food"] + Settled.food - OasisAfter(m).food
        BY <1>1, <1>4, <3>1
      <4>2. plundered["food"] \in Int
        BY <1>1
      <4>. QED
        BY <1>3, <1>5, <3>1, <4>1, <4>2
    <3>2. CASE r # "food"
      <4>1. plundered'[r] = plundered[r] /\ loot[r] = 0 /\ plundered[r] \in Int
        BY <1>1, <1>2, <1>4, <3>2
      <4>. QED
        BY <4>1
    <3>. QED
      BY <3>1, <3>2
  <2>. QED
    BY <2>1
<1>7. plundered' = [r \in RESOURCE_KINDS |-> plundered[r] + loot[r]]
  <2>1. plundered' = [r \in RESOURCE_KINDS |-> plundered'[r]]
    BY <1>1, <1>4
  <2>. QED
    BY <1>6, <2>1
<1>. QED
  BY <1>2, <1>7, RaidIs DEF ComesBack, loot

LEMMA RaidKeeps ==
    ASSUME OasisIInv, NEW m \in Movement, OasisBattleArrives(m)
    PROVE  OasisIInv'
<1>1. WarTypes /\ TownTypes /\ ArmyTypes /\ AsLastLeft /\ movement[m] \in MovementType
      /\ SpoilsOnTheWay /\ SpoilsConserved /\ NoReportAhead
  BY DEF OasisIInv, IInv, WarTypes, ArmyTypes
<1>2. ComesBack(m, OasisBattle(m).survivors, OasisBattle(m).losses, OasisLoot(m))
  BY <1>1, RaidComesBack
<1>3. ArmyTypes' /\ SpoilsOnTheWay' /\ SpoilsConserved'
  BY <1>1, <1>2, ComesBackTypes, ComesBackOnTheWay, ComesBackConserves
<1>4. /\ oasis' = OasisAfter(m) /\ lastBattle' = oasis' /\ UNCHANGED << now, town >>
      /\ reports' = reports \cup {<< Attacker, "oasisRaid", m >>}
      /\ AfterBattle(m, OasisBattle(m).survivors, OasisLoot(m))
  BY RaidIs
<1>5. NoReportAhead'
  <2>1. ToldOf(m, {<< Attacker, "oasisRaid", m >>})
    BY <1>4 DEF ToldOf
  <2>. QED
    BY <1>1, <1>4, <2>1, ReportsStayBehind
<1>6. TownTypes' /\ Standing(town.buildings)'
  BY <1>1, <1>4 DEF OasisIInv, IInv, TownTypes, Standing
<1>7. AsLastLeft'
  <2>1. Sound(OasisAfter(m)) /\ OasisAfter(m).lastRegenAt = now
    BY <1>1, RaidLeaves
  <2>2. OasisAfter(m) = settleOasis(OasisAfter(m), now)
    BY <2>1, SettleNow
  <2>3. now \in Int
    BY <1>1 DEF TownTypes
  <2>. QED
    BY <1>4, <2>1, <2>2, <2>3 DEF AsLastLeft
<1>. QED
  BY <1>3, <1>5, <1>6, <1>7 DEF OasisIInv, IInv, WarTypes

LEMMA ExploringKeeps ==
    ASSUME OasisIInv, NEW m \in Movement, OasisScoutArrives(m)
    PROVE  OasisIInv'
<1>1. WarTypes /\ TownTypes /\ ArmyTypes /\ AsLastLeft /\ movement[m].units \in Troops
      /\ SpoilsOnTheWay /\ SpoilsConserved /\ NoReportAhead
  BY DEF OasisIInv, IInv, WarTypes, ArmyTypes, MovementType
<1>2. /\ movement[m].status = "outbound" /\ oasis' = Settled /\ lastBattle' = Contact(Settled)
      /\ AfterBattle(m, movement[m].units, Nothing)
      /\ reports' = reports \cup {<< Attacker, "scout", m >>}
      /\ UNCHANGED << now, town, home, spoils, plundered >>
  BY DEF OasisScoutArrives
<1>3. home' = [home EXCEPT !.awayTroops = Minus(@, Nobody)]
  <2>1. home \in HomeType /\ home.awayTroops \in Troops
    BY <1>1 DEF ArmyTypes, HomeType
  <2>2. Minus(home.awayTroops, Nobody) = home.awayTroops
    BY <2>1 DEF Minus, Nobody, Troops
  <2>. QED
    BY <1>2, <2>1, <2>2 DEF HomeType
<1>4. ComesBack(m, movement[m].units, Nobody, Nothing)
  BY <1>1, <1>2, <1>3, NobodyIsTroops, ComesBackEmpty
<1>5. ArmyTypes' /\ SpoilsOnTheWay' /\ SpoilsConserved'
  BY <1>1, <1>4, ComesBackTypes, ComesBackOnTheWay, ComesBackConserves
<1>6. NoReportAhead'
  <2>1. ToldOf(m, {<< Attacker, "scout", m >>})
    BY <1>2 DEF ToldOf
  <2>. QED
    BY <1>1, <1>2, <2>1, ReportsStayBehind
<1>7. TownTypes' /\ Standing(town.buildings)'
  BY <1>1, <1>2 DEF OasisIInv, IInv, TownTypes, Standing
<1>8. AsLastLeft'
  <2>1. /\ Sound(Settled) /\ Settled.lastRegenAt = now
        /\ oasis.lastRegenAt # Never => Settled = settleOasis(lastBattle, now)
    BY <1>1, SettledIs
  <2>2. now \in Nat
    BY <1>1 DEF TownTypes
  <2>3. CASE oasis.lastRegenAt = Never
    <3>1. oasis' = Settled /\ lastBattle' = Settled /\ now' = now
      BY <1>2, <2>3 DEF Contact
    <3>2. Settled = settleOasis(Settled, now)
      BY <2>1, SettleNow
    <3>. QED
      BY <2>1, <2>2, <3>1, <3>2 DEF AsLastLeft
  <2>4. CASE oasis.lastRegenAt # Never
    <3>1. oasis' = Settled /\ lastBattle' = lastBattle /\ now' = now
      BY <1>2, <2>4 DEF Contact
    <3>2. /\ Sound(lastBattle) /\ lastBattle.lastRegenAt <= oasis.lastRegenAt
          /\ Sound(oasis) /\ oasis.lastRegenAt <= now
      BY <1>1, <2>4 DEF AsLastLeft
    <3>3. lastBattle.lastRegenAt <= now
      BY <2>2, <3>2 DEF Sound, OasisType
    <3>. QED
      BY <2>1, <2>2, <2>4, <3>1, <3>2, <3>3 DEF AsLastLeft
  <2>. QED
    BY <2>3, <2>4
<1>. QED
  BY <1>5, <1>6, <1>7, <1>8 DEF OasisIInv, IInv, WarTypes

\* Nobody's coming to the oasis leaves it as it is, whatever the hour.
LEMMA LeftAlone ==
    ASSUME TownTypes, AsLastLeft, UNCHANGED oasisVars, now' \in {now, now + 1}
    PROVE  AsLastLeft'
<1>1. now \in Nat /\ (now' = now \/ now' = now + 1) /\ oasis' = oasis /\ lastBattle' = lastBattle
  BY DEF TownTypes, oasisVars
<1>2. CASE oasis.lastRegenAt = Never
  BY <1>1, <1>2 DEF AsLastLeft
<1>3. CASE oasis.lastRegenAt # Never
  <2>1. Sound(oasis) /\ oasis.lastRegenAt <= now /\ oasis.lastRegenAt \in Nat
    BY <1>3 DEF AsLastLeft, Sound, OasisType
  <2>2. oasis.lastRegenAt <= now'
    BY <1>1, <2>1
  <2>. QED
    BY <1>1, <1>3, <2>2 DEF AsLastLeft
<1>. QED
  BY <1>2, <1>3

------------------------------------------------------------------------------
\* The invariant.

LEMMA WarStarts == OasisInit => OasisIInv
<1>. SUFFICES ASSUME OasisInit PROVE OasisIInv
  OBVIOUS
<1>. USE DEF OasisInit, Init
<1>1. Nothing \in Goods /\ Nobody \in Troops
  BY NothingIsGoods, NobodyIsTroops
<1>2. TownTypes /\ town.buildings = Levels /\ town.lastTick = 0
  <2>1. PICK units \in Outing :
          town = [values |-> Stock, buildings |-> Levels, troops |-> Garrison,
                  awayTroops |-> units, stationed |-> Guests, lastTick |-> 0]
    OBVIOUS
  <2>2. units \in Troops
    BY WarfareAssumption
  <2>. QED
    BY <2>1, <2>2, WarfareAssumption DEF TownTypes, TownType, Goods
<1>3. ArmyTypes
  <2>1. home \in HomeType
    BY <1>1, WarfareAssumption DEF HomeType, Goods
  <2>2. Absent \in MovementType
    BY <1>1 DEF Absent, MovementType
  <2>3. Nothing \in Deltas
    BY DEF Nothing, Deltas
  <2>. QED
    BY <1>1, <2>1, <2>2, <2>3 DEF ArmyTypes, SpoilsType
<1>4. Standing(town.buildings)
  <2>1. \A b \in Building : Levels[b] \in Nat
    BY WarfareAssumption
  <2>2. CommandCenterFloor \in Int /\ CommandCenterFloor <= Levels["commandCenter"]
    BY WarfareAssumption
  <2>. QED
    BY <1>2, <2>1, <2>2, WarfareAssumption DEF Standing
<1>5. NoReportAhead
  BY <1>2 DEF NoReportAhead
<1>6. SpoilsOnTheWay
  BY DEF SpoilsOnTheWay, Absent
<1>7. SpoilsConserved
  <2>1. \A m \in Movement : Underway(m) = Nothing /\ spoils[m].lost = Nothing
    BY DEF Underway, Absent
  <2>2. ASSUME NEW r \in RESOURCE_KINDS
        PROVE  plundered[r] = SumFunction(Cargo(r)) + home.values[r] - HomeStock[r]
    <3>1. Cargo(r) = [m \in Movement |-> 0]
      BY <2>1 DEF Cargo, Nothing
    <3>2. SumFunction(Cargo(r)) = 0
      BY <3>1, TotalZero, WarfareAssumption
    <3>3. HomeStock[r] \in Nat
      BY WarfareAssumption
    <3>4. plundered[r] = 0 /\ home.values[r] = HomeStock[r]
      BY DEF Nothing
    <3>. QED
      BY <3>2, <3>3, <3>4
  <2>3. ReportsAddUp
    BY DEF ReportsAddUp, Absent
  <2>. QED
    BY <2>2, <2>3, ConservedIs DEF StoresBalance
<1>8. AsLastLeft
  BY DEF AsLastLeft
<1>. QED
  BY <1>2, <1>3, <1>4, <1>5, <1>6, <1>7, <1>8 DEF OasisIInv, IInv, WarTypes

LEMMA WarStays == OasisIInv /\ UNCHANGED allVars => OasisIInv'
<1>. SUFFICES ASSUME OasisIInv, UNCHANGED allVars PROVE OasisIInv'
  OBVIOUS
<1>1. UNCHANGED << now, town, home, movement, reports, spoils, plundered, oasis, lastBattle >>
  BY DEF allVars, vars, oasisVars
<1>2. ArmyTypes' /\ SpoilsOnTheWay' /\ SpoilsConserved'
  BY <1>1, ElsewhereKeeps DEF OasisIInv, IInv, WarTypes
<1>3. TownTypes' /\ Standing(town.buildings)' /\ NoReportAhead' /\ AsLastLeft'
  BY <1>1 DEF OasisIInv, IInv, WarTypes, TownTypes, Standing, NoReportAhead, AsLastLeft
<1>. QED
  BY <1>2, <1>3 DEF OasisIInv, IInv, WarTypes

\* What a step can be.
WarStep ==
    \/ Elapse
    \/ \E m \in Movement, to \in {"town", "oasis"}, type \in {"scout", "raid", "assault"},
          units \in Troops, target \in Building \cup {"none"} :
          SendMovement(m, to, type, units, target)
    \/ \E m \in Movement : BattleArrives(m)
    \/ \E m \in Movement : ScoutArrives(m)
    \/ \E m \in Movement : MovementReturn(m)
    \/ TownReturn
    \/ StarvationTick

LEMMA StepsAre ==
    OasisNext => \/ WarStep /\ UNCHANGED oasisVars
                 \/ \E m \in Movement : OasisBattleArrives(m)
                 \/ \E m \in Movement : OasisScoutArrives(m)
<1>. SUFFICES ASSUME OasisNext
              PROVE  \/ WarStep /\ UNCHANGED oasisVars
                     \/ \E m \in Movement : OasisBattleArrives(m)
                     \/ \E m \in Movement : OasisScoutArrives(m)
  OBVIOUS
<1>1. Formation \subseteq Troops /\ Excursion \subseteq Troops
  BY WarfareAssumption, OasesAssumption
<1>2. CASE Next /\ UNCHANGED oasisVars
  BY <1>1, <1>2 DEF Next, WarStep
<1>3. CASE \E m \in Movement, type \in {"scout", "raid", "assault"}, units \in Excursion :
             SendMovement(m, "oasis", type, units, "none") /\ UNCHANGED oasisVars
  BY <1>1, <1>3 DEF WarStep
<1>4. CASE \E m \in Movement : OasisBattleArrives(m) \/ OasisScoutArrives(m)
  BY <1>4
<1>. QED
  BY <1>2, <1>3, <1>4 DEF OasisNext

LEMMA HoursPass ==
    ASSUME WarStep
    PROVE  now' \in {now, now + 1}
BY DEF WarStep, Elapse, SendMovement, BattleArrives, ScoutArrives, MovementReturn,
       TownReturn, StarvationTick

LEMMA WarGoesOn == OasisIInv /\ OasisNext => OasisIInv'
<1>. SUFFICES ASSUME OasisIInv, OasisNext PROVE OasisIInv'
  OBVIOUS
<1>1. CASE WarStep /\ UNCHANGED oasisVars
  <2>1. IInv
    BY DEF OasisIInv
  <2>2. IInv'
    <3>1. CASE Elapse
      BY <2>1, <3>1, ElapseKeeps
    <3>2. ASSUME NEW m \in Movement, NEW to \in {"town", "oasis"},
                 NEW type \in {"scout", "raid", "assault"}, NEW units \in Troops,
                 NEW target \in Building \cup {"none"}, SendMovement(m, to, type, units, target)
          PROVE  IInv'
      BY <2>1, <3>2, SendingKeeps
    <3>3. ASSUME NEW m \in Movement, BattleArrives(m) PROVE IInv'
      BY <2>1, <3>3, BattleKeeps
    <3>4. ASSUME NEW m \in Movement, ScoutArrives(m) PROVE IInv'
      BY <2>1, <3>4, ScoutKeeps
    <3>5. ASSUME NEW m \in Movement, MovementReturn(m) PROVE IInv'
      BY <2>1, <3>5, ReturningKeeps
    <3>6. CASE TownReturn
      BY <2>1, <3>6, TownReturnKeeps
    <3>7. CASE StarvationTick
      BY <2>1, <3>7, TickKeeps
    <3>. QED
      BY <1>1, <3>1, <3>2, <3>3, <3>4, <3>5, <3>6, <3>7 DEF WarStep
  <2>3. AsLastLeft'
    BY <1>1, HoursPass, LeftAlone DEF OasisIInv, IInv, WarTypes
  <2>. QED
    BY <2>2, <2>3 DEF OasisIInv
<1>2. ASSUME NEW m \in Movement, OasisBattleArrives(m) PROVE OasisIInv'
  BY <1>2, RaidKeeps
<1>3. ASSUME NEW m \in Movement, OasisScoutArrives(m) PROVE OasisIInv'
  BY <1>3, ExploringKeeps
<1>. QED
  BY <1>1, <1>2, <1>3, StepsAre

LEMMA WarInvariant == OasisSpec => []OasisIInv
<1>1. OasisInit => OasisIInv
  BY WarStarts
<1>2. OasisIInv /\ [OasisNext]_allVars => OasisIInv'
  BY WarGoesOn, WarStays
<1>. QED
  BY <1>1, <1>2, PTL DEF OasisSpec

\* No store, no garrison, no army and no count of marching troops is ever
\* negative, whatever battles, returns, hunger and settling take from them.
THEOREM WarTypesHold == OasisSpec => []WarTypes
<1>1. OasisIInv => WarTypes
  BY DEF OasisIInv, IInv
<1>. QED
  BY <1>1, WarInvariant, PTL

\* What attacks took out of the stores they reached is on its way, credited or
\* reported as not fitting, and every finished attack's report adds up.
THEOREM SpoilsAreConserved == OasisSpec => []SpoilsConserved
<1>1. OasisIInv => SpoilsConserved
  BY DEF OasisIInv, IInv
<1>. QED
  BY <1>1, WarInvariant, PTL

\* Scouting and failed raids neither lose nor mint animals or Food of an oasis.
THEOREM OasisFoundAsLeft == OasisSpec => []VisitsChangeNothing
<1>1. OasisIInv => VisitsChangeNothing
  <2>. SUFFICES ASSUME OasisIInv, oasis.lastRegenAt # Never
                PROVE  /\ Found(oasis) = Found(lastBattle)
                       /\ \A t \in Types : oasis.defenders[t] <= Target[t]
                       /\ oasis.food <= FoodCap
    BY DEF VisitsChangeNothing
  <2>1. /\ Sound(lastBattle) /\ Sound(oasis)
        /\ lastBattle.lastRegenAt <= oasis.lastRegenAt /\ oasis.lastRegenAt <= now
        /\ oasis = settleOasis(lastBattle, oasis.lastRegenAt)
    BY DEF OasisIInv, AsLastLeft
  <2>2. oasis.lastRegenAt \in Nat /\ now \in Nat
    BY <2>1 DEF OasisIInv, IInv, WarTypes, TownTypes, Sound, OasisType
  <2>3. settleOasis(settleOasis(lastBattle, oasis.lastRegenAt), now) = settleOasis(lastBattle, now)
    BY <2>1, <2>2, SettleTwice
  <2>4. settleOasis(oasis, now) = settleOasis(lastBattle, now)
    BY <2>1, <2>3
  <2>. QED
    BY <2>1, <2>4 DEF Found, Sound
<1>. QED
  BY <1>1, WarInvariant, PTL

------------------------------------------------------------------------------
\* What a step may do.

\* What the properties of the steps say of one step.
Silent ==
    now' = now =>
        /\ \A k \in Supporter : Shrinks(town.stationed[k], town.stationed'[k]) => NewlyTold(k)
        /\ (\/ Shrinks(Plus(town.troops, town.awayTroops), Plus(town'.troops, town'.awayTroops))
            \/ Shrinks(town.buildings, town'.buildings)
            \/ Shrinks(town.values, town'.values)
            \/ \E k \in Supporter : Shrinks(town.stationed[k], town'.stationed[k]))
           => NewlyTold(Defender)
        /\ Shrinks(home.awayTroops, home'.awayTroops) /\ home'.troops = home.troops
           => NewlyTold(Attacker)

Victorious ==
    /\ \A m \in Movement :
         /\ movement[m].type # "scout" /\ movement[m].to = "town"
         /\ movement[m].status = "outbound" /\ movement'[m].status # "outbound"
         /\ Beaten(m) \/ movement'[m].survivors = Nobody
         => /\ movement'[m].loot = Nothing /\ town'.buildings = town.buildings
            /\ \A r \in RESOURCE_KINDS : town'.values[r] # town.values[r] =>
                 town'.values[r] = calcStorageCaps(town.buildings)[r]
    /\ \A b \in Building \ {"wall"} :
         town'.buildings[b] < town.buildings[b] => town'.buildings["wall"] = 0
    /\ town'.buildings["commandCenter"] >= CommandCenterFloor

InOrder ==
    town'.lastTick # town.lastTick =>
        LET before == Pools(town)
            after == Pools(town')
            all == {p \in DOMAIN before : before[p] > 0}
            dead == {p \in all : after[p] < before[p]}
            eaters == {p \in all : after[p] > 0 /\ Unit[p[3]].upkeep > 0}
        IN  /\ town'.awayTroops = town.awayTroops
            /\ \A p \in dead, r \in eaters :
                 /\ p[1] <= r[1]
                 /\ p[1] = r[1] /\ Unit[p[3]].role = "settler" => Unit[r[3]].role = "settler"
            /\ \/ calcNetFoodPerHour(town') < 0 /\ eaters = {}
               \/ /\ calcNetFoodPerHour(town') >= 0
                  /\ \E p \in dead : calcNetFoodPerHour(town') < Unit[p[3]].upkeep

\* A count that is the same, or has grown, has not shrunk.
LEMMA NothingShrinks ==
    /\ \A a \in Troops : ~Shrinks(a, a)
    /\ \A a \in Goods : ~Shrinks(a, a)
    /\ \A a \in [Building -> Nat] : ~Shrinks(a, a)
    /\ \A a \in Troops, b \in Troops : ~Shrinks(a, Plus(a, b))
<1>1. \A a \in Troops, b \in Troops : ~Shrinks(a, Plus(a, b))
  <2>. SUFFICES ASSUME NEW a \in Troops, NEW b \in Troops, NEW t \in Types
                PROVE  ~(Plus(a, b)[t] < a[t])
    BY DEF Shrinks, Troops
  <2>1. Plus(a, b)[t] = a[t] + b[t] /\ a[t] \in Nat /\ b[t] \in Nat
    BY DEF Plus, Troops
  <2>. QED
    BY <2>1
<1>. QED
  BY <1>1 DEF Shrinks, Troops, Goods

\* The movement a step changes is the one it is about.
LEMMA OthersMarchOn ==
    ASSUME ArmyTypes, NEW m \in Movement, NEW n \in Movement, n # m
    PROVE  /\ BattleArrives(m) => movement'[n] = movement[n]
           /\ ScoutArrives(m) => movement'[n] = movement[n]
           /\ MovementReturn(m) => movement'[n] = movement[n]
           /\ OasisBattleArrives(m) => movement'[n] = movement[n]
           /\ OasisScoutArrives(m) => movement'[n] = movement[n]
           /\ \A to, type, units, target :
                SendMovement(m, to, type, units, target) => movement'[n] = movement[n]
<1>1. ASSUME NEW survivors, NEW loot, AfterBattle(m, survivors, loot)
      PROVE  movement'[n] = movement[n]
  BY <1>1 DEF AfterBattle, ArmyTypes
<1>2. BattleArrives(m) => movement'[n] = movement[n]
  BY <1>1, BattleIs
<1>3. ScoutArrives(m) => movement'[n] = movement[n]
  BY <1>1, ScoutIs
<1>4. OasisBattleArrives(m) => movement'[n] = movement[n]
  BY <1>1, RaidIs
<1>5. OasisScoutArrives(m) => movement'[n] = movement[n]
  BY <1>1 DEF OasisScoutArrives
<1>6. MovementReturn(m) => movement'[n] = movement[n]
  BY DEF MovementReturn, ArmyTypes
<1>7. ASSUME NEW to, NEW type, NEW units, NEW target, SendMovement(m, to, type, units, target)
      PROVE  movement'[n] = movement[n]
  BY <1>7 DEF SendMovement, ArmyTypes
<1>. QED
  BY <1>2, <1>3, <1>4, <1>5, <1>6, <1>7

\* While the town is left as it is, nothing of it shrinks or is won.
LEMMA TownUntouched ==
    ASSUME TownTypes, Standing(town.buildings), town' = town
    PROVE  /\ InOrder
           /\ \A k \in Supporter : ~Shrinks(town.stationed[k], town.stationed'[k])
                                   /\ ~Shrinks(town.stationed[k], town'.stationed[k])
           /\ ~Shrinks(Plus(town.troops, town.awayTroops), Plus(town'.troops, town'.awayTroops))
           /\ ~Shrinks(town.buildings, town'.buildings) /\ ~Shrinks(town.values, town'.values)
           /\ \A b \in Building : ~(town'.buildings[b] < town.buildings[b])
           /\ town'.buildings["commandCenter"] >= CommandCenterFloor
<1>1. /\ town.values \in Goods /\ town.buildings \in [Building -> Nat]
      /\ Plus(town.troops, town.awayTroops) \in Troops
      /\ \A k \in Supporter : town.stationed[k] \in Troops
      /\ town.buildings["commandCenter"] >= CommandCenterFloor
  BY PlusIsTroops DEF TownTypes, TownType, Standing
<1>2. /\ ~Shrinks(Plus(town.troops, town.awayTroops), Plus(town.troops, town.awayTroops))
      /\ ~Shrinks(town.buildings, town.buildings)
      /\ ~Shrinks(town.values, town.values)
      /\ \A k \in Supporter : ~Shrinks(town.stationed[k], town.stationed[k])
      /\ \A b \in Building : ~(town.buildings[b] < town.buildings[b])
  BY <1>1, NothingShrinks
<1>3. InOrder
  BY DEF InOrder
<1>. QED
  BY <1>1, <1>2, <1>3

LEMMA BattleIsTold ==
    ASSUME OasisIInv, NEW m \in Movement, BattleArrives(m)
    PROVE  Silent
<1>1. /\ TownTypes /\ Standing(town.buildings) /\ NoReportAhead /\ movement[m] \in MovementType
      /\ movement[m].status = "outbound" /\ town.stationed \in [Supporter -> Troops]
  BY BattleIs DEF OasisIInv, IInv, WarTypes, ArmyTypes, TownTypes, TownType
<1>2. PICK told : /\ ToldOf(m, told)
                  /\ << Defender, "defense", m >> \in told
                  /\ << Attacker, movement[m].type, m >> \in told
                  /\ \A k \in Supporter : Battle(m).defenders[k] # Nobody =>
                        << k, "supportLoss", m >> \in told
  BY <1>1, BattleTells
<1>3. \A rep \in told : rep \in reports'
  BY <1>2 DEF ToldOf
<1>4. movement[m].type # "starvation"
  BY <1>1 DEF MovementType
<1>5. NewlyTold(Defender)
  <2>1. << Defender, "defense", m >> \notin reports
    BY <1>1, ReportIsNew
  <2>. QED
    BY <1>2, <1>3, <2>1 DEF NewlyTold
<1>6. NewlyTold(Attacker)
  <2>1. << Attacker, movement[m].type, m >> \notin reports
    BY <1>1, <1>4, ReportIsNew
  <2>. QED
    BY <1>2, <1>3, <2>1 DEF NewlyTold
<1>7. ASSUME NEW k \in Supporter, Shrinks(town.stationed[k], town.stationed'[k])
      PROVE  NewlyTold(k)
  <2>1. town'.stationed[k] = Minus(town.stationed[k], Battle(m).defenders[k])
    BY <1>1, TownAfterBattle
  <2>2. Battle(m).defenders[k] # Nobody
    <3>1. SUFFICES ASSUME Battle(m).defenders[k] = Nobody PROVE FALSE
      OBVIOUS
    <3>2. Minus(town.stationed[k], Nobody) = town.stationed[k]
      BY <1>1 DEF Minus, Nobody, Troops
    <3>. QED
      BY <1>1, <1>7, <2>1, <3>1, <3>2, NothingShrinks
  <2>3. << k, "supportLoss", m >> \notin reports
    BY <1>1, ReportIsNew
  <2>. QED
    BY <1>2, <1>3, <2>2, <2>3 DEF NewlyTold
<1>. QED
  BY <1>5, <1>6, <1>7 DEF Silent

LEMMA HungerIsTold ==
    ASSUME OasisIInv, StarvationTick
    PROVE  Silent
<1>1. TownTypes /\ Standing(town.buildings) /\ NoReportAhead /\ ArmyTypes
  BY DEF OasisIInv, IInv, WarTypes
<1>2. PICK killed : /\ Bereft(killed)
                    /\ reports' = reports
                         \cup {<< Defender, "starvation", now >> : p \in Dead(killed)}
                         \cup {<< p[2], "starvation", now >> : p \in {q \in Dead(killed) : q[1] = 0}}
  BY <1>1, TickIs
<1>3. /\ town \in TownType /\ killed \in [Places -> Nat]
      /\ town.stationed \in [Supporter -> Troops] /\ town.troops \in Troops
      /\ town.values \in Goods /\ town.buildings \in [Building -> Nat]
  BY <1>1, <1>2 DEF TownTypes, TownType, Bereft, Starves, Standing
<1>4. ASSUME NEW who, << who, "starvation", now >> \in reports'
      PROVE  NewlyTold(who)
  <2>1. << who, "starvation", now >> \notin reports
    <3>1. town.lastTick < now /\ now \in Nat /\ town.lastTick \in Nat
      BY <1>1 DEF StarvationTick, TownTypes, TownType
    <3>2. now \notin 0 .. town.lastTick
      BY <3>1
    <3>. QED
      BY <1>1, <3>2 DEF NoReportAhead
  <2>. QED
    BY <1>4, <2>1 DEF NewlyTold
<1>5. Dead(killed) # {} => NewlyTold(Defender)
  BY <1>2, <1>4
<1>6. ASSUME NEW k \in Supporter,
             Shrinks(town.stationed[k], town.stationed'[k])
             \/ Shrinks(town.stationed[k], town'.stationed[k])
      PROVE  NewlyTold(k) /\ Dead(killed) # {}
  <2>1. PICK u \in Types : town'.stationed[k][u] < town.stationed[k][u]
    BY <1>3, <1>6 DEF Shrinks, Troops
  <2>2. << 0, k, u >> \in Places
    BY DEF Places
  <2>3. town'.stationed[k][u] = town.stationed[k][u] - killed[<< 0, k, u >>]
    BY <1>2 DEF Bereft
  <2>4. town.stationed[k][u] \in Nat /\ killed[<< 0, k, u >>] \in Nat
    BY <1>3, <2>2 DEF Troops
  <2>5. killed[<< 0, k, u >>] > 0
    BY <2>1, <2>3, <2>4
  <2>6. << 0, k, u >> \in Dead(killed)
    BY <2>2, <2>5 DEF Dead
  <2>7. << << 0, k, u >>[2], "starvation", now >> \in reports'
    BY <1>2, <2>6
  <2>. QED
    BY <1>4, <2>6, <2>7
<1>7. ASSUME Shrinks(Plus(town.troops, town.awayTroops), Plus(town'.troops, town'.awayTroops))
      PROVE  Dead(killed) # {}
  <2>1. PICK u \in Types : town'.troops[u] < town.troops[u]
    <3>1. /\ town'.troops \in Troops /\ town.awayTroops \in Troops
          /\ town'.awayTroops = town.awayTroops
      BY <1>2, <1>3 DEF Bereft, TownType
    <3>2. PICK u \in Types : town'.troops[u] + town.awayTroops[u]
                             < town.troops[u] + town.awayTroops[u]
      BY <1>7, <3>1 DEF Shrinks, Plus
    <3>3. town'.troops[u] \in Nat /\ town.troops[u] \in Nat /\ town.awayTroops[u] \in Nat
      BY <1>3, <3>1 DEF Troops
    <3>. QED
      BY <3>2, <3>3
  <2>2. << 1, HOME_CONTINGENT_KEY, u >> \in Places
    BY DEF Places
  <2>3. town'.troops[u] = town.troops[u] - killed[<< 1, HOME_CONTINGENT_KEY, u >>]
    BY <1>2 DEF Bereft
  <2>4. town.troops[u] \in Nat /\ killed[<< 1, HOME_CONTINGENT_KEY, u >>] \in Nat
    BY <1>3, <2>2 DEF Troops
  <2>5. killed[<< 1, HOME_CONTINGENT_KEY, u >>] > 0
    BY <2>1, <2>3, <2>4
  <2>. QED
    BY <2>2, <2>5 DEF Dead
<1>8. ~Shrinks(town.buildings, town'.buildings) /\ ~Shrinks(town.values, town'.values)
  <2>1. town'.buildings = town.buildings /\ town'.values = town.values
    BY <1>2 DEF Bereft
  <2>. QED
    BY <1>3, <2>1, NothingShrinks
<1>9. ~Shrinks(home.awayTroops, home'.awayTroops)
  <2>1. home' = home /\ home.awayTroops \in Troops
    BY <1>1 DEF StarvationTick, ArmyTypes, HomeType
  <2>. QED
    BY <2>1, NothingShrinks
<1>. QED
  BY <1>5, <1>6, <1>7, <1>8, <1>9 DEF Silent

LEMMA StepIsTold == OasisIInv /\ OasisNext => Silent
<1>. SUFFICES ASSUME OasisIInv, OasisNext PROVE Silent
  OBVIOUS
<1>1. /\ TownTypes /\ Standing(town.buildings) /\ NoReportAhead /\ ArmyTypes
      /\ home.awayTroops \in Troops /\ home.troops \in Troops
      /\ \A m \in Movement : movement[m] \in MovementType
  BY DEF OasisIInv, IInv, WarTypes, ArmyTypes, HomeType
<1>2. ASSUME town' = town, Shrinks(home.awayTroops, home'.awayTroops) /\ home'.troops = home.troops
                             => NewlyTold(Attacker)
      PROVE  Silent
  BY <1>1, <1>2, TownUntouched DEF Silent
<1>3. ASSUME NEW m \in Movement, NEW type, << Attacker, type, m >> \in reports',
             type # "starvation", movement[m].status = "outbound"
      PROVE  NewlyTold(Attacker)
  <2>1. << Attacker, type, m >> \notin reports
    BY <1>1, <1>3, ReportIsNew
  <2>. QED
    BY <1>3, <2>1 DEF NewlyTold
<1>4. ASSUME Elapse PROVE Silent
  <2>1. now' = now + 1 /\ now \in Nat
    BY <1>1, <1>4 DEF Elapse, TownTypes
  <2>. QED
    BY <2>1 DEF Silent
<1>5. ASSUME NEW m \in Movement, NEW to \in {"town", "oasis"},
             NEW type \in {"scout", "raid", "assault"}, NEW units \in Troops,
             NEW target \in Building \cup {"none"}, SendMovement(m, to, type, units, target)
      PROVE  Silent
  <2>1. town' = town /\ home'.awayTroops = Plus(home.awayTroops, units)
    BY <1>1, <1>5 DEF SendMovement, ArmyTypes, HomeType
  <2>2. ~Shrinks(home.awayTroops, home'.awayTroops)
    BY <1>1, <2>1, NothingShrinks
  <2>. QED
    BY <1>2, <2>1, <2>2
<1>6. ASSUME NEW m \in Movement, ScoutArrives(m) PROVE Silent
  <2>1. PICK type \in {"scout", "scoutFailed"} : << Attacker, type, m >> \in ScoutTold(m)
    BY <1>6, ScoutTells
  <2>2. /\ << Attacker, type, m >> \in reports' /\ type # "starvation" /\ town' = town
        /\ movement[m].status = "outbound"
    BY <1>6, <2>1, ScoutIs
  <2>. QED
    BY <1>2, <1>3, <2>2
<1>7. ASSUME NEW m \in Movement, MovementReturn(m) PROVE Silent
  <2>1. /\ town' = town /\ home'.troops = Plus(home.troops, movement[m].survivors)
        /\ home'.awayTroops = Minus(home.awayTroops, movement[m].survivors)
    BY <1>7 DEF MovementReturn
  <2>2. movement[m].survivors \in Troops
    BY <1>1 DEF MovementType
  <2>3. home'.troops # home.troops \/ home'.awayTroops = home.awayTroops
    <3>1. SUFFICES ASSUME home'.troops = home.troops
                   PROVE  home'.awayTroops = home.awayTroops
      OBVIOUS
    <3>2. \A t \in Types : movement[m].survivors[t] = 0
      <4>1. ASSUME NEW t \in Types PROVE movement[m].survivors[t] = 0
        <5>1. Plus(home.troops, movement[m].survivors)[t]
              = home.troops[t] + movement[m].survivors[t]
          BY DEF Plus
        <5>2. home.troops[t] \in Nat /\ movement[m].survivors[t] \in Nat
          BY <1>1, <2>2 DEF Troops
        <5>. QED
          BY <2>1, <3>1, <5>1, <5>2
      <4>. QED
        BY <4>1
    <3>3. Minus(home.awayTroops, movement[m].survivors) = home.awayTroops
      BY <1>1, <3>2 DEF Minus, Troops
    <3>. QED
      BY <2>1, <3>3
  <2>4. Shrinks(home.awayTroops, home'.awayTroops) /\ home'.troops = home.troops => FALSE
    BY <1>1, <2>3, NothingShrinks
  <2>. QED
    BY <1>2, <2>1, <2>4
<1>8. ASSUME NEW m \in Movement, OasisBattleArrives(m) PROVE Silent
  <2>1. /\ << Attacker, "oasisRaid", m >> \in reports' /\ town' = town
        /\ movement[m].status = "outbound"
    BY <1>8, RaidIs
  <2>. QED
    BY <1>2, <1>3, <2>1
<1>9. ASSUME NEW m \in Movement, OasisScoutArrives(m) PROVE Silent
  <2>1. town' = town /\ home' = home
    BY <1>9 DEF OasisScoutArrives
  <2>2. ~Shrinks(home.awayTroops, home'.awayTroops)
    BY <1>1, <2>1, NothingShrinks
  <2>. QED
    BY <1>2, <2>1, <2>2
<1>10. ASSUME TownReturn PROVE Silent
  <2>1. /\ town'.troops = Plus(town.troops, town.awayTroops) /\ town'.awayTroops = Nobody
        /\ town'.values = town.values /\ town'.buildings = town.buildings
        /\ town'.stationed = town.stationed /\ home' = home
    BY <1>1, <1>10, TownReturnIs
  <2>2. /\ town.values \in Goods /\ town.buildings \in [Building -> Nat]
        /\ town.troops \in Troops /\ town.awayTroops \in Troops
        /\ \A k \in Supporter : town.stationed[k] \in Troops
    BY <1>1 DEF TownTypes, TownType
  <2>3. Plus(town.troops, town.awayTroops) \in Troops /\ Nobody \in Troops
    BY <2>2, PlusIsTroops, NobodyIsTroops
  <2>4. ~Shrinks(Plus(town.troops, town.awayTroops), Plus(town'.troops, town'.awayTroops))
    BY <2>1, <2>3, NothingShrinks
  <2>5. /\ ~Shrinks(town.buildings, town'.buildings) /\ ~Shrinks(town.values, town'.values)
        /\ ~Shrinks(home.awayTroops, home'.awayTroops)
        /\ \A k \in Supporter : ~Shrinks(town.stationed[k], town.stationed'[k])
                                /\ ~Shrinks(town.stationed[k], town'.stationed[k])
    BY <1>1, <2>1, <2>2, NothingShrinks
  <2>. QED
    BY <2>4, <2>5 DEF Silent
<1>. QED
  BY <1>4, <1>5, <1>6, <1>7, <1>8, <1>9, <1>10, BattleIsTold, HungerIsTold, StepsAre DEF WarStep

\* Whoever loses troops, levels or goods to an event, the owner of the town, a
\* guest or the attacker, gets a report of it.
THEOREM LossesAreReported == OasisSpec => NoSilentLoss
<1>1. OasisIInv /\ [OasisNext]_allVars => [Silent]_vars
  <2>1. UNCHANGED allVars => UNCHANGED vars
    BY DEF allVars
  <2>. QED
    BY <2>1, StepIsTold
<1>. QED
  BY <1>1, WarInvariant, PTL DEF OasisSpec, NoSilentLoss, Silent

LEMMA BattleNeedsVictory ==
    ASSUME OasisIInv, NEW m \in Movement, BattleArrives(m)
    PROVE  Victorious
<1>1. /\ TownTypes /\ Standing(town.buildings) /\ ArmyTypes /\ movement[m] \in MovementType
      /\ town.values \in Goods /\ town.buildings \in [Building -> Nat]
  BY DEF OasisIInv, IInv, WarTypes, ArmyTypes, TownTypes, TownType, Standing
<1>2. Struck(m)
  BY <1>1, AttackStrikes
<1>3. /\ town'.buildings = BuildingsAfter(m) /\ Standing(town'.buildings)
      /\ \A r \in RESOURCE_KINDS : \/ town'.values[r] = town.values[r] - LootOf(m)[r]
                                   \/ town'.values[r] = calcStorageCaps(BuildingsAfter(m))[r]
  BY <1>1, TownAfterBattle
<1>4. /\ movement'[m].loot = LootOf(m) /\ movement'[m].survivors = Battle(m).survivors
  <2>1. ASSUME NEW survivors, NEW loot, AfterBattle(m, survivors, loot)
        PROVE  movement'[m].loot = loot /\ movement'[m].survivors = survivors
    BY <1>1, <2>1 DEF AfterBattle, ArmyTypes, MovementType
  <2>2. AfterBattle(m, Battle(m).survivors, LootOf(m))
    BY BattleIs
  <2>. QED
    BY <2>1, <2>2
<1>5. ASSUME Beaten(m) \/ movement'[m].survivors = Nobody
      PROVE  /\ movement'[m].loot = Nothing /\ town'.buildings = town.buildings
             /\ \A r \in RESOURCE_KINDS : town'.values[r] # town.values[r] =>
                    town'.values[r] = calcStorageCaps(town.buildings)[r]
  <2>1. ~Battle(m).attackerPrevailed
    <3>1. /\ Battle(m).attackerPrevailed =>
               Odds(m)[1] < Odds(m)[2] /\ Battle(m).survivors # Nobody
      BY <1>2 DEF Struck, Fought
    <3>2. Beaten(m) <=> ~(Odds(m)[1] < Odds(m)[2])
      BY DEF Beaten, Odds
    <3>. QED
      BY <1>4, <1>5, <3>1, <3>2
  <2>2. LootOf(m) = Nothing /\ BuildingsAfter(m) = town.buildings
    BY <1>2, <2>1 DEF Struck
  <2>3. \A r \in RESOURCE_KINDS : town.values[r] - LootOf(m)[r] = town.values[r]
    BY <1>1, <2>2 DEF Nothing, Goods
  <2>. QED
    BY <1>3, <1>4, <2>2, <2>3
<1>6. \A n \in Movement : n # m => movement'[n] = movement[n]
  BY <1>1, OthersMarchOn
<1>7. \A b \in Building \ {"wall"} :
         town'.buildings[b] < town.buildings[b] => town'.buildings["wall"] = 0
  BY <1>2, <1>3 DEF Struck
<1>8. town'.buildings["commandCenter"] >= CommandCenterFloor
  BY <1>3 DEF Standing
<1>. QED
  BY <1>5, <1>6, <1>7, <1>8 DEF Victorious

\* A step that is no attack on the town razes nothing and brings none home.
LEMMA ElsewhereNothingIsWon ==
    ASSUME OasisIInv, town'.buildings = town.buildings,
           \A m \in Movement : \/ movement[m].type = "scout" \/ movement[m].to # "town"
                               \/ movement[m].status # "outbound"
                               \/ movement'[m] = movement[m]
    PROVE  Victorious
<1>1. Standing(town.buildings) /\ town.buildings \in [Building -> Nat]
  BY DEF OasisIInv, IInv, Standing
<1>2. \A b \in Building : ~(town'.buildings[b] < town.buildings[b])
  BY <1>1
<1>3. town'.buildings["commandCenter"] >= CommandCenterFloor
  BY <1>1 DEF Standing
<1>4. \A m \in Movement :
         ~(/\ movement[m].type # "scout" /\ movement[m].to = "town"
           /\ movement[m].status = "outbound" /\ movement'[m].status # "outbound")
  OBVIOUS
<1>. QED
  BY <1>2, <1>3, <1>4 DEF Victorious

LEMMA StepNeedsVictory == OasisIInv /\ OasisNext => Victorious
<1>. SUFFICES ASSUME OasisIInv, OasisNext PROVE Victorious
  OBVIOUS
<1>1. TownTypes /\ Standing(town.buildings) /\ ArmyTypes
  BY DEF OasisIInv, IInv, WarTypes
<1>2. CASE Elapse
  <2>1. town'.buildings = town.buildings /\ movement' = movement
    BY <1>1, <1>2 DEF Elapse, TownTypes, TownType
  <2>. QED
    BY <2>1, ElsewhereNothingIsWon
<1>3. CASE StarvationTick
  <2>1. movement' = movement
    BY <1>3 DEF StarvationTick
  <2>2. town'.buildings = town.buildings
    BY <1>1, <1>3, TickIs DEF Bereft
  <2>. QED
    BY <2>1, <2>2, ElsewhereNothingIsWon
<1>4. ASSUME NEW m \in Movement, NEW to \in {"town", "oasis"},
             NEW type \in {"scout", "raid", "assault"}, NEW units \in Troops,
             NEW target \in Building \cup {"none"}, SendMovement(m, to, type, units, target)
      PROVE  Victorious
  <2>1. town' = town /\ movement[m].status = "none"
    BY <1>4 DEF SendMovement
  <2>2. \A n \in Movement : n # m => movement'[n] = movement[n]
    BY <1>1, <1>4, OthersMarchOn
  <2>3. \A n \in Movement : movement[n].status # "outbound" \/ movement'[n] = movement[n]
    BY <2>1, <2>2
  <2>. QED
    BY <2>1, <2>3, ElsewhereNothingIsWon
<1>5. ASSUME NEW m \in Movement, ScoutArrives(m) PROVE Victorious
  <2>1. town' = town /\ movement[m].type = "scout"
    BY <1>5, ScoutIs
  <2>2. \A n \in Movement : n # m => movement'[n] = movement[n]
    BY <1>1, <1>5, OthersMarchOn
  <2>3. \A n \in Movement : movement[n].type = "scout" \/ movement'[n] = movement[n]
    BY <2>1, <2>2
  <2>. QED
    BY <2>1, <2>3, ElsewhereNothingIsWon
<1>6. ASSUME NEW m \in Movement, MovementReturn(m) PROVE Victorious
  <2>1. town' = town /\ movement[m].status = "returning"
    BY <1>6 DEF MovementReturn
  <2>2. \A n \in Movement : n # m => movement'[n] = movement[n]
    BY <1>1, <1>6, OthersMarchOn
  <2>3. \A n \in Movement : movement[n].status # "outbound" \/ movement'[n] = movement[n]
    BY <2>1, <2>2
  <2>. QED
    BY <2>1, <2>3, ElsewhereNothingIsWon
<1>7. ASSUME NEW m \in Movement, OasisBattleArrives(m) PROVE Victorious
  <2>1. town' = town /\ movement[m].to # "town"
    BY <1>7, RaidIs
  <2>2. \A n \in Movement : n # m => movement'[n] = movement[n]
    BY <1>1, <1>7, OthersMarchOn
  <2>3. \A n \in Movement : movement[n].to # "town" \/ movement'[n] = movement[n]
    BY <2>1, <2>2
  <2>. QED
    BY <2>1, <2>3, ElsewhereNothingIsWon
<1>8. ASSUME NEW m \in Movement, OasisScoutArrives(m) PROVE Victorious
  <2>1. town' = town /\ movement[m].type = "scout"
    BY <1>8 DEF OasisScoutArrives
  <2>2. \A n \in Movement : n # m => movement'[n] = movement[n]
    BY <1>1, <1>8, OthersMarchOn
  <2>3. \A n \in Movement : movement[n].type = "scout" \/ movement'[n] = movement[n]
    BY <2>1, <2>2
  <2>. QED
    BY <2>1, <2>3, ElsewhereNothingIsWon
<1>9. CASE TownReturn
  <2>1. town'.buildings = town.buildings /\ movement' = movement
    BY <1>1, <1>9, TownReturnIs
  <2>. QED
    BY <2>1, ElsewhereNothingIsWon
<1>. QED
  BY <1>2, <1>3, <1>4, <1>5, <1>6, <1>7, <1>8, <1>9, BattleNeedsVictory, StepsAre DEF WarStep

\* Without a victory nothing is carried off or razed, and no building falls
\* behind a wall that stands.
THEOREM NothingWithoutVictory == OasisSpec => SpoilsNeedVictory
<1>1. OasisIInv /\ [OasisNext]_allVars => [Victorious]_vars
  <2>1. UNCHANGED allVars => UNCHANGED vars
    BY DEF allVars
  <2>. QED
    BY <2>1, StepNeedsVictory
<1>. QED
  BY <1>1, WarInvariant, PTL DEF OasisSpec, SpoilsNeedVictory, Victorious

LEMMA HungerTakesInOrder ==
    ASSUME OasisIInv, StarvationTick
    PROVE  InOrder
<1>. DEFINE before == Pools(town)
            after == Pools(town')
            all == {p \in DOMAIN before : before[p] > 0}
            dead == {p \in all : after[p] < before[p]}
            eaters == {p \in all : after[p] > 0 /\ Unit[p[3]].upkeep > 0}
            net == calcNetFoodPerHour(town)
            left == calcNetFoodPerHour(town')
            deficit == -net
<1>1. TownTypes /\ Standing(town.buildings) /\ town \in TownType
  BY DEF OasisIInv, IInv, WarTypes, TownTypes
<1>2. PICK killed : Bereft(killed)
  BY <1>1, TickIs
<1>3. /\ Starves(deficit, before, killed) /\ before \in [Places -> Nat]
      /\ killed \in [Places -> Nat] /\ deficit \in Nat \ {0}
  BY <1>2 DEF Bereft, Starves
<1>4. \A p \in Places : after[p] = before[p] - killed[p] /\ killed[p] <= before[p]
  BY <1>2, <1>3 DEF Bereft, Starves
<1>5. net \in Int /\ left = net + Needs(killed, Places) /\ Needs(killed, Places) \in Nat
  BY <1>1, <1>2, <1>3, NetFoodType, NetAfterTick, NeedsGrow
<1>. HIDE DEF net, left, before, after
<1>6. \A p : p \in dead <=> p \in Places /\ killed[p] > 0
  <2>1. ASSUME NEW p \in Places
        PROVE  p \in dead <=> killed[p] > 0
    <3>1. before[p] \in Nat /\ killed[p] \in Nat /\ after[p] = before[p] - killed[p]
          /\ killed[p] <= before[p] /\ DOMAIN before = Places
      BY <1>3, <1>4
    <3>. QED
      BY <3>1
  <2>2. \A p \in dead : p \in Places
    BY <1>3
  <2>. QED
    BY <2>1, <2>2
<1>7. \A r : r \in eaters <=> Eater(before, killed, r)
  <2>1. ASSUME NEW r \in Places
        PROVE  r \in eaters <=> Eater(before, killed, r)
    <3>1. before[r] \in Nat /\ killed[r] \in Nat /\ after[r] = before[r] - killed[r]
          /\ killed[r] <= before[r] /\ DOMAIN before = Places
      BY <1>3, <1>4
    <3>. QED
      BY <3>1 DEF Eater, Appetite
  <2>2. \A r \in eaters : r \in Places
    BY <1>3
  <2>. QED
    BY <2>1, <2>2 DEF Eater
<1>. HIDE DEF dead, eaters
<1>8. ASSUME NEW p \in dead, NEW r \in eaters
      PROVE  /\ p[1] <= r[1]
             /\ p[1] = r[1] /\ Unit[p[3]].role = "settler" => Unit[r[3]].role = "settler"
  <2>1. p \in Places /\ killed[p] > 0 /\ r \in Places /\ Eater(before, killed, r)
    BY <1>6, <1>7 DEF Eater
  <2>2. ~DiesBefore(r, p)
    BY <1>3, <2>1, NobodyOutOfTurn
  <2>3. p[1] \in {0, 1} /\ r[1] \in {0, 1} /\ p[3] \in Types /\ r[3] \in Types
    BY <2>1, PlaceIs
  <2>4. p[1] <= r[1]
    BY <2>2, <2>3 DEF DiesBefore
  <2>5. ASSUME p[1] = r[1], Unit[p[3]].role = "settler"
        PROVE  Unit[r[3]].role = "settler"
    <3>1. ~compareStarvationOrder(r[3], p[3])
      BY <2>2, <2>5 DEF DiesBefore
    <3>2. ~(diesLastRank(r[3]) < diesLastRank(p[3]))
      BY <2>3, <3>1, CompareIs
    <3>3. diesLastRank(p[3]) = 2
      BY <2>5 DEF diesLastRank
    <3>4. Unit[r[3]].role # "settler" => diesLastRank(r[3]) \in {0, 1}
      BY DEF diesLastRank
    <3>. QED
      BY <3>2, <3>3, <3>4
  <2>. QED
    BY <2>4, <2>5
<1>9. ASSUME left < 0
      PROVE  eaters = {}
  <2>1. SUFFICES ASSUME NEW e \in eaters PROVE FALSE
    OBVIOUS
  <2>2. Needs(killed, Places) >= deficit
    BY <1>3, <1>7, <2>1, EnoughDie
  <2>. QED
    BY <1>3, <1>5, <1>9, <2>2
<1>10. ASSUME left >= 0
       PROVE  \E p \in dead : left < Unit[p[3]].upkeep
  <2>1. Needs(killed, Places) >= deficit
    BY <1>3, <1>5, <1>10
  <2>2. PICK q \in Places : killed[q] > 0 /\ Needs(killed, Places) - deficit < Appetite(q)
    BY <1>3, <2>1, NoMoreThanNeeded
  <2>3. q \in dead /\ left < Unit[q[3]].upkeep
    BY <1>5, <1>6, <2>2 DEF Appetite
  <2>. QED
    BY <2>3
<1>11. left < 0 \/ left >= 0
  BY <1>5
<1>12. /\ town'.awayTroops = town.awayTroops
       /\ \A p \in dead, r \in eaters :
             /\ p[1] <= r[1]
             /\ p[1] = r[1] /\ Unit[p[3]].role = "settler" => Unit[r[3]].role = "settler"
       /\ \/ left < 0 /\ eaters = {}
          \/ left >= 0 /\ \E p \in dead : left < Unit[p[3]].upkeep
  BY <1>2, <1>8, <1>9, <1>10, <1>11 DEF Bereft
<1>. QED
  BY <1>12 DEF InOrder, dead, eaters, before, after, left

LEMMA StepInOrder == OasisIInv /\ OasisNext => InOrder
<1>. SUFFICES ASSUME OasisIInv, OasisNext PROVE InOrder
  OBVIOUS
<1>1. TownTypes /\ Standing(town.buildings) /\ ArmyTypes
  BY DEF OasisIInv, IInv, WarTypes
<1>2. ASSUME town'.lastTick = town.lastTick PROVE InOrder
  BY <1>2 DEF InOrder
<1>3. CASE Elapse
  BY <1>1, <1>2, <1>3 DEF Elapse, TownTypes, TownType
<1>4. ASSUME NEW m \in Movement, BattleArrives(m) PROVE InOrder
  BY <1>1, <1>2, <1>4, TownAfterBattle DEF ArmyTypes
<1>5. ASSUME NEW m \in Movement, NEW to \in {"town", "oasis"},
             NEW type \in {"scout", "raid", "assault"}, NEW units \in Troops,
             NEW target \in Building \cup {"none"}, SendMovement(m, to, type, units, target)
      PROVE  InOrder
  BY <1>2, <1>5 DEF SendMovement
<1>6. ASSUME NEW m \in Movement,
             \/ ScoutArrives(m) \/ MovementReturn(m) \/ OasisBattleArrives(m)
             \/ OasisScoutArrives(m)
      PROVE  InOrder
  BY <1>2, <1>6 DEF ScoutArrives, MovementReturn, OasisBattleArrives, OasisScoutArrives
<1>7. ASSUME TownReturn PROVE InOrder
  BY <1>1, <1>2, <1>7, TownReturnIs
<1>. QED
  BY <1>3, <1>4, <1>5, <1>6, <1>7, HungerTakesInOrder, StepsAre DEF WarStep

\* Hunger kills guests before the garrison, settlers last of each, nobody on
\* the march, and no more than it takes to feed whoever and whatever eats; when
\* buildings and marchers eat more than grows, everybody in town who eats dies
\* and the deficit stays (starvation.ts, calcNetFoodPerHour, upkeepTroopsOf).
THEOREM HungerInOrder == OasisSpec => StarvesInOrder
<1>1. OasisIInv /\ [OasisNext]_allVars => [InOrder]_vars
  <2>1. UNCHANGED allVars => UNCHANGED vars
    BY DEF allVars
  <2>. QED
    BY <2>1, StepInOrder
<1>. QED
  BY <1>1, WarInvariant, PTL DEF OasisSpec, StarvesInOrder, InOrder
==============================================================================
