------------------------------- MODULE Economy -------------------------------
(***************************************************************************)
(* The formulas every part of the game shares: the server charges and      *)
(* settles by them, the web client shows and forecasts by them.            *)
(*                                                                         *)
(* Stored amounts are in Grains, 6000 to one unit of a resource, and time  *)
(* in ticks of ten minutes, six to the hour: a rate of one thousandth per  *)
(* hour adds exactly one Grain per tick, so settling twice is settling     *)
(* once and the arithmetic is exact.  Powers are kept to five decimals,    *)
(* which gives every price, yield and cap of levels 0 .. TOP to the unit.  *)
(***************************************************************************)
EXTENDS Catalogue

TOP == 10                \* bound: the highest level the tables hold
HOUR == 6
GRAINS == 1000 * HOUR
SCALE == 100000
Price(amount) == amount * GRAINS

\* SCALE times ratio^k.
Powers(ratio) ==
    LET power[k \in 0..TOP] ==
            IF k = 0 THEN SCALE ELSE (power[k - 1] * ratio[1]) \div ratio[2]
    IN  power

CostPower == [f \in {"resource", "functional"} |-> Powers(costRatio[f])]
TimePower == [f \in {"resource", "functional"} |-> Powers(timeRatio[f])]
EatPower == Powers(upkeepRatio)
CapPower == Powers(storageRatio)
CommandPower == Powers(buildTimeRatio)
DrillPower == Powers(buildingTimeRatio)

Rounded(n, d) == (2 * n + d) \div (2 * d)
CeilDiv(n, d) == (n + d - 1) \div d

\* buildings: a function from the types that have an entry to their level.  An
\* entry can be of level 0: a siege razes a building and leaves its entry.
levelOf(buildings, type) == IF type \in DOMAIN buildings THEN buildings[type] ELSE 0

calcBuildCost ==
    [type \in BUILDING_TYPES |-> [level \in 1..TOP |-> [r \in RESOURCE_KINDS |->
        Price(Rounded(Buildings[type].cost[r] * CostPower[Buildings[type].family][level - 1],
                      SCALE))]]]

\* In ticks: seconds at the speed of the round, rounded up.
calcBuildTime(type, level, commandCenterLevel) ==
    LET sec == (Buildings[type].sec * (TimePower[Buildings[type].family][level - 1] \div 1000))
                   \div 100
    IN  CeilDiv(sec * (CommandPower[commandCenterLevel] \div 100),
                1000 * Speed.build * 600)

Growth ==
    LET grown[level \in 1..TOP] ==
            IF level = 1 THEN SCALE \div 10
            ELSE (grown[level - 1] * StepRatio(level - 1)[1]) \div StepRatio(level - 1)[2]
    IN  grown

\* Thousandths per hour.
calcProductionPerHour ==
    [type \in DOMAIN Producers |-> [level \in 0..TOP |->
        IF level = 0 THEN 0
        ELSE 1000 * Rounded(Producers[type].makes[2] * Speed.production * Growth[level],
                            SCALE \div 10)]]

ProducerOf(r) == CHOOSE type \in DOMAIN Producers : Producers[type].makes[1] = r

calcSettlementProduction(buildings) ==
    [r \in RESOURCE_KINDS |-> calcProductionPerHour[ProducerOf(r)][levelOf(buildings, ProducerOf(r))]]

\* Thousandths per hour; ratio^(level - 1), so an entry of level 0 still eats.
Eats ==
    [type \in BUILDING_TYPES |-> [level \in 0..TOP |->
        LET atOne == Buildings[type].eats * 100 * Speed.production
        IN  IF level = 0 THEN (atOne * upkeepRatio[2]) \div upkeepRatio[1]
            ELSE (atOne * (EatPower[level - 1] \div 100)) \div 1000]]

calcFoodUpkeepPerHour(buildings) ==
    SumFunction([type \in DOMAIN buildings |-> Eats[type][buildings[type]]])

\* Troops are bags of units: a function from types to counts.
calcTroopFoodUpkeepPerHour(troops) ==
    SumFunction([u \in DOMAIN troops |-> 1000 * Units[u].eats * troops[u]])

calcNetFoodPerHour(buildings, troops) ==
    calcSettlementProduction(buildings)["food"] - calcFoodUpkeepPerHour(buildings)
        - calcTroopFoodUpkeepPerHour(troops)

wouldStarveSettlement(buildings, type, targetLevel, troops) ==
    calcNetFoodPerHour(Over([t \in {type} |-> targetLevel], buildings), troops) < 0

wouldStarveWithTroops(buildings, troops, added) ==
    calcNetFoodPerHour(buildings, troops) - calcTroopFoodUpkeepPerHour(added) < 0

StoreCap == [level \in 0..TOP |-> Price(Rounded(storageBase * (CapPower[level] \div 10), SCALE \div 10))]

calcStorageCaps(buildings) ==
    [r \in RESOURCE_KINDS |->
        StoreCap[levelOf(buildings, IF r = "food" THEN "coldStorage" ELSE "warehouse")]]

missingPrerequisites(buildings, type) ==
    {need \in Buildings[type].requires : levelOf(buildings, need[1]) < need[2]}

calcInfluence(settlements) ==
    MapThenSumSet(LAMBDA s : MapThenSumSet(LAMBDA t : influenceWeight(t) * settlements[s][t],
                                           DOMAIN settlements[s]),
                  DOMAIN settlements)

settlementsAllowed(influence) ==
    Min({1 + Cardinality({t \in settlementThresholds : influence >= t}), maxSettlements})

------------------------------------------------------------------------------
canAfford(values, cost) == \A r \in RESOURCE_KINDS : values[r] >= cost[r]

subtractResources(values, cost) == [r \in RESOURCE_KINDS |-> values[r] - cost[r]]

calcNetRates(buildings, troops) ==
    [calcSettlementProduction(buildings) EXCEPT !["food"] = calcNetFoodPerHour(buildings, troops)]

\* The values after so many ticks.
settleResources(buildings, values, elapsed, troops) ==
    LET rates == calcNetRates(buildings, troops)
        caps == calcStorageCaps(buildings)
    IN  IF elapsed <= 0 THEN values
        ELSE [r \in RESOURCE_KINDS |->
                 LET grown == values[r] + rates[r] * elapsed
                 IN  IF rates[r] > 0 THEN Min({grown, Max({caps[r], values[r]})})
                     ELSE Max({0, grown})]

Never == -1   \* the code's null

msUntilAffordable(buildings, values, cost, troops) ==
    LET rates == calcNetRates(buildings, troops)
        caps == calcStorageCaps(buildings)
        short == {r \in RESOURCE_KINDS : values[r] < cost[r]}
    IN  CASE short = {} -> 0
          [] \E r \in short : rates[r] <= 0 \/ cost[r] > caps[r] -> Never
          [] OTHER -> Max({CeilDiv(cost[r] - values[r], rates[r]) : r \in short})

------------------------------------------------------------------------------
calcTrainCost(unit, count) == [r \in RESOURCE_KINDS |-> Price(Units[unit].cost[r] * count)]

\* In ticks.
calcTrainTime(unit, level) ==
    CeilDiv(Units[unit].sec * (DrillPower[level - 1] \div 100), 1000 * Speed.training * 600)

canFactionTrain(unit, faction) ==
    Units[unit].trainedIn # "none" /\ Units[unit].faction \in {"any", faction}
=============================================================================
