------------------------------ MODULE Catalogue ------------------------------
(***************************************************************************)
(* The balance data of a round: what the buildings and the units are, and  *)
(* the curves their prices, times and yields follow.  Rates per hour are   *)
(* those of the default configuration, decimal fractions written as whole  *)
(* numbers of tenths or hundredths where a name says so.                   *)
(***************************************************************************)
EXTENDS Integers, Sequences, SequencesExt, FiniteSets, FiniteSetsExt, Functions

RESOURCE_KINDS == {"scrap", "fuel", "electronics", "food"}
Bundle(scrap, fuel, electronics, food) ==
    [scrap |-> scrap, fuel |-> fuel, electronics |-> electronics, food |-> food]
emptyResources == Bundle(0, 0, 0, 0)

\* f, and g where f has no entry.
Over(f, g) == [x \in DOMAIN f \cup DOMAIN g |-> IF x \in DOMAIN f THEN f[x] ELSE g[x]]

------------------------------------------------------------------------------
\* Buildings.  eats: tenths of Food; makes: << resource, base per hour >> or << >>;
\* requires: << building, level >>.
Row(family, cost, sec, eats, requires, makes) ==
    [family |-> family, cost |-> cost, sec |-> sec, eats |-> eats,
     requires |-> requires, makes |-> makes]

Producers == [
    scrapYard |-> Row("resource", Bundle(40, 25, 10, 20), 260, 1, {}, << "scrap", 5 >>),
    fuelRefinery |-> Row("resource", Bundle(50, 20, 10, 20), 280, 1, {}, << "fuel", 5 >>),
    electronicsWorkshop |-> Row("resource", Bundle(70, 60, 20, 30), 450, 1,
                                {<< "commandCenter", 3 >>}, << "electronics", 3 >>),
    greenhouseFarm |-> Row("resource", Bundle(45, 25, 5, 15), 300, 0, {}, << "food", 6 >>)]

Facilities == [
    commandCenter |-> Row("functional", Bundle(70, 40, 30, 20), 2500, 2, {}, << >>),
    warehouse |-> Row("functional", Bundle(130, 60, 20, 20), 2000, 2, {}, << >>),
    coldStorage |-> Row("functional", Bundle(120, 50, 20, 20), 1800, 2, {}, << >>),
    hiddenCache |-> Row("functional", Bundle(40, 20, 10, 10), 900, 0, {}, << >>),
    wall |-> Row("functional", Bundle(110, 30, 0, 20), 1000, 0, {<< "commandCenter", 1 >>}, << >>)]

Institutions == [
    barracks |-> Row("functional", Bundle(210, 140, 40, 60), 2000, 0,
                     {<< "commandCenter", 3 >>}, << >>),
    market |-> Row("functional", Bundle(80, 70, 60, 40), 1700, 2,
                   {<< "commandCenter", 3 >>, << "warehouse", 3 >>}, << >>),
    machineShop |-> Row("functional", Bundle(220, 260, 120, 70), 2800, 3,
                        {<< "commandCenter", 5 >>, << "barracks", 3 >>, << "fuelRefinery", 5 >>}, << >>),
    radioTower |-> Row("functional", Bundle(180, 120, 200, 50), 2600, 3,
                       {<< "commandCenter", 5 >>, << "electronicsWorkshop", 3 >>}, << >>)]

Buildings == Over(Producers, Over(Facilities, Institutions))
BUILDING_TYPES == DOMAIN Buildings
maxLevel(type) == IF type = "hiddenCache" THEN 10 ELSE 20
influenceWeight(type) == IF type = "commandCenter" THEN 3 ELSE 1

------------------------------------------------------------------------------
\* Units.  eats: Food per hour; in: the building that trains it, "none" for wildlife.
Soldier(faction, cost, sec, eats, in) ==
    [faction |-> faction, cost |-> cost, sec |-> sec, eats |-> eats, trainedIn |-> in]

Raiders == [
    brute |-> Soldier("raiders", Bundle(95, 15, 0, 25), 300, 1, "barracks"),
    torcher |-> Soldier("raiders", Bundle(70, 30, 10, 25), 380, 1, "barracks"),
    lookout |-> Soldier("raiders", Bundle(120, 40, 20, 30), 1200, 1, "barracks"),
    biker |-> Soldier("raiders", Bundle(180, 230, 50, 60), 1150, 3, "machineShop"),
    ramTruck |-> Soldier("raiders", Bundle(300, 180, 60, 80), 1800, 3, "machineShop")]

Engineers == [
    exoTrooper |-> Soldier("engineers", Bundle(130, 45, 30, 30), 420, 1, "barracks"),
    bulwark |-> Soldier("engineers", Bundle(115, 35, 40, 30), 440, 1, "barracks"),
    surveyorDrone |-> Soldier("engineers", Bundle(100, 80, 60, 20), 1600, 1, "barracks"),
    armoredQuad |-> Soldier("engineers", Bundle(230, 290, 95, 70), 1350, 3, "machineShop"),
    railSling |-> Soldier("engineers", Bundle(330, 200, 170, 90), 2100, 4, "machineShop")]

Nomads == [
    skirmisher |-> Soldier("nomads", Bundle(105, 35, 15, 30), 360, 1, "barracks"),
    hunterSniper |-> Soldier("nomads", Bundle(85, 25, 20, 25), 340, 1, "barracks"),
    falconer |-> Soldier("nomads", Bundle(110, 50, 30, 30), 1300, 1, "barracks"),
    duneBuggy |-> Soldier("nomads", Bundle(175, 245, 55, 60), 1250, 2, "machineShop"),
    ballistaWagon |-> Soldier("nomads", Bundle(295, 175, 95, 80), 1900, 3, "machineShop")]

Neutral == [
    settler |-> Soldier("any", Bundle(900, 700, 400, 500), 4000, 1, "commandCenter"),
    feralDog |-> Soldier("any", emptyResources, 0, 0, "none"),
    scavengerGang |-> Soldier("any", emptyResources, 0, 0, "none")]

Units == Over(Over(Raiders, Engineers), Over(Nomads, Neutral))
UNIT_TYPES == DOMAIN Units

------------------------------------------------------------------------------
\* Curves, as fractions << numerator, denominator >>, and speeds.
Speed == [build |-> 5, production |-> 5, training |-> 5]
costRatio == [resource |-> << 167, 100 >>, functional |-> << 128, 100 >>]
timeRatio == [resource |-> << 135, 100 >>, functional |-> << 128, 100 >>]
storageBase == 4000
storageRatio == << 13, 10 >>
buildTimeRatio == << 964, 1000 >>
buildingTimeRatio == << 91, 100 >>
upkeepRatio == << 158, 100 >>
settlementThresholds == {90, 160}
maxSettlements == 3
\* Growth of a producer from level i to i + 1: from 1.5 down to 1.28 over 18 steps.
StepRatio(i) == << 1350 - 11 * (i - 1), 900 >>
=============================================================================
