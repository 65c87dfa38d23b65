------------------------------- MODULE Warfare -------------------------------
(***************************************************************************)
(* What an attack does to a settlement, end to end: the legality of the    *)
(* order, the arrival that fights, loots, razes and reports, the scouting, *)
(* the hunger that kills, and the return that unloads the spoils.  The     *)
(* marches themselves (cancel, recall, evict, the awayTroops mirror) are   *)
(* in Movements and the schedule of starvation in Starvation; here every   *)
(* outcome those modules leave open is computed, by Combat.                *)
(*                                                                         *)
(* One settlement is attacked (town), from one other (home).  Resources    *)
(* settle at every hour, which is what any number of lazy settlements      *)
(* adds up to.                                                             *)
(***************************************************************************)
EXTENDS Combat

CONSTANTS
    Movement,      \* the movement documents there may be, numbers
    Formation,     \* the armies worth sending, a set of troop lists
    Supporter,     \* keys of the contingents stationed in town, numbers > 0
    Building,      \* the building types the settlement has
    Garrison, Guests, HomeTroops,  \* troops at the start: town, guests, home
    Outing,        \* what the town may have on the march then, a set of troop lists
    Stock, HomeStock, Levels,      \* resources and building levels at the start
    Production,    \* resource other than food -> its hourly production
    FoodOutput,    \* level of the farm -> hourly production of food
    FoodUpkeep,    \* building -> level -> what it eats per hour
    Cap,           \* resource -> level of its store -> storage cap
    StoreOf,       \* resource -> the building that stores it
    Roll,          \* movement -> its battleRoll, -1 .. 1
    Hours          \* bound: the hours that pass

(* Levels only fall here, so the tables are read up to the first levels.   *)
ASSUME WarfareAssumption ==
    /\ IsFiniteSet(Movement) /\ IsFiniteSet(Supporter) /\ Supporter \subseteq Nat \ {0}
    /\ Garrison \in Troops /\ HomeTroops \in Troops /\ Formation \subseteq Troops
    /\ Guests \in [Supporter -> Troops] /\ Outing \subseteq Troops
    /\ IsFiniteSet(Building)
    /\ {"wall", "greenhouseFarm", "hiddenCache", "commandCenter"} \subseteq Building
    /\ Levels \in [Building -> Nat] /\ StoreOf \in [RESOURCE_KINDS -> Building]
    /\ CommandCenterFloor \in 0 .. Levels["commandCenter"]
    /\ "food" \in RESOURCE_KINDS
    /\ Stock \in [RESOURCE_KINDS -> Nat] /\ HomeStock \in [RESOURCE_KINDS -> Nat]
    /\ \A r \in RESOURCE_KINDS \ {"food"} : Production[r] \in Nat
    /\ \A r \in RESOURCE_KINDS : \A l \in 0 .. Levels[StoreOf[r]] : Cap[r][l] \in Nat
    /\ \A l \in 0 .. Levels["greenhouseFarm"] : FoodOutput[l] \in Nat
    /\ \A b \in Building : \A l \in 0 .. Levels[b] : FoodUpkeep[b][l] \in Nat
    /\ \A l \in 1 .. Levels["hiddenCache"] : CacheProtection[l] \in Nat
    /\ Hours \in Nat

VARIABLES
    now,        \* the hour
    town,       \* [values, buildings, troops, awayTroops, stationed, lastTick]
    home,       \* [values, troops, awayTroops]
    movement,   \* movement -> its document
    reports,    \* << account, type, movement or hour >> of every report written
    spoils,     \* movement -> the loot lines of the attacker's report
    plundered   \* history: what attacks have taken out of the stores they reached

vars == << now, town, home, movement, reports, spoils, plundered >>

Nothing == [r \in RESOURCE_KINDS |-> 0]
Absent == [status |-> "none", to |-> "town", type |-> "raid", units |-> Nobody, survivors |-> Nobody,
           siegeTarget |-> "none", loot |-> Nothing]

(* The starvation tick of the hour that is running has not been applied. *)
Init ==
    /\ now = 0
    /\ \E units \in Outing :
          town = [values |-> Stock, buildings |-> Levels, troops |-> Garrison,
                  awayTroops |-> units, stationed |-> Guests, lastTick |-> 0]
    /\ home = [values |-> HomeStock, troops |-> HomeTroops, awayTroops |-> Nobody]
    /\ movement = [m \in Movement |-> Absent]
    /\ reports = {}
    /\ spoils = [m \in Movement |-> [taken |-> Nothing, delivered |-> Nothing, lost |-> Nothing]]
    /\ plundered = Nothing

(***************************************************************************)
(* Resources of the town.                                                  *)
(***************************************************************************)
calcStorageCaps(buildings) == [r \in RESOURCE_KINDS |-> Cap[r][buildings[StoreOf[r]]]]

calcFoodUpkeepPerHour(buildings) ==
    SumFunction([b \in Building |-> FoodUpkeep[b][buildings[b]]])

(* Buildings eat, and everybody does: guests, those at home, those away.   *)
calcNetFoodPerHour(t) ==
    FoodOutput[t.buildings["greenhouseFarm"]] - calcFoodUpkeepPerHour(t.buildings)
        - calcTroopFoodUpkeepPerHour(unionTroops(t.stationed))
        - calcTroopFoodUpkeepPerHour(t.troops) - calcTroopFoodUpkeepPerHour(t.awayTroops)

settleResources(t) ==
    [r \in RESOURCE_KINDS |->
        LET rate == IF r = "food" THEN calcNetFoodPerHour(t) ELSE Production[r]
            grown == t.values[r] + rate
        IN  IF rate > 0 THEN Min({grown, Max({calcStorageCaps(t.buildings)[r], t.values[r]})})
            ELSE Max({0, grown})]

Elapse ==
    /\ now < Hours
    /\ now' = now + 1
    /\ town' = [town EXCEPT !.values = settleResources(town)]
    /\ UNCHANGED << home, movement, reports, spoils, plundered >>

(***************************************************************************)
(* sendMovement, for scouting and attacks: roles, attack power, the siege  *)
(* target (required with siege units, forgotten without), availability.    *)
(***************************************************************************)
RolesAllowed(type, units) ==
    \A t \in Types : units[t] > 0 =>
        /\ type = "scout" <=> Unit[t].role = "scout"
        /\ Unit[t].role \notin {"wildlife", "settler"}
        /\ Unit[t].role = "siege" => type = "assault"

HasSiegeUnit(units) == \E t \in Types : units[t] > 0 /\ Unit[t].role = "siege"

MaySend(type, units, siegeTarget) ==
    /\ units # Nobody
    /\ HasSiegeUnit(units) <=> siegeTarget # "none"
    /\ RolesAllowed(type, units)
    /\ type # "scout" => atkPtsBase(units) > 0
    /\ \A t \in Types : units[t] <= home.troops[t]

SendMovement(m, to, type, units, siegeTarget) ==
    /\ movement[m].status = "none"
    /\ MaySend(type, units, siegeTarget)
    /\ home' = [home EXCEPT !.troops = Minus(@, units), !.awayTroops = Plus(@, units)]
    /\ movement' = [movement EXCEPT ![m] = [Absent EXCEPT
                        !.status = "outbound", !.to = to, !.type = type,
                        !.units = units, !.siegeTarget = siegeTarget]]
    /\ UNCHANGED << now, town, reports, spoils, plundered >>

(* What the town has on the march at the start comes home at some time,    *)
(* bringing nothing along.                                                 *)
TownReturn ==
    /\ town.awayTroops # Nobody
    /\ town' = [town EXCEPT !.troops = Plus(@, town.awayTroops), !.awayTroops = Nobody]
    /\ UNCHANGED << now, home, movement, reports, spoils, plundered >>

(***************************************************************************)
(* The attack arrives.                                                     *)
(***************************************************************************)
HOME_CONTINGENT_KEY == 0
Defender == HOME_CONTINGENT_KEY \* who is told: the owner of the town,
Attacker == -1                  \* the owner of the army, or a supporter's key
Defenders == [k \in Supporter \cup {HOME_CONTINGENT_KEY} |->
                 IF k = HOME_CONTINGENT_KEY THEN town.troops ELSE town.stationed[k]]

Battle(m) == resolveBattle(movement[m].units, Defenders, town.buildings["wall"],
                           movement[m].type, Roll[m])

(* The levels a siege pass leaves; no siege target, no pass. *)
LevelsAfterSiege(m, battle) ==
    LET target == movement[m].siegeTarget
        level == IF target \in Building THEN town.buildings[target] ELSE 0
        siege == resolveSiegePass(battle, town.buildings["wall"], target, level)
    IN  IF movement[m].type # "assault" \/ target = "none" THEN town.buildings
        ELSE [b \in Building |-> CASE b = "wall" -> siege.wallLevelAfter
                                   [] b # "wall" /\ b = target -> siege.targetLevelAfter
                                   [] OTHER -> town.buildings[b]]

(* What the army left alive: it turns back with its spoils, or is gone. *)
AfterBattle(m, survivors, loot) ==
    movement' = [movement EXCEPT ![m].survivors = survivors, ![m].loot = loot,
                     ![m].status = IF survivors = Nobody THEN "done" ELSE "returning"]

AttackReports(m) == {<< Attacker, movement[m].type, m >>}

DefenceReports(m, buildings) ==
    {<< Defender, "defense", m >>}
    \cup {<< Defender, "buildingDestroyed", m >> : b \in {b \in Building :
              buildings[b] # town.buildings[b]}}

(* Guests are told of their own losses only, those who lost anybody.       *)
TellsOnlyTheWiped(m, battle) ==
    {<< k, "supportLoss", m >> : k \in {k \in Supporter :
        battle.defenders[k] = town.stationed[k] /\ battle.defenders[k] # Nobody}}

SupportLossReports(m, battle) ==
    {<< k, "supportLoss", m >> : k \in {k \in Supporter : battle.defenders[k] # Nobody}}

BattleArrives(m) ==
    /\ movement[m].status = "outbound" /\ movement[m].to = "town"
    /\ movement[m].type # "scout"
    /\ LET battle == Battle(m)
           loot == resolveLoot(battle, town.values, town.buildings["hiddenCache"])
           buildings == LevelsAfterSiege(m, battle)
           left == [r \in RESOURCE_KINDS |-> town.values[r] - loot[r]]
           caps == calcStorageCaps(buildings)
       IN  /\ town' = [town EXCEPT
                  !.troops = Minus(@, battle.defenders[HOME_CONTINGENT_KEY]),
                  !.stationed = [k \in Supporter |-> Minus(@[k], battle.defenders[k])],
                  !.buildings = buildings,
                  !.values = IF movement[m].siegeTarget = "none" THEN left
                             ELSE [r \in RESOURCE_KINDS |-> Min({left[r], caps[r]})]]
           /\ AfterBattle(m, battle.survivors, loot)
           /\ home' = [home EXCEPT !.awayTroops = Minus(@, battle.losses)]
           /\ reports' = reports \cup AttackReports(m) \cup DefenceReports(m, buildings)
                                \cup SupportLossReports(m, battle)
           /\ spoils' = [spoils EXCEPT ![m].taken = loot]
           /\ plundered' = [r \in RESOURCE_KINDS |-> plundered[r] + town.values[r] - left[r]]
    /\ UNCHANGED now

(* The scouts arrive.  Towers are not modelled: the tier is the base one. *)
ScoutArrives(m) ==
    /\ movement[m].status = "outbound" /\ movement[m].to = "town"
    /\ movement[m].type = "scout"
    /\ LET result == resolveScouting(movement[m].units, unionTroops(Defenders), 0, 0)
       IN  /\ AfterBattle(m, result.survivors, Nothing)
           /\ home' = [home EXCEPT !.awayTroops = Minus(@, result.losses)]
           /\ reports' = reports
                  \cup {<< Attacker, IF result.intel = "none" THEN "scoutFailed" ELSE "scout", m >>}
                  \cup (IF result.detected THEN {<< Defender, "scoutDetected", m >>} ELSE {})
    /\ UNCHANGED << now, town, spoils, plundered >>

(***************************************************************************)
(* The return: survivors go home, loot is unloaded up to the storage caps, *)
(* and what does not fit is written to the report of the attack.           *)
(***************************************************************************)
creditResourcesClamped(values, amount) ==
    [r \in RESOURCE_KINDS |-> Min({Cap[r][0], values[r] + amount[r]})]

(* A return that does not mark the movement done credits it again.         *)
ReturnUnmarked(m) ==
    /\ movement[m].status = "returning"
    /\ LET credited == creditResourcesClamped(home.values, movement[m].loot)
           delivered == [r \in RESOURCE_KINDS |-> credited[r] - home.values[r]]
       IN  /\ home' = [home EXCEPT !.values = credited]
           /\ spoils' = [spoils EXCEPT ![m].delivered = delivered]
    /\ UNCHANGED << now, town, movement, reports, plundered >>

MovementReturn(m) ==
    /\ movement[m].status = "returning"
    /\ LET credited == creditResourcesClamped(home.values, movement[m].loot)
           delivered == [r \in RESOURCE_KINDS |-> credited[r] - home.values[r]]
       IN  /\ home' = [values |-> credited,
                       troops |-> Plus(home.troops, movement[m].survivors),
                       awayTroops |-> Minus(home.awayTroops, movement[m].survivors)]
           /\ spoils' = [spoils EXCEPT ![m].delivered = delivered,
                ![m].lost = [r \in RESOURCE_KINDS |-> movement[m].loot[r] - delivered[r]]]
    /\ movement' = [movement EXCEPT ![m].status = "done"]
    /\ UNCHANGED << now, town, reports, plundered >>

(***************************************************************************)
(* The starvation tick of one hour: with no Food stored and less coming in *)
(* than is eaten, guests and troops at home die until the rest can live,   *)
(* or nobody is left who could die: who is away and what is built eats on. *)
(***************************************************************************)
Pools(t) == [p \in ({0} \X Supporter \X Types) \cup ({1} \X {HOME_CONTINGENT_KEY} \X Types) |->
                IF p[1] = 0 THEN t.stationed[p[2]][p[3]] ELSE t.troops[p[3]]]

Starved(killed) ==
    [town EXCEPT
        !.troops = [t \in Types |-> @[t] - killed[<< 1, HOME_CONTINGENT_KEY, t >>]],
        !.stationed = [k \in Supporter |-> [t \in Types |-> @[k][t] - killed[<< 0, k, t >>]]],
        !.lastTick = now]

StarvationTick ==
    /\ town.lastTick < now
    /\ town.values["food"] = 0
    /\ calcNetFoodPerHour(town) < 0
    /\ \E killed \in {resolveStarvation(-calcNetFoodPerHour(town), Pools(town))} :
          LET dead == {p \in DOMAIN killed : killed[p] > 0}
          IN  /\ town' = Starved(killed)
              /\ reports' = reports
                     \cup {<< Defender, "starvation", now >> : p \in dead}
                     \cup {<< p[2], "starvation", now >> : p \in {q \in dead : q[1] = 0}}
    /\ UNCHANGED << now, home, movement, spoils, plundered >>

Next ==
    \/ Elapse
    \/ \E m \in Movement, type \in {"scout", "raid", "assault"}, units \in Formation,
          target \in Building \cup {"none"} : SendMovement(m, "town", type, units, target)
    \/ \E m \in Movement : BattleArrives(m) \/ ScoutArrives(m) \/ MovementReturn(m)
    \/ TownReturn \/ StarvationTick

Spec == Init /\ [][Next]_vars

(***************************************************************************)
(* Properties.                                                             *)
(***************************************************************************)

(* Loot is neither lost nor minted between the stores attacked and the     *)
(* attacker's: what attacks took is on the way, credited, or reported as   *)
(* not fitting, and a finished attack's report adds up (battle-arrival     *)
(* and movement-return, two documents and one report written in two        *)
(* transactions, delivered again at will).                                 *)
Underway(m) == IF movement[m].status = "returning" THEN movement[m].loot ELSE Nothing
SpoilsConserved ==
    /\ \A r \in RESOURCE_KINDS :
          plundered[r] = SumFunction([m \in Movement |-> Underway(m)[r] + spoils[m].lost[r]])
                         + home.values[r] - HomeStock[r]
    /\ \A m \in Movement : movement[m].status = "done" =>
          \A r \in RESOURCE_KINDS :
              spoils[m].taken[r] = spoils[m].delivered[r] + spoils[m].lost[r]

(* Nobody loses troops, levels or stored goods to an event without a       *)
(* report of that event: the owner, and every guest for his own part       *)
(* (battle-arrival writeReports, starvation-tick writeReports).            *)
Shrinks(a, b) == \E x \in DOMAIN a : b[x] < a[x]
NewlyTold(who) == \E rep \in reports' \ reports : rep[1] = who
NoSilentLoss ==
    [][now' = now =>
         /\ \A k \in Supporter : Shrinks(town.stationed[k], town.stationed'[k]) => NewlyTold(k)
         /\ (\/ Shrinks(Plus(town.troops, town.awayTroops), Plus(town'.troops, town'.awayTroops))
             \/ Shrinks(town.buildings, town'.buildings)
             \/ Shrinks(town.values, town'.values)
             \/ \E k \in Supporter : Shrinks(town.stationed[k], town'.stationed[k]))
            => NewlyTold(Defender)
         /\ Shrinks(home.awayTroops, home'.awayTroops) /\ home'.troops = home.troops
            => NewlyTold(Attacker)]_vars

(* An attack that does not beat the defence, or that nobody survives,      *)
(* carries nothing off and razes nothing; a store it changes all the same  *)
(* was above its cap (a refund may fill it so) and is cut back to it.  No  *)
(* building falls while the wall still stands (resolveLoot and             *)
(* resolveSiegePass behind the battle, computeSiegeOutcome's clamp).       *)
Beaten(m) == LET odds == BattleOdds(movement[m].units, unionTroops(Defenders),
                                    town.buildings["wall"], Roll[m])
             IN  ~(odds[1] < odds[2])
SpoilsNeedVictory ==
    [][/\ \A m \in Movement :
            /\ movement[m].type # "scout" /\ movement[m].to = "town"
            /\ movement[m].status = "outbound" /\ movement'[m].status # "outbound"
            /\ Beaten(m) \/ movement'[m].survivors = Nobody
            => /\ movement'[m].loot = Nothing /\ town'.buildings = town.buildings
               /\ \A r \in RESOURCE_KINDS : town'.values[r] # town.values[r] =>
                    town'.values[r] = calcStorageCaps(town.buildings)[r]
       /\ \A b \in Building \ {"wall"} :
            town'.buildings[b] < town.buildings[b] => town'.buildings["wall"] = 0
       /\ town'.buildings["commandCenter"] >= CommandCenterFloor]_vars

(* Hunger takes no more than it must and in the order promised: nobody on  *)
(* the march dies, no garrison while a guest eats, no settler while        *)
(* anybody else of his side does.  Either the living can be fed but could  *)
(* not with one more of those who died, or they cannot, because nobody is  *)
(* left who eats but buildings and marchers (starvation.ts).               *)
StarvesInOrder ==
    [][town'.lastTick # town.lastTick =>
       LET before == Pools(town)
           after == Pools(town')
           all == {p \in DOMAIN before : before[p] > 0}
           dead == {p \in all : after[p] < before[p]}
           eaters == {p \in all : after[p] > 0 /\ Unit[p[3]].upkeep > 0}
       IN  /\ town'.awayTroops = town.awayTroops
           /\ \A p \in dead, r \in eaters :
                /\ p[1] <= r[1]
                /\ p[1] = r[1] /\ Unit[p[3]].role = "settler" => Unit[r[3]].role = "settler"
           /\ \/ calcNetFoodPerHour(town') < 0 /\ eaters = {}
              \/ /\ calcNetFoodPerHour(town') >= 0
                 /\ \E p \in dead : calcNetFoodPerHour(town') < Unit[p[3]].upkeep]_vars
=============================================================================
