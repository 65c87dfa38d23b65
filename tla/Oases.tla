------------------------------- MODULE Oases -------------------------------
(***************************************************************************)
(* The unclaimed oases beside the attacked settlement: a wildlife garrison *)
(* that grows back a unit per whole interval and a Food pool that grows    *)
(* continuously, both settled lazily, only when an army or a scout gets    *)
(* there.  Battle, loot, return and report are those of Warfare, without   *)
(* wall, siege, guests or an owner to tell.                                *)
(***************************************************************************)
EXTENDS Warfare

CONSTANTS
    Target,         \* oasisTargetDefenders: the garrison the oasis grows towards
    Interval,       \* oasis.regen.defenderIntervalMs, in hours
    FoodPerHour, FoodCap, \* oasis.regen
    Excursion       \* the armies sent to the oasis

ASSUME OasesAssumption ==
    /\ Target \in Troops /\ Excursion \subseteq Troops
    /\ Interval \in Nat \ {0} /\ FoodPerHour \in Nat /\ FoodCap \in Nat

VARIABLES
    oasis,          \* [defenders, food, lastRegenAt, lastDefenderRegenAt]
    lastBattle      \* history: oasis as the last battle, or the first contact, left it

oasisVars == << oasis, lastBattle >>
allVars == << vars, oasisVars >>

Never == -1 \* lastRegenAt of an oasis nobody has touched

OasisInit ==
    /\ Init
    /\ oasis = [defenders |-> Nobody, food |-> 0, lastRegenAt |-> Never,
                lastDefenderRegenAt |-> Never]
    /\ lastBattle = oasis

settleOasisFood(o, at) ==
    IF at <= o.lastRegenAt THEN o.food
    ELSE Min({o.food + FoodPerHour * (at - o.lastRegenAt), Max({FoodCap, o.food})})

(* The clock that forgets: every settlement restarts the interval.         *)
RegrowthRestarts(o, at) ==
    [defenders |-> IF at <= o.lastDefenderRegenAt THEN o.defenders
                   ELSE [t \in Types |-> Min({Target[t], o.defenders[t]
                                + (at - o.lastDefenderRegenAt) \div Interval})],
     stamp |-> at]

(* Only whole intervals are credited, and the clock moves by those only:   *)
(* the rest of an interval stays for the next to settle.                   *)
settleOasisDefenders(o, at) ==
    LET whole == (at - o.lastDefenderRegenAt) \div Interval
    IN  IF at <= o.lastDefenderRegenAt
        THEN [defenders |-> o.defenders, stamp |-> at]
        ELSE [defenders |-> IF whole <= 0 THEN o.defenders
                            ELSE [t \in Types |-> Min({Target[t], o.defenders[t] + whole})],
              stamp |-> o.lastDefenderRegenAt + whole * Interval]

settleOasis(o, at) ==
    IF o.lastRegenAt = Never
    THEN [defenders |-> Target, food |-> 0, lastRegenAt |-> at, lastDefenderRegenAt |-> at]
    ELSE [defenders |-> settleOasisDefenders(o, at).defenders, food |-> settleOasisFood(o, at),
          lastRegenAt |-> at, lastDefenderRegenAt |-> settleOasisDefenders(o, at).stamp]

(* settleOasisDocUnchecked, the preamble of both arrivals: a document      *)
(* settled at this instant already is not written.                         *)
Settled == IF oasis.lastRegenAt # Never /\ now <= oasis.lastRegenAt THEN oasis
           ELSE settleOasis(oasis, now)
Contact(o) == IF oasis.lastRegenAt = Never THEN o ELSE lastBattle

OasisBattleArrives(m) ==
    /\ movement[m].status = "outbound" /\ movement[m].to = "oasis"
    /\ movement[m].type # "scout"
    /\ LET battle == resolveBattle(movement[m].units,
                         [k \in {HOME_CONTINGENT_KEY} |-> Settled.defenders],
                         0, movement[m].type, Roll[m])
           loot == resolveLoot(battle, [Nothing EXCEPT !["food"] = Settled.food], 0)
       IN  /\ oasis' = [Settled EXCEPT
                  !.defenders = Minus(@, battle.defenders[HOME_CONTINGENT_KEY]),
                  !.food = @ - loot["food"]]
           /\ AfterBattle(m, battle.survivors, loot)
           /\ home' = [home EXCEPT !.awayTroops = Minus(@, battle.losses)]
           /\ spoils' = [spoils EXCEPT ![m].taken = loot]
           /\ plundered' = [plundered EXCEPT !["food"] = @ + Settled.food - oasis'.food]
    /\ reports' = reports \cup {<< Attacker, "oasisRaid", m >>}
    /\ lastBattle' = oasis'
    /\ UNCHANGED << now, town >>

(* Scouts see everything and nobody sees them.                             *)
OasisScoutArrives(m) ==
    /\ movement[m].status = "outbound" /\ movement[m].to = "oasis"
    /\ movement[m].type = "scout"
    /\ oasis' = Settled
    /\ lastBattle' = Contact(oasis')
    /\ AfterBattle(m, movement[m].units, Nothing)
    /\ reports' = reports \cup {<< Attacker, "scout", m >>}
    /\ UNCHANGED << now, town, home, spoils, plundered >>

OasisNext ==
    \/ Next /\ UNCHANGED oasisVars
    \/ \E m \in Movement, type \in {"scout", "raid", "assault"}, units \in Excursion :
          SendMovement(m, "oasis", type, units, "none") /\ UNCHANGED oasisVars
    \/ \E m \in Movement : OasisBattleArrives(m) \/ OasisScoutArrives(m)

OasisSpec == OasisInit /\ [][OasisNext]_allVars

(* However often an oasis is looked at, it is found as if nobody had come  *)
(* since the last battle: settling on the way loses no part of an interval *)
(* and mints neither animals nor Food, and no garrison outgrows its target *)
(* (settleOasis, its two clocks, and settleDoc's early return).            *)
Found(o) == << settleOasis(o, now).defenders, settleOasis(o, now).food >>
VisitsChangeNothing ==
    oasis.lastRegenAt # Never =>
        /\ Found(oasis) = Found(lastBattle)
        /\ \A t \in Types : oasis.defenders[t] <= Target[t]
        /\ oasis.food <= FoodCap
=============================================================================
