-------------------------------- MODULE Client --------------------------------
(***************************************************************************)
(* The base screen against the server.  The server keeps the settlement    *)
(* document and decides every order by it; the client keeps the last reply *)
(* it received, advances it on its own clock by the shared formulas, and   *)
(* decides by its own copy of the rules which orders to offer, what stands *)
(* in the way of the others, and when they will be affordable.             *)
(*                                                                         *)
(* Replies arrive a tick or more late and in any order; levels and troops  *)
(* also change behind the client's back.  How queues run is BuildQueue's   *)
(* and TrainingQueue's subject, who wins battles Warfare's: here they only *)
(* change the document under the screen.                                   *)
(***************************************************************************)
EXTENDS Economy

CONSTANTS
    Factions,      \* the accounts' factions worth looking at, "none" among them
    Start,         \* the buildings of the settlement at the beginning
    Stock,         \* its stored resources, in Grains
    Underway,      \* its build queue
    Wanted,        \* bound: the building types whose orders are sent
    Drafts,        \* bound: the training orders sent, << unit, count >>
    Guests,        \* the contingent that arrives, a bag of units
    Razed,         \* the building types a siege strikes
    InFlight,      \* bound: replies on their way
    Ticks          \* bound: the last tick

\* Documents have entries for some of the types.
IsLevels(f) == DOMAIN f \subseteq BUILDING_TYPES /\ f \in [DOMAIN f -> 0..TOP]
IsTroops(f) == DOMAIN f \subseteq UNIT_TYPES /\ f \in [DOMAIN f -> Nat]
BuildItem == [type : BUILDING_TYPES, targetLevel : 1..TOP, completesAt : Int]

ASSUME ClientAssumption ==
    /\ IsLevels(Start) /\ Stock \in [RESOURCE_KINDS -> Nat]
    /\ Underway \in Seq(BuildItem)
    /\ Drafts \subseteq UNIT_TYPES \X (Nat \ {0}) /\ IsTroops(Guests)
    /\ Wanted \subseteq BUILDING_TYPES /\ Razed \subseteq DOMAIN Start
    /\ Ticks \in Nat

ACTIVE_BUILD_SLOTS == 1
WAITING_QUEUE_SLOTS == 2
MAX_ACTIVE_ORDERS_PER_BUILDING == 1
MAX_TRAIN_COUNT == 200

VARIABLES
    now,       \* the tick
    faction,   \* the account's
    doc,       \* the settlement document
    replies,   \* replies on their way to the client
    view,      \* the reply the client shows: [doc, serverTime]
    shownAt    \* the tick it arrived at

clientVars == << now, faction, doc, replies, view, shownAt >>

NoTroops == [u \in {} |-> 0]
Bag(unit, count) == [u \in {unit} |-> count]
Joined(a, b) ==
    [u \in DOMAIN a \cup DOMAIN b |->
        (IF u \in DOMAIN a THEN a[u] ELSE 0) + (IF u \in DOMAIN b THEN b[u] ELSE 0)]

\* Home, away and stationed troops all eat here: upkeepTroopsOf, the server's.
upkeepTroopsOf(d) == Joined(Joined(d.troops, d.awayTroops), d.stationedTroops)

HomeOnly(d) == d.troops  \* fault: the screen forgets those who march and those who visit

upkeepTroopsShown(d) == Joined(Joined(d.troops, d.awayTroops), d.stationedTroops)

buildSettlementStateView(d, at) == [doc |-> d, serverTime |-> at]

ClientInit ==
    /\ now = 0
    /\ faction \in Factions
    /\ doc = [buildings |-> Start, values |-> Stock, lastCalcAt |-> 0, buildQueue |-> Underway,
              troops |-> NoTroops, awayTroops |-> NoTroops, stationedTroops |-> NoTroops,
              trainingQueue |-> << >>]
    /\ replies = {}
    /\ view = buildSettlementStateView(doc, 0)
    /\ shownAt = 0

------------------------------------------------------------------------------
(* The server. *)

settleDoc(d, at) ==
    IF at - d.lastCalcAt <= 0 THEN d
    ELSE [d EXCEPT !.values = settleResources(d.buildings, d.values, at - d.lastCalcAt,
                                              upkeepTroopsOf(d)),
                   !.lastCalcAt = at]

TargetLevel(d, type) ==
    levelOf(d.buildings, type)
        + Cardinality({k \in DOMAIN d.buildQueue : d.buildQueue[k].type = type}) + 1

\* The checks of startBuild on a settled document, in their order.
BuildRefusal(d, type) ==
    IF TargetLevel(d, type) > maxLevel(type) THEN "maxLevelReached"
    ELSE IF missingPrerequisites(d.buildings, type) # {} THEN "prerequisitesNotMet"
    ELSE IF Len(d.buildQueue) >= ACTIVE_BUILD_SLOTS + WAITING_QUEUE_SLOTS THEN "queueFull"
    ELSE IF wouldStarveSettlement(d.buildings, type, TargetLevel(d, type), upkeepTroopsOf(d))
         THEN "wouldStarve"
    ELSE IF \E r \in RESOURCE_KINDS :
                calcBuildCost[type][TargetLevel(d, type)][r] > calcStorageCaps(d.buildings)[r]
         THEN "exceedsStorage"
    ELSE IF ~canAfford(d.values, calcBuildCost[type][TargetLevel(d, type)])
         THEN "insufficientResources"
    ELSE "accepted"

\* The checks of trainUnits, in their order.
TrainRefusal(d, unit, count) ==
    LET building == Units[unit].trainedIn
        same == {k \in DOMAIN d.trainingQueue :
                    Units[d.trainingQueue[k].unitType].trainedIn = building}
    IN  IF faction = "none" THEN "noFaction"
        ELSE IF ~canFactionTrain(unit, faction) THEN "wrongFaction"
        ELSE IF count <= 0 \/ count > MAX_TRAIN_COUNT THEN "invalidCount"
        ELSE IF levelOf(d.buildings, building) < 1 THEN "buildingMissing"
        ELSE IF Cardinality(same) >= MAX_ACTIVE_ORDERS_PER_BUILDING THEN "queueBusy"
        ELSE IF wouldStarveWithTroops(d.buildings, upkeepTroopsOf(d), Bag(unit, count))
             THEN "wouldStarve"
        ELSE IF ~canAfford(d.values, calcTrainCost(unit, count)) THEN "insufficientResources"
        ELSE "accepted"

\* The running item of a queue is the one with a completion time.
Run(item, at, d) ==
    [item EXCEPT !.completesAt =
        at + calcBuildTime(item.type, item.targetLevel, levelOf(d.buildings, "commandCenter"))]

WithBuild(d, type) ==
    LET item == [type |-> type, targetLevel |-> TargetLevel(d, type), completesAt |-> 0]
    IN  [d EXCEPT
            !.values = subtractResources(@, calcBuildCost[type][item.targetLevel]),
            !.buildQueue = Append(@, IF @ = << >> THEN Run(item, now, d) ELSE item)]

WithTraining(d, unit, count) ==
    LET each == calcTrainTime(unit, levelOf(d.buildings, Units[unit].trainedIn))
    IN  [d EXCEPT
            !.values = subtractResources(@, calcTrainCost(unit, count)),
            !.trainingQueue = Append(@, [unitType |-> unit, remaining |-> count,
                                         each |-> each, nextCompletesAt |-> now + each])]

Answer(d) == replies' = replies \cup {buildSettlementStateView(d, now)}
Answerable == Cardinality(replies) < InFlight
HiddenFromClient == UNCHANGED << now, faction, replies, view, shownAt >>

\* GET settlements/mine: settles, stores and answers.
GetSettlementState ==
    /\ Answerable
    /\ doc' = settleDoc(doc, now)
    /\ Answer(doc')
    /\ UNCHANGED << now, faction, view, shownAt >>

BuildComplete ==
    /\ doc.buildQueue # << >>
    /\ LET item == Head(doc.buildQueue)
           raised == [doc EXCEPT !.buildings =
                         Over([t \in {item.type} |-> Min({item.targetLevel, levelOf(@, t) + 1})], @)]
           waiting == Tail(doc.buildQueue)
       IN  /\ item.completesAt <= now
           /\ doc' = [raised EXCEPT !.buildQueue =
                         IF waiting = << >> THEN waiting
                         ELSE << Run(Head(waiting), item.completesAt, raised) >> \o Tail(waiting)]
    /\ HiddenFromClient

TrainingComplete ==
    /\ \E k \in DOMAIN doc.trainingQueue :
         LET order == doc.trainingQueue[k]
         IN  /\ order.nextCompletesAt <= now
             /\ doc' = [doc EXCEPT
                   !.troops = Joined(@, Bag(order.unitType, 1)),
                   !.trainingQueue =
                       IF order.remaining = 1 THEN RemoveAt(@, k)
                       ELSE [@ EXCEPT ![k] = [order EXCEPT !.remaining = @ - 1,
                                                           !.nextCompletesAt = @ + order.each]]]
    /\ HiddenFromClient

\* A battle takes a level, never the last one of the Command Center.
Besieged ==
    /\ \E type \in Razed :
         LET d == settleDoc(doc, now)
             left == Max({levelOf(d.buildings, type) - 1, IF type = "commandCenter" THEN 1 ELSE 0})
         IN  /\ d.buildings[type] = Start[type] /\ left < Start[type]  \* bound: struck once
             /\ doc' = [d EXCEPT !.buildings = Over([t \in {type} |-> left], @)]
    /\ HiddenFromClient

SupportArrives ==
    /\ doc.stationedTroops = NoTroops
    /\ doc' = [settleDoc(doc, now) EXCEPT !.stationedTroops = Guests]
    /\ HiddenFromClient

\* Everybody at home marches; the answer names the march, not the settlement.
SendMovement ==
    /\ DOMAIN doc.troops # {}
    /\ LET d == settleDoc(doc, now)
       IN  doc' = [d EXCEPT !.awayTroops = Joined(@, d.troops), !.troops = NoTroops]
    /\ HiddenFromClient

Tick ==
    /\ now < Ticks
    /\ now' = now + 1
    /\ UNCHANGED << faction, doc, replies, view, shownAt >>

------------------------------------------------------------------------------
(* The client. *)

BUILD_QUEUE_CAPACITY == 1 + 2

ClockCorrectedTwice(tick) == tick + (shownAt - view.serverTime)  \* fault: the way counted ahead

\* useServerClock: the server's time in the reply, plus the time since it came.
useServerClock(tick) == view.serverTime + (tick - shownAt)

useLiveResources(d, tick) ==
    settleResources(d.buildings, d.values, tick - d.lastCalcAt, upkeepTroopsShown(d))

queuedCountForType(d, type) == Cardinality({k \in DOMAIN d.buildQueue : d.buildQueue[k].type = type})
nextTargetLevel(d, type) == levelOf(d.buildings, type) + queuedCountForType(d, type) + 1

Blocked(kind) == [kind |-> kind, waitMs |-> 0]

WaitsForTheFirst(d, live, type) ==  \* fault: the wait ends with the first resource
    LET target == nextTargetLevel(d, type)
        cost == calcBuildCost[type][target]
        rates == calcNetRates(d.buildings, upkeepTroopsShown(d))
        short == {r \in RESOURCE_KINDS : live[r] < cost[r] /\ rates[r] > 0}
    IN  IF target > maxLevel(type) THEN Blocked("maxLevel")
        ELSE IF missingPrerequisites(d.buildings, type) # {} THEN Blocked("prerequisites")
        ELSE IF Len(d.buildQueue) >= BUILD_QUEUE_CAPACITY THEN Blocked("queueFull")
        ELSE IF wouldStarveSettlement(d.buildings, type, target, upkeepTroopsShown(d))
             THEN Blocked("wouldStarve")
        ELSE IF \E r \in RESOURCE_KINDS : cost[r] > calcStorageCaps(d.buildings)[r]
             THEN Blocked("exceedsStorage")
        ELSE IF canAfford(live, cost) THEN Blocked("none")
        ELSE IF short = {} THEN Blocked("neverAffordable")
        ELSE [kind |-> "waiting",
              waitMs |-> Min({CeilDiv(cost[r] - live[r], rates[r]) : r \in short})]

\* What stands in the way of a new build, "none" when the button works.
computeBuildEligibility(d, live, type) ==
    LET target == nextTargetLevel(d, type)
        cost == calcBuildCost[type][target]
        troops == upkeepTroopsShown(d)
        wait == msUntilAffordable(d.buildings, live, cost, troops)
    IN  IF target > maxLevel(type) THEN Blocked("maxLevel")
        ELSE IF missingPrerequisites(d.buildings, type) # {} THEN Blocked("prerequisites")
        ELSE IF Len(d.buildQueue) >= BUILD_QUEUE_CAPACITY THEN Blocked("queueFull")
        ELSE IF wouldStarveSettlement(d.buildings, type, target, troops) THEN Blocked("wouldStarve")
        ELSE IF \E r \in RESOURCE_KINDS : cost[r] > calcStorageCaps(d.buildings)[r]
             THEN Blocked("exceedsStorage")
        ELSE IF canAfford(live, cost) THEN Blocked("none")
        ELSE IF wait = Never THEN Blocked("neverAffordable")
        ELSE [kind |-> "waiting", waitMs |-> wait]

computeUnitTrainEligibility(d, live, unit, count) ==
    LET building == Units[unit].trainedIn
    IN  IF faction = "none" THEN "noFaction"
        ELSE IF ~canFactionTrain(unit, faction) THEN "wrongFaction"
        ELSE IF levelOf(d.buildings, building) < 1 THEN "buildingMissing"
        ELSE IF Cardinality({k \in DOMAIN d.trainingQueue :
                    Units[d.trainingQueue[k].unitType].trainedIn = building})
                 >= MAX_ACTIVE_ORDERS_PER_BUILDING THEN "queueBusy"
        ELSE IF wouldStarveWithTroops(d.buildings, upkeepTroopsShown(d), Bag(unit, count))
             THEN "wouldStarve"
        ELSE IF ~canAfford(live, calcTrainCost(unit, count)) THEN "insufficientResources"
        ELSE "none"

LiveValues(tick) == useLiveResources(view.doc, useServerClock(tick))
OfferedBuild(type) == computeBuildEligibility(view.doc, LiveValues(now), type)
OfferedTraining(draft) == computeUnitTrainEligibility(view.doc, LiveValues(now), draft[1], draft[2])

\* bound: levels above TOP are not priced.
Priced(d) == {t \in BUILDING_TYPES : TargetLevel(d, t) <= TOP \/ TargetLevel(d, t) > maxLevel(t)}

\* The button sends the order; a refusal changes nothing and is shown as an error.
StartBuild ==
    /\ Answerable
    /\ \E type \in Wanted \cap Priced(view.doc) \cap Priced(doc) :
         /\ OfferedBuild(type).kind = "none"
         /\ BuildRefusal(settleDoc(doc, now), type) = "accepted"
         /\ doc' = WithBuild(settleDoc(doc, now), type)
    /\ Answer(doc')
    /\ UNCHANGED << now, faction, view, shownAt >>

TrainUnits ==
    /\ Answerable
    /\ \E draft \in Drafts :
         /\ OfferedTraining(draft) = "none"
         /\ TrainRefusal(settleDoc(doc, now), draft[1], draft[2]) = "accepted"
         /\ doc' = WithTraining(settleDoc(doc, now), draft[1], draft[2])
    /\ Answer(doc')
    /\ UNCHANGED << now, faction, view, shownAt >>

\* updateSettlementCache and the refetch alike: the last reply to arrive is shown.
UpdateSettlementCache ==
    /\ \E reply \in replies :
         /\ view' = reply
         /\ replies' = replies \ {reply}
    /\ shownAt' = now
    /\ UNCHANGED << now, faction, doc >>

ClientNext == \/ GetSettlementState \/ StartBuild \/ TrainUnits \/ UpdateSettlementCache
        \/ BuildComplete \/ TrainingComplete
        \/ Besieged \/ SupportArrives \/ SendMovement \/ Tick

ClientSpec == ClientInit /\ [][ClientNext]_clientVars

------------------------------------------------------------------------------
(* Properties. *)

TrainingOrder == [unitType : UNIT_TYPES, remaining : Nat \ {0}, each : Int, nextCompletesAt : Int]
IsDocument(d) ==
    /\ d \in [buildings : {d.buildings}, values : [RESOURCE_KINDS -> Nat], lastCalcAt : Int,
              buildQueue : Seq(BuildItem), trainingQueue : Seq(TrainingOrder),
              troops : {d.troops}, awayTroops : {d.awayTroops},
              stationedTroops : {d.stationedTroops}]
    /\ IsLevels(d.buildings)
    /\ IsTroops(d.troops) /\ IsTroops(d.awayTroops) /\ IsTroops(d.stationedTroops)
IsReply(reply, at) ==
    /\ reply \in [doc : {reply.doc}, serverTime : 0..at]
    /\ IsDocument(reply.doc)

\* Every document on either side is a settlement's, nothing in it negative, and
\* no reply is older at the client than it is.
ClientTypeOK ==
    /\ now \in Nat /\ faction \in Factions
    /\ IsDocument(doc) /\ IsReply(view, shownAt)
    /\ \A reply \in replies : IsReply(reply, now)
    /\ shownAt \in 0..now

UpToDate == view.doc = doc

\* The count picker keeps a count from 1 but knows no most: an order of more than
\* MAX_TRAIN_COUNT is offered, and refused as invalidCount.
Sized == {draft \in Drafts : draft[2] <= MAX_TRAIN_COUNT}

SameReason == [maxLevel |-> "maxLevelReached", prerequisites |-> "prerequisitesNotMet",
               queueFull |-> "queueFull", wouldStarve |-> "wouldStarve",
               exceedsStorage |-> "exceedsStorage", neverAffordable |-> "insufficientResources",
               waiting |-> "insufficientResources", none |-> "accepted"]

\* The client judges every order as the server would at the client's time, and
\* names the same reason, as long as nothing has changed behind its back:
\* "so the client never disables a building for a different reason than the
\* server would reject it for" (buildEligibility.ts).
MirrorsAgree ==
    UpToDate =>
        LET d == settleDoc(doc, useServerClock(now))
        IN  /\ \A type \in Priced(doc) :
                  SameReason[OfferedBuild(type).kind] = BuildRefusal(d, type)
            /\ \A draft \in Sized :
                  TrainRefusal(d, draft[1], draft[2])
                    = IF OfferedTraining(draft) = "none" THEN "accepted" ELSE OfferedTraining(draft)

NetFood(d) == calcNetFoodPerHour(d.buildings, upkeepTroopsOf(d))

\* An order that the screen offers is accepted although the screen's clock is
\* late by the way of the reply, unless Food is falling.
OffersAreHonoured ==
    UpToDate /\ NetFood(doc) >= 0 =>
        LET d == settleDoc(doc, now)
        IN  /\ \A type \in Priced(doc) :
                  OfferedBuild(type).kind = "none" => BuildRefusal(d, type) = "accepted"
            /\ \A draft \in Sized :
                  OfferedTraining(draft) = "none"
                    => TrainRefusal(d, draft[1], draft[2]) = "accepted"

\* The screen's forecast for a build comes true: at the time it names, and no
\* sooner, the stored resources pay for it; what it calls never affordable
\* is not paid for a tick, an hour or a day later.
ForecastComesTrue(type) ==
    LET d == view.doc
        offer == OfferedBuild(type)
        cost == calcBuildCost[type][nextTargetLevel(d, type)]
        PaysAfter(h) == canAfford(settleResources(d.buildings, LiveValues(now), h, upkeepTroopsOf(d)), cost)
    IN  /\ offer.kind = "waiting" => PaysAfter(offer.waitMs) /\ ~PaysAfter(offer.waitMs - 1)
        /\ offer.kind = "neverAffordable" => \A h \in {1, HOUR, 24 * HOUR} : ~PaysAfter(h)

\* TLC refutes it in client.cfg, where Food may fall; but
ForecastsHold == \A type \in Priced(view.doc) : ForecastComesTrue(type)

\* the forecasts come true as long as Food does not fall.
ForecastsHoldWhileFed == NetFood(view.doc) >= 0 => ForecastsHold
=============================================================================
