------------------------------ MODULE BuildQueue ------------------------------
(***************************************************************************)
(* The build queue of one settlement (apps/server/src/settlements).        *)
(* startBuild pays for an upgrade and appends it; up to Slots items are    *)
(* under construction, each with one buildComplete event; the rest wait.   *)
(* cancelBuild refunds an item, the buildComplete handler lands it, and    *)
(* either promotes the earliest waiting items into the slots it freed.     *)
(*                                                                         *)
(* A command or a handler is one transaction and so one step.  Events are  *)
(* delivered as Scheduler delivers them: a worker that claimed one may run *)
(* its handler at any later time and more than once, also after the event  *)
(* was cancelled, and may record a failure of it.  How long a build takes  *)
(* is left open.                                                           *)
(*                                                                         *)
(* The queue is an append-only array: place[i] is when i was appended.     *)
(* Resources are one number.  TrainingQueue spends from the same stock.    *)
(***************************************************************************)
EXTENDS Integers, FiniteSetsExt, Functions

CONSTANTS
    Items,          \* queue item ids, each used once (randomUUID)
    Types,          \* building types
    Slots,          \* ACTIVE_BUILD_SLOTS
    WaitingSlots,   \* WAITING_QUEUE_SLOTS
    MaxLevel,       \* def.maxLevel
    Needs,          \* Needs[t][u]: the level of u that t requires
    Price,          \* Price[t][l]: calcBuildCost
    Cap,            \* calcStorageCaps
    Yield,          \* Yield[t]: net Food per hour of one level of t
    StartLevel,     \* the building levels the settlement starts with
    StartStock,     \* the resources it starts with
    Besieged,       \* bound: the types assaults of the instance aim at
    Accrual         \* bound: what one settle may add

ASSUME BuildAssumption ==
    /\ Slots \in Nat \ {0} /\ WaitingSlots \in Nat
    /\ Types # {} /\ MaxLevel \in Nat \ {0}
    /\ Cap \in Nat /\ StartStock \in Nat
    /\ StartLevel \in [Types -> 0..MaxLevel]
    /\ Price \in [Types -> [1..MaxLevel -> Nat]]
    /\ Needs \in [Types -> [Types -> 0..MaxLevel]]
    /\ Yield \in [Types -> Int] /\ Besieged \subseteq Types
    /\ Accrual \subseteq Nat /\ 0 \in Accrual

VARIABLES
    level,     \* Settlement.buildings: the level of each type
    troops,    \* units fed by the settlement, one Food per hour each
    stock,     \* Settlement.resources.values
    books,     \* history: accrued minus sunk in what was delivered
    queue,     \* Settlement.buildQueue: the ids in it
    type,      \* item.type
    target,    \* item.targetLevel
    place,     \* when the item was appended, 0 while its id is fresh
    active,    \* the items whose startedAt is set
    event,     \* status of the item's buildComplete event
    claimed    \* events whose document a worker has read

settlement == <<level, troops, stock, books>>
building == <<queue, type, target, place, active, event, claimed>>
vars == <<settlement, building>>

Cost(i) == Price[type[i]][target[i]]
InQueue == SumFunctionOnSet([i \in Items |-> Cost(i)], queue)
QueuedOf(t) == {i \in queue : type[i] = t}

\* Net Food per hour with the given levels.
NetFood(lv) == MapThenSumSet(LAMBDA t : Yield[t] * lv[t], Types) - troops

Init ==
    /\ level = StartLevel /\ troops = 0
    /\ stock = StartStock /\ books = StartStock
    /\ queue = {} /\ active = {} /\ claimed = {}
    /\ type = [i \in Items |-> CHOOSE t \in Types : TRUE]
    /\ target = [i \in Items |-> 1]
    /\ place = [i \in Items |-> 0]
    /\ event = [i \in Items |-> "none"]

------------------------------------------------------------------------------
\* Every command first settles: production accrues, never past the cap.
Settled == {s \in {stock + a : a \in Accrual} : s = stock \/ s <= Cap}

\* getSettlementState settles and nothing else.
GetSettlementState ==
    /\ \E s \in Settled : stock' = s /\ books' = books + (s - stock)
    /\ UNCHANGED <<level, troops, building>>

PromotedLatest(q, running) ==  \* fault: the latest waiting items move up
    LET waiting == q \ running IN
    {i \in waiting :
        Cardinality({j \in waiting : place[j] > place[i]})
            < Slots - Cardinality(running)}

\* promoteWaitingItems: the earliest waiting items, as many as slots are free.
Promoted(q, running) ==
    LET waiting == q \ running IN
    {i \in waiting :
        Cardinality({j \in waiting : place[j] < place[i]})
            < Slots - Cardinality(running)}

RequeueUnscheduled(q, gone, fate) ==  \* fault: promotion schedules no event
    /\ queue' = q
    /\ active' = (active \cap q) \cup Promoted(q, active \cap q)
    /\ event' = [event EXCEPT ![gone] = fate]

\* The queue becomes q; its running items keep their slots, the rest move up.
\* Each promoted item gets its event in the same transaction.
Requeue(q, gone, fate) ==
    LET running == active \cap q
        moved == Promoted(q, running)
    IN
    /\ queue' = q
    /\ active' = running \cup moved
    /\ event' = [i \in Items |-> IF i \in moved THEN "due"
                                 ELSE IF i = gone THEN fate ELSE event[i]]

TargetIgnoresQueue(t) == level[t] + 1  \* fault: queued upgrades are not counted

TargetLevel(t) == level[t] + Cardinality(QueuedOf(t)) + 1

\* The checks of startBuild, in its order.
MayStart(t, settled) ==
    /\ TargetLevel(t) <= MaxLevel
    /\ \A u \in Types : level[u] >= Needs[t][u]
    /\ Cardinality(queue) < Slots + WaitingSlots
    /\ NetFood([level EXCEPT ![t] = TargetLevel(t)]) >= 0
    /\ Price[t][TargetLevel(t)] <= Cap
    /\ Price[t][TargetLevel(t)] <= settled

StartBuild(i, t) ==
    /\ place[i] = 0
    /\ \E s \in Settled :
         /\ MayStart(t, s)
         /\ stock' = s - Price[t][TargetLevel(t)]
         /\ books' = books + (s - stock)
    /\ queue' = queue \cup {i}
    /\ type' = [type EXCEPT ![i] = t]
    /\ target' = [target EXCEPT ![i] = TargetLevel(t)]
    /\ place' = [place EXCEPT ![i] =
                   Cardinality({j \in Items : place[j] # 0}) + 1]
    /\ IF Cardinality(active) < Slots
       THEN /\ active' = active \cup {i}
            /\ event' = [event EXCEPT ![i] = "due"]
       ELSE UNCHANGED <<active, event>>
    /\ UNCHANGED <<level, troops, claimed>>

\* cancelBuild: a full refund of the stored cost, also above the cap.
CancelBuild(i) ==
    /\ i \in queue
    /\ \E s \in Settled :
         /\ stock' = s + Cost(i)
         /\ books' = books + (s - stock)
    /\ Requeue(queue \ {i}, i, IF i \in active THEN "deleted" ELSE event[i])
    /\ UNCHANGED <<level, troops, type, target, place, claimed>>

------------------------------------------------------------------------------
\* The scheduler's side.

ClaimBuild(i) ==
    /\ event[i] = "due" /\ i \notin claimed
    /\ claimed' = claimed \cup {i}
    /\ UNCHANGED <<settlement, queue, type, target, place, active, event>>

Done(i) == IF event[i] = "deleted" THEN "deleted" ELSE "done"

BuildCompleteJumps(i) ==  \* fault: the target level lands whatever stands now
    /\ i \in claimed
    /\ IF i \in queue
       THEN /\ level' = [level EXCEPT ![type[i]] = target[i]]
            /\ books' = books - Cost(i)
            /\ Requeue(queue \ {i}, i, Done(i))
       ELSE /\ event' = [event EXCEPT ![i] = Done(i)]
            /\ UNCHANGED <<level, books, queue, active>>
    /\ UNCHANGED <<troops, stock, type, target, place, claimed>>

BuildCompletePromotesNothing(i) ==  \* fault: the next item is not started
    /\ i \in claimed
    /\ IF i \in queue
       THEN /\ level' = [level EXCEPT ![type[i]] =
                           IF target[i] < @ + 1 THEN target[i] ELSE @ + 1]
            /\ books' = books - Cost(i)
       ELSE UNCHANGED <<level, books>>
    /\ queue' = queue \ {i} /\ active' = active \ {i}
    /\ event' = [event EXCEPT ![i] = Done(i)]
    /\ UNCHANGED <<troops, stock, type, target, place, claimed>>

\* The buildComplete handler: nothing if the item is gone, otherwise one level,
\* never past the one paid for, and the next items are started.
BuildComplete(i) ==
    /\ i \in claimed
    /\ IF i \in queue
       THEN /\ level' = [level EXCEPT ![type[i]] =
                           IF target[i] < @ + 1 THEN target[i] ELSE @ + 1]
            /\ books' = books - Cost(i)
            /\ Requeue(queue \ {i}, i, Done(i))
       ELSE /\ event' = [event EXCEPT ![i] = Done(i)]
            /\ UNCHANGED <<level, books, queue, active>>
    /\ UNCHANGED <<troops, stock, type, target, place, claimed>>

\* recordFailure: due again, or dead-lettered; a stale worker may do it late.
RecordFailure(i) ==
    /\ i \in claimed /\ event[i] # "deleted"
    /\ \E s \in {"due", "failed"} : event' = [event EXCEPT ![i] = s]
    /\ UNCHANGED <<settlement, queue, type, target, place, active, claimed>>

\* An assault: loot, and what no longer fits the storage, leaves the stock,
\* defenders fall, and the siege pass knocks a building down.  The queue, and
\* so what an item will raise its building to, is untouched.
SiegePass(t) ==
    /\ \E l \in 0..level[t] : level' = [level EXCEPT ![t] = l]
    /\ \E n \in 0..troops : troops' = n
    /\ \E s \in 0..stock : stock' = s /\ books' = books - (stock - s)
    /\ UNCHANGED building

BuildNext ==
    \/ \E i \in Items, t \in Types : StartBuild(i, t)
    \/ \E i \in Items :
         CancelBuild(i) \/ ClaimBuild(i) \/ BuildComplete(i) \/ RecordFailure(i)
    \/ \E t \in Besieged : SiegePass(t)
    \/ GetSettlementState

Spec == Init /\ [][BuildNext]_vars

\* The scheduler handles or dead-letters every event that stays due
\* (EventuallyResolved of Scheduler); nothing makes a player act.
Delivered(i) == event[i] = "due" /\ BuildComplete(i)
Fairness == \A i \in Items : WF_vars(ClaimBuild(i)) /\ WF_vars(Delivered(i))
FairSpec == Spec /\ Fairness

------------------------------------------------------------------------------
\* Properties.

Status == {"none", "due", "done", "deleted", "failed"}

TypeOK ==
    /\ level \in [Types -> 0..MaxLevel]
    /\ troops \in Nat /\ stock \in Nat /\ books \in Int
    /\ queue \subseteq Items
    /\ type \in [Items -> Types]
    /\ target \in [Items -> 1..MaxLevel]
    /\ place \in [Items -> Nat]
    /\ active \subseteq queue
    /\ event \in [Items -> Status]
    /\ claimed \subseteq Items

\* A build is under construction exactly while it has an event that will land
\* it or that is visibly dead-lettered: no item is stuck without an event, and
\* no waiting item has one.
RunningIffScheduled ==
    \A i \in queue : IF i \in active THEN event[i] \in {"due", "failed"}
                                     ELSE event[i] = "none"

\* No slot is idle while an item waits, no more than Slots builds run, and the
\* running ones were enqueued before the waiting ones.
SlotsWellUsed ==
    /\ Cardinality(active) <= Slots
    /\ queue # active => Cardinality(active) = Slots
    /\ \A i \in active, j \in queue \ active : place[i] < place[j]

\* Whatever is queued, cancelled, knocked down or replayed, no building can be
\* brought past its maximum by the upgrades still queued for it.
NeverPastMax == \A t \in Types : level[t] + Cardinality(QueuedOf(t)) <= MaxLevel

\* With one slot every paid upgrade that lands raises its building one level.
EveryLandingRaises ==
    [][\A i \in Items :
         i \in queue \ queue' /\ event'[i] = "done"
         => level'[type[i]] = level[type[i]] + 1]_vars

\* Every queued item lands or is cancelled, unless a dead-lettered build holds
\* its slot until the player cancels it.
EventuallyLeaves ==
    \A i \in Items :
        i \in queue ~> (i \notin queue \/ \E j \in active : event[j] = "failed")
==============================================================================
