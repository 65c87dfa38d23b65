---------------------------- MODULE TrainingQueue ----------------------------
(***************************************************************************)
(* The training orders of a settlement beside its build queue.             *)
(* trainUnits pays for a whole batch; its units arrive one at a time, each *)
(* trainingComplete event crediting one unit and scheduling the next.  An  *)
(* event carries the remaining count it was scheduled for, which is what   *)
(* its handler checks: the order outlives the event.                       *)
(*                                                                         *)
(* Both queues spend the settlement's one stock, and the Food gate of each *)
(* reads what the other delivers.                                          *)
(***************************************************************************)
EXTENDS BuildQueue

CONSTANTS
    Orders,       \* training order ids, each used once
    Barracks,     \* the types that train units
    MaxBatch,     \* MAX_TRAIN_COUNT
    UnitCost      \* calcTrainCost of one unit

ASSUME TrainingAssumption ==
    /\ Barracks \subseteq Types /\ "none" \notin Barracks
    /\ MaxBatch \in Nat \ {0} /\ UnitCost \in Nat
    /\ IsFiniteSet(Orders)

VARIABLES
    site,        \* the building an order trains at, "none" while it is fresh
    total,       \* item.totalCount
    left,        \* item.remainingCount, 0 once the order is gone
    credits,     \* history: units an event put into Settlement.troops
    unitEvent,   \* status of the event scheduled at a remaining count
    unitClaimed  \* events whose document a worker has read

training == <<site, total, left, credits, unitEvent, unitClaimed>>

UnitEvents == Orders \X (1..MaxBatch)

InTraining == SumFunction([o \in Orders |-> left[o] * UnitCost])

QueuesInit ==
    /\ Init
    /\ site = [o \in Orders |-> "none"]
    /\ total = [o \in Orders |-> 0]
    /\ left = [o \in Orders |-> 0]
    /\ credits = [e \in UnitEvents |-> 0]
    /\ unitEvent = [e \in UnitEvents |-> "none"]
    /\ unitClaimed = {}

------------------------------------------------------------------------------
MayTrainBeside(b, n, settled) ==  \* fault: a second order at a busy building
    /\ level[b] >= 1
    /\ NetFood(level) - n >= 0
    /\ n * UnitCost <= settled

\* The checks of trainUnits that the settlement's state decides.
MayTrain(b, n, settled) ==
    /\ level[b] >= 1
    /\ \A o \in Orders : site[o] = b => left[o] = 0
    /\ NetFood(level) - n >= 0
    /\ n * UnitCost <= settled

TrainUnitsChargesOne(o, b) ==  \* fault: one unit is paid for, not the batch
    /\ site[o] = "none"
    /\ \E s \in Settled, n \in 1..MaxBatch :
         /\ MayTrain(b, n, s)
         /\ stock' = s - UnitCost
         /\ books' = books + (s - stock)
         /\ total' = [total EXCEPT ![o] = n]
         /\ left' = [left EXCEPT ![o] = n]
         /\ unitEvent' = [unitEvent EXCEPT ![<<o, n>>] = "due"]
    /\ site' = [site EXCEPT ![o] = b]
    /\ UNCHANGED <<level, troops, credits, unitClaimed>>

TrainUnits(o, b) ==
    /\ site[o] = "none"
    /\ \E s \in Settled, n \in 1..MaxBatch :
         /\ MayTrain(b, n, s)
         /\ stock' = s - n * UnitCost
         /\ books' = books + (s - stock)
         /\ total' = [total EXCEPT ![o] = n]
         /\ left' = [left EXCEPT ![o] = n]
         /\ unitEvent' = [unitEvent EXCEPT ![<<o, n>>] = "due"]
    /\ site' = [site EXCEPT ![o] = b]
    /\ UNCHANGED <<level, troops, credits, unitClaimed>>

ClaimUnit(e) ==
    /\ unitEvent[e] = "due" /\ e \notin unitClaimed
    /\ unitClaimed' = unitClaimed \cup {e}
    /\ UNCHANGED <<settlement, site, total, left, credits, unitEvent>>

\* One more unit at home, and the next one scheduled at the count now left.
Credit(o, k) ==
    /\ troops' = troops + 1
    /\ left' = [left EXCEPT ![o] = k - 1]
    /\ books' = books - UnitCost
    /\ unitEvent' = [e \in UnitEvents |-> IF e = <<o, k>> THEN "done"
                                          ELSE IF e = <<o, k - 1>> THEN "due"
                                          ELSE unitEvent[e]]

TrainingCompleteWhilePresent(o, k) ==  \* fault: any event of a present order counts
    /\ <<o, k>> \in unitClaimed
    /\ IF left[o] > 0
       THEN Credit(o, left[o]) /\ credits' = [credits EXCEPT ![<<o, k>>] = @ + 1]
       ELSE /\ unitEvent' = [unitEvent EXCEPT ![<<o, k>>] = "done"]
            /\ UNCHANGED <<troops, books, credits, left>>
    /\ UNCHANGED <<level, stock, site, total, unitClaimed>>

TrainingCompleteLast(o, k) ==  \* fault: the next unit is never scheduled
    /\ <<o, k>> \in unitClaimed
    /\ IF left[o] = k
       THEN /\ troops' = troops + 1
            /\ credits' = [credits EXCEPT ![<<o, k>>] = @ + 1]
            /\ left' = [left EXCEPT ![o] = k - 1]
            /\ books' = books - UnitCost
       ELSE UNCHANGED <<troops, books, credits, left>>
    /\ unitEvent' = [unitEvent EXCEPT ![<<o, k>>] = "done"]
    /\ UNCHANGED <<level, stock, site, total, unitClaimed>>

\* The trainingComplete handler: only the event scheduled for the count the
\* order has now delivers a unit.
TrainingComplete(o, k) ==
    /\ <<o, k>> \in unitClaimed
    /\ IF left[o] = k
       THEN Credit(o, k) /\ credits' = [credits EXCEPT ![<<o, k>>] = @ + 1]
       ELSE /\ unitEvent' = [unitEvent EXCEPT ![<<o, k>>] = "done"]
            /\ UNCHANGED <<troops, books, credits, left>>
    /\ UNCHANGED <<level, stock, site, total, unitClaimed>>

UnitFailure(e) ==
    /\ e \in unitClaimed
    /\ \E s \in {"due", "failed"} : unitEvent' = [unitEvent EXCEPT ![e] = s]
    /\ UNCHANGED <<settlement, site, total, left, credits, unitClaimed>>

TrainingNext ==
    \/ \E o \in Orders, b \in Barracks : TrainUnits(o, b)
    \/ \E o \in Orders, k \in 1..MaxBatch : TrainingComplete(o, k)
    \/ \E e \in UnitEvents : ClaimUnit(e) \/ UnitFailure(e)

QueuesNext ==
    \/ BuildNext /\ UNCHANGED training
    \/ TrainingNext /\ UNCHANGED building

QueuesSpec == QueuesInit /\ [][QueuesNext]_<<vars, training>>

UnitDelivered(o, k) ==
    /\ unitEvent[<<o, k>>] = "due"
    /\ TrainingComplete(o, k)
    /\ UNCHANGED building

QueuesFairness ==
    /\ \A e \in UnitEvents : WF_<<vars, training>>(ClaimUnit(e) /\ UNCHANGED building)
    /\ \A o \in Orders, k \in 1..MaxBatch : WF_<<vars, training>>(UnitDelivered(o, k))

QueuesFairSpec == QueuesSpec /\ QueuesFairness

------------------------------------------------------------------------------
\* Properties.

TrainingTypeOK ==
    /\ TypeOK
    /\ site \in [Orders -> Barracks \cup {"none"}]
    /\ total \in [Orders -> 0..MaxBatch]
    /\ left \in [Orders -> 0..MaxBatch]
    /\ credits \in [UnitEvents -> Nat]
    /\ unitEvent \in [UnitEvents -> Status]
    /\ unitClaimed \subseteq UnitEvents

\* Every unit paid for is credited by its own event, once: no replayed, late or
\* repeated delivery credits a unit twice, ahead of its time or not at all.
EachUnitOnce ==
    \A o \in Orders, k \in 1..MaxBatch :
        credits[o, k] = IF left[o] < k /\ k <= total[o] THEN 1 ELSE 0

\* The chain of an unfinished order is never broken: the event for the count
\* it has now is still to be handled or dead-lettered, and no building trains
\* two orders.
ChainUnbroken ==
    /\ \A o \in Orders : left[o] > 0 => unitEvent[o, left[o]] \in {"due", "failed"}
    /\ \A o, p \in Orders :
         left[o] > 0 /\ left[p] > 0 /\ site[o] = site[p] => o = p

\* Across both queues, the resources paid in are in one of them, in stock or
\* in what was delivered.
JointBooksBalance == stock + InQueue + InTraining = books

\* Every order is delivered in full, unless one of its events is dead-lettered.
EventuallyTrained ==
    \A o \in Orders :
        left[o] > 0 ~> (left[o] = 0 \/ unitEvent[o, left[o]] = "failed")
==============================================================================
