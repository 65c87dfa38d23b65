------------------------------- MODULE QueueProofs -------------------------------
(***************************************************************************)
(* Safety of the build queue and of the training queue beside it.          *)
(*                                                                         *)
(* The build queue, for any items, building types, prices, slots and       *)
(* maximum level: types, a running build has its event and a waiting one   *)
(* has none, and no building is ever queued past its maximum level; with   *)
(* the slots, how they are used and what an upgrade's target is worth.     *)
(*                                                                         *)
(* The two queues together: every unit is credited once, no order loses    *)
(* its chain of events, and the resources paid in are in a queue, in stock *)
(* or in what was delivered for them.                                      *)
(***************************************************************************)
EXTENDS TrainingQueue, SumsProofs

\* Two that differ are a set of two.
LEMMA PairCount ==
    ASSUME NEW i, NEW j, i # j
    PROVE  Cardinality({i, j}) = 2 /\ IsFiniteSet({i, j})
<1>1. IsFiniteSet({i}) /\ Cardinality({i}) = 1
  BY FS_Singleton
<1>2. IsFiniteSet({i} \cup {j}) /\ Cardinality({i} \cup {j}) = Cardinality({i}) + 1
  BY <1>1, FS_AddElement
<1>3. {i, j} = {i} \cup {j}
  OBVIOUS
<1>. QED
  BY <1>1, <1>2, <1>3

Used == {j \in Items : place[j] # 0}

\* What is fresh has no event and is in no worker's hands; a worker's document
\* of an item still queued is one of a running item.
Ledger ==
    /\ IsFiniteSet(Used)
    /\ \A i \in queue \cup claimed : place[i] # 0
    /\ \A i \in Items : place[i] = 0 => event[i] = "none"
    /\ claimed \cap queue \subseteq active

IInv == TypeOK /\ Ledger /\ RunningIffScheduled /\ NeverPastMax

LEMMA MaxLevelType == MaxLevel \in Nat
BY BuildAssumption

LEMMA LevelType ==
    ASSUME TypeOK, NEW t \in Types PROVE level[t] \in Nat /\ level[t] <= MaxLevel
<1>1. level[t] \in 0..MaxLevel
  BY DEF TypeOK
<1>. QED
  BY <1>1, MaxLevelType

LEMMA QueueFinite == IInv => IsFiniteSet(queue) /\ IsFiniteSet(Used)
<1>. SUFFICES ASSUME IInv PROVE IsFiniteSet(queue) /\ IsFiniteSet(Used)
  OBVIOUS
<1>1. queue \in SUBSET Used
  BY DEF IInv, TypeOK, Ledger, Used
<1>2. IsFiniteSet(Used)
  BY DEF IInv, Ledger
<1>. QED
  BY <1>1, <1>2, FS_Subset

\* An upgrade aims at a level that exists, above the one that stands.
LEMMA TargetType ==
    ASSUME IInv, NEW t \in Types
    PROVE TargetLevel(t) \in Nat /\ TargetLevel(t) > level[t]
<1>1. IsFiniteSet(QueuedOf(t))
  <2>1. QueuedOf(t) \in SUBSET queue
    BY DEF QueuedOf
  <2>. QED
    BY <2>1, QueueFinite, FS_Subset
<1>2. Cardinality(QueuedOf(t)) \in Nat
  BY <1>1, FS_CardinalityType
<1>3. level[t] \in Nat
  BY LevelType DEF IInv
<1>. QED
  BY <1>2, <1>3 DEF TargetLevel

LEMMA PriceType ==
    ASSUME NEW t \in Types, NEW l \in 1..MaxLevel PROVE Price[t][l] \in Nat
BY BuildAssumption

LEMMA CostType == ASSUME TypeOK, NEW i \in Items PROVE Cost(i) \in Nat
BY PriceType DEF TypeOK, Cost

LEMMA SettledType == ASSUME TypeOK, NEW s \in Settled PROVE s \in Nat
<1>1. PICK a \in Accrual : s = stock + a
  BY Zenon DEF Settled
<1>2. a \in Nat /\ stock \in Nat
  BY BuildAssumption DEF TypeOK
<1>. QED
  BY <1>1, <1>2

\* After Requeue the rest of the queue keeps its slots and its events; whoever
\* moves up was waiting and has an event now.
LEMMA RequeueKeeps ==
    ASSUME TypeOK, NEW q \in SUBSET queue, NEW g \in queue \ q,
           NEW fate \in Status, Requeue(q, g, fate)
    PROVE  /\ queue' = q
           /\ active' \subseteq q
           /\ active \cap q \subseteq active'
           /\ event' \in [Items -> Status]
           /\ \A i \in Items \ {g} :
                event'[i] = IF i \in active' \ active THEN "due" ELSE event[i]
<1>. DEFINE running == active \cap q
            moved == Promoted(q, running)
<1>1. moved \subseteq q \ active
  BY DEF Promoted
<1>2. /\ queue' = q
      /\ active' = running \cup moved
      /\ event' = [i \in Items |-> IF i \in moved THEN "due"
                                   ELSE IF i = g THEN fate ELSE event[i]]
  BY Zenon DEF Requeue
<1>. HIDE DEF moved
<1>3. \A i \in Items : event[i] \in Status
  BY DEF TypeOK
<1>4. event' \in [Items -> Status]
  BY <1>2, <1>3 DEF Status
<1>5. active' \ active = moved
  BY <1>1, <1>2
<1>. QED
  BY <1>1, <1>2, <1>4, <1>5

LEMMA RequeueSchedules ==
    ASSUME IInv, NEW q \in SUBSET queue, NEW g \in queue \ q,
           NEW fate \in Status, Requeue(q, g, fate)
    PROVE  RunningIffScheduled'
<1>. SUFFICES ASSUME NEW i \in q
              PROVE IF i \in active' THEN event'[i] \in {"due", "failed"}
                                     ELSE event'[i] = "none"
  BY RequeueKeeps DEF RunningIffScheduled, IInv
<1>1. /\ i \in Items /\ i # g /\ i \in queue
      /\ i \in active => i \in active'
      /\ event'[i] = IF i \in active' \ active THEN "due" ELSE event[i]
  BY RequeueKeeps DEF IInv, TypeOK
<1>2. IF i \in active THEN event[i] \in {"due", "failed"} ELSE event[i] = "none"
  BY <1>1 DEF IInv, RunningIffScheduled
<1>. QED
  BY <1>1, <1>2

LEMMA InitInv == Init => IInv
<1>. SUFFICES ASSUME Init PROVE IInv
  OBVIOUS
<1>. USE BuildAssumption DEF Init
<1>1. TypeOK
  BY DEF TypeOK, Status
<1>2. Used = {}
  BY DEF Used
<1>3. Ledger /\ RunningIffScheduled
  BY <1>2, FS_EmptySet DEF Ledger, RunningIffScheduled
<1>4. NeverPastMax
  <2>. SUFFICES ASSUME NEW t \in Types
                PROVE level[t] + Cardinality(QueuedOf(t)) <= MaxLevel
    BY DEF NeverPastMax
  <2>1. Cardinality(QueuedOf(t)) = 0
    BY FS_EmptySet DEF QueuedOf
  <2>. QED
    BY <2>1
<1>. QED
  BY <1>1, <1>3, <1>4 DEF IInv

LEMMA StartInv ==
    ASSUME NEW i \in Items, NEW t \in Types PROVE IInv /\ StartBuild(i, t) => IInv'
<1>. SUFFICES ASSUME IInv, StartBuild(i, t) PROVE IInv'
  OBVIOUS
<1>1. PICK s \in Settled :
        /\ MayStart(t, s)
        /\ stock' = s - Price[t][TargetLevel(t)]
        /\ books' = books + (s - stock)
  BY Zenon DEF StartBuild
<1>2. TargetLevel(t) \in 1..MaxLevel /\ Price[t][TargetLevel(t)] <= s
  <2>1. TargetLevel(t) \in Nat /\ TargetLevel(t) > level[t]
    BY TargetType
  <2>3. level[t] \in Nat /\ MaxLevel \in Nat
    BY LevelType, MaxLevelType DEF IInv
  <2>2. TargetLevel(t) <= MaxLevel /\ Price[t][TargetLevel(t)] <= s
    BY <1>1 DEF MayStart
  <2>. QED
    BY <2>1, <2>2, <2>3
<1>3. Price[t][TargetLevel(t)] \in Nat
  BY <1>2, PriceType
<1>4. s \in Nat
  BY SettledType DEF IInv
<1>5. stock' \in Nat /\ books' \in Int
  BY <1>1, <1>2, <1>3, <1>4 DEF IInv, TypeOK
<1>6. Cardinality(Used) \in Nat
  BY QueueFinite, FS_CardinalityType
<1>7. /\ place[i] = 0
      /\ queue' = queue \cup {i}
      /\ type' = [type EXCEPT ![i] = t]
      /\ target' = [target EXCEPT ![i] = TargetLevel(t)]
      /\ place' = [place EXCEPT ![i] = Cardinality(Used) + 1]
      /\ \/ active' = active \cup {i} /\ event' = [event EXCEPT ![i] = "due"]
         \/ UNCHANGED <<active, event>>
      /\ UNCHANGED <<level, troops, claimed>>
  BY DEF StartBuild, Used
<1>8. /\ i \notin queue /\ i \notin claimed /\ event[i] = "none"
      /\ i \notin active
  BY <1>7 DEF IInv, Ledger, TypeOK
<1>9. TypeOK'
  BY <1>2, <1>5, <1>6, <1>7 DEF IInv, TypeOK, Status
<1>10. Used' = Used \cup {i}
  <2>1. Cardinality(Used) + 1 # 0
    BY <1>6
  <2>2. /\ place'[i] = Cardinality(Used) + 1
        /\ \A j \in Items \ {i} : place'[j] = place[j]
    BY <1>7 DEF IInv, TypeOK
  <2>3. \A j \in Items : place'[j] # 0 <=> (j = i \/ place[j] # 0)
    BY <2>1, <2>2
  <2>. QED
    BY <2>3 DEF Used
<1>11. IsFiniteSet(Used')
  BY <1>10, QueueFinite, FS_AddElement
<1>12. Ledger'
  BY <1>6, <1>7, <1>8, <1>11 DEF IInv, TypeOK, Ledger
<1>13. RunningIffScheduled'
  BY <1>7, <1>8 DEF IInv, TypeOK, RunningIffScheduled
<1>14. NeverPastMax'
  <2>. SUFFICES ASSUME NEW u \in Types
                PROVE level[u] + Cardinality(QueuedOf(u)') <= MaxLevel
    BY <1>7 DEF NeverPastMax
  <2>1. CASE u # t
    <3>1. QueuedOf(u)' = QueuedOf(u)
      BY <1>7, <1>8, <2>1 DEF QueuedOf, IInv, TypeOK
    <3>. QED
      BY <3>1 DEF IInv, NeverPastMax
  <2>2. CASE u = t
    <3>1. QueuedOf(t)' = QueuedOf(t) \cup {i}
      BY <1>7, <1>8 DEF QueuedOf, IInv, TypeOK
    <3>2. i \notin QueuedOf(t) /\ QueuedOf(t) \in SUBSET queue
      BY <1>8 DEF QueuedOf
    <3>3. IsFiniteSet(QueuedOf(t))
      BY <3>2, QueueFinite, FS_Subset
    <3>4. Cardinality(QueuedOf(t)') = Cardinality(QueuedOf(t)) + 1
      BY <3>1, <3>2, <3>3, FS_AddElement
    <3>5. Cardinality(QueuedOf(t)) \in Nat /\ level[t] \in Nat
      BY <3>3, FS_CardinalityType, LevelType DEF IInv
    <3>. QED
      BY <2>2, <3>4, <3>5, <1>2 DEF TargetLevel
  <2>. QED
    BY <2>1, <2>2
<1>. QED
  BY <1>9, <1>12, <1>13, <1>14 DEF IInv

\* An item leaves the queue, refunded or landed.
LEMMA LeaveInv ==
    ASSUME IInv, NEW i \in queue, NEW fate \in Status, Requeue(queue \ {i}, i, fate),
           \/ level' = level
           \/ level' \in [Types -> 0..MaxLevel]
              /\ \A u \in Types : level'[u] <= level[u] + (IF u = type[i] THEN 1 ELSE 0),
           stock' \in Nat, books' \in Int,
           UNCHANGED <<troops, type, target, place, claimed>>
    PROVE  IInv'
<1>. DEFINE q == queue \ {i}
<1>1. /\ queue' = q
      /\ active' \subseteq q
      /\ active \cap q \subseteq active'
      /\ event' \in [Items -> Status]
      /\ \A j \in Items \ {i} :
           event'[j] = IF j \in active' \ active THEN "due" ELSE event[j]
  <2>1. q \in SUBSET queue /\ i \in queue \ q /\ TypeOK
    BY DEF IInv
  <2>. QED
    BY <2>1, RequeueKeeps
<1>2. i \in Items /\ place[i] # 0
  BY DEF IInv, TypeOK, Ledger
<1>3. TypeOK'
  BY <1>1 DEF IInv, TypeOK
<1>4. Ledger'
  <2>1. Used' = Used
    BY DEF Used
  <2>2. \A j \in Items : place[j] = 0 => event'[j] = "none"
    BY <1>1, <1>2 DEF IInv, Ledger
  <2>. QED
    BY <1>1, <2>1, <2>2 DEF IInv, Ledger, TypeOK
<1>5. RunningIffScheduled'
  <2>1. q \in SUBSET queue /\ i \in queue \ q
    OBVIOUS
  <2>. QED
    BY <2>1, RequeueSchedules
<1>6. NeverPastMax'
  <2>. SUFFICES ASSUME NEW u \in Types
                PROVE level'[u] + Cardinality(QueuedOf(u)') <= MaxLevel
    BY DEF NeverPastMax
  <2>1. QueuedOf(u) \in SUBSET queue
    BY DEF QueuedOf
  <2>2. IsFiniteSet(QueuedOf(u))
    BY <2>1, QueueFinite, FS_Subset
  <2>3. QueuedOf(u)' = QueuedOf(u) \ {i}
    BY <1>1 DEF QueuedOf
  <2>4. Cardinality(QueuedOf(u)') = IF i \in QueuedOf(u) THEN Cardinality(QueuedOf(u)) - 1
                                    ELSE Cardinality(QueuedOf(u))
    BY <2>2, <2>3, FS_RemoveElement
  <2>5. i \in QueuedOf(u) <=> u = type[i]
    BY DEF QueuedOf
  <2>6. Cardinality(QueuedOf(u)) \in Nat
    BY <2>2, FS_CardinalityType
  <2>7. /\ level[u] \in Nat /\ level[u] <= MaxLevel
        /\ level'[u] \in Nat /\ level'[u] <= level[u] + (IF u = type[i] THEN 1 ELSE 0)
    <3>1. level[u] \in Nat /\ level[u] <= MaxLevel
      BY LevelType DEF IInv
    <3>2. CASE level' = level
      BY <3>1, <3>2
    <3>3. CASE /\ level' \in [Types -> 0..MaxLevel]
               /\ \A v \in Types : level'[v] <= level[v] + (IF v = type[i] THEN 1 ELSE 0)
      <4>1. level'[u] \in 0..MaxLevel
        BY <3>3
      <4>. QED
        BY <3>1, <3>3, <4>1, MaxLevelType
    <3>. QED
      BY <3>1, <3>2, <3>3
  <2>8. level[u] + Cardinality(QueuedOf(u)) <= MaxLevel
    BY DEF IInv, NeverPastMax
  <2>. QED
    BY <2>4, <2>5, <2>6, <2>7, <2>8, MaxLevelType
<1>. QED
  BY <1>3, <1>4, <1>5, <1>6 DEF IInv

LEMMA CancelInv ==
    ASSUME NEW i \in Items PROVE IInv /\ CancelBuild(i) => IInv'
<1>. SUFFICES ASSUME IInv, CancelBuild(i) PROVE IInv'
  OBVIOUS
<1>. DEFINE fate == IF i \in active THEN "deleted" ELSE event[i]
<1>1. i \in queue /\ Requeue(queue \ {i}, i, fate)
      /\ UNCHANGED <<level, troops, type, target, place, claimed>>
  BY Zenon DEF CancelBuild
<1>2. fate \in Status
  BY DEF IInv, TypeOK, Status
<1>3. Cost(i) \in Nat
  BY CostType DEF IInv
<1>4. PICK s \in Settled : stock' = s + Cost(i) /\ books' = books + (s - stock)
  BY Zenon DEF CancelBuild
<1>5. s \in Nat /\ stock \in Nat /\ books \in Int
  BY SettledType DEF IInv, TypeOK
<1>6. stock' \in Nat /\ books' \in Int
  BY <1>3, <1>4, <1>5
<1>. HIDE DEF fate
<1>. QED
  BY <1>1, <1>2, <1>6, LeaveInv

\* A late or repeated event of an item that left the queue is only marked.
LEMMA MarkInv ==
    ASSUME IInv, NEW i \in claimed, NEW s \in {"due", "failed", "done", "deleted"},
           i \notin queue \/ s \in {"due", "failed"},
           event' = [event EXCEPT ![i] = s],
           UNCHANGED <<settlement, queue, type, target, place, active, claimed>>
    PROVE  IInv'
<1>1. TypeOK'
  BY DEF IInv, TypeOK, Status, settlement
<1>2. Used' = Used
  BY DEF Used
<1>3. Ledger'
  BY <1>2 DEF IInv, TypeOK, Ledger
<1>4. RunningIffScheduled'
  BY DEF IInv, TypeOK, Ledger, RunningIffScheduled
<1>5. NeverPastMax'
  BY DEF IInv, NeverPastMax, QueuedOf, settlement
<1>. QED
  BY <1>1, <1>3, <1>4, <1>5 DEF IInv

LEMMA CompleteInv ==
    ASSUME NEW i \in Items PROVE IInv /\ BuildComplete(i) => IInv'
<1>. SUFFICES ASSUME IInv, BuildComplete(i) PROVE IInv'
  OBVIOUS
<1>1. Done(i) \in {"done", "deleted"}
  BY DEF Done
<1>2. i \in claimed /\ UNCHANGED <<troops, stock, type, target, place, claimed>>
  BY DEF BuildComplete
<1>3. CASE i \in queue
  <2>1. /\ level' = [level EXCEPT ![type[i]] =
                       IF target[i] < @ + 1 THEN target[i] ELSE @ + 1]
        /\ books' = books - Cost(i)
        /\ Requeue(queue \ {i}, i, Done(i))
    BY <1>3, Zenon DEF BuildComplete
  <2>2. target[i] \in 1..MaxLevel /\ level \in [Types -> 0..MaxLevel] /\ type[i] \in Types
    BY DEF IInv, TypeOK
  <2>3. /\ level' \in [Types -> 0..MaxLevel]
        /\ \A u \in Types : level'[u] <= level[u] + (IF u = type[i] THEN 1 ELSE 0)
    <3>. DEFINE b == type[i]
                n == IF target[i] < level[b] + 1 THEN target[i] ELSE level[b] + 1
    <3>1. level' = [level EXCEPT ![b] = n]
      BY <2>1
    <3>2. level[b] \in Nat /\ target[i] \in Nat /\ target[i] <= MaxLevel
      BY <2>2, LevelType, MaxLevelType DEF IInv
    <3>3. n \in 0..MaxLevel /\ n <= level[b] + 1
      BY <3>2, MaxLevelType
    <3>. HIDE DEF n, b
    <3>4. level' \in [Types -> 0..MaxLevel]
      BY <2>2, <3>1, <3>3
    <3>5. \A u \in Types : level[u] \in Nat
      BY LevelType DEF IInv
    <3>6. \A u \in Types : level'[u] <= level[u] + (IF u = b THEN 1 ELSE 0)
      BY <2>2, <3>1, <3>3, <3>5
    <3>. QED
      BY <3>4, <3>6 DEF b
  <2>4. books' \in Int /\ stock' \in Nat
    BY <1>2, <2>1, CostType DEF IInv, TypeOK
  <2>. QED
    BY <1>1, <1>2, <1>3, <2>1, <2>3, <2>4, LeaveInv DEF Status
<1>4. CASE i \notin queue
  BY <1>1, <1>2, <1>4, MarkInv DEF BuildComplete, settlement
<1>. QED
  BY <1>3, <1>4

LEMMA ClaimInv == ASSUME NEW i \in Items PROVE IInv /\ ClaimBuild(i) => IInv'
<1>. SUFFICES ASSUME IInv, ClaimBuild(i) PROVE IInv'
  OBVIOUS
<1>. USE DEF ClaimBuild, settlement
<1>1. place[i] # 0
  BY DEF IInv, Ledger
<1>2. i \in queue => i \in active
  BY DEF IInv, RunningIffScheduled
<1>3. TypeOK'
  BY DEF IInv, TypeOK
<1>4. Used' = Used
  BY DEF Used
<1>5. Ledger'
  BY <1>1, <1>2, <1>4 DEF IInv, Ledger
<1>6. (RunningIffScheduled /\ NeverPastMax)'
  BY DEF IInv, RunningIffScheduled, NeverPastMax, QueuedOf
<1>. QED
  BY <1>3, <1>5, <1>6 DEF IInv

LEMMA FailureInv == ASSUME NEW i \in Items PROVE IInv /\ RecordFailure(i) => IInv'
BY MarkInv DEF RecordFailure

\* A siege only lowers levels; settling only raises the stock.
LEMMA SettlementInv ==
    ASSUME IInv, level' \in [Types -> 0..MaxLevel],
           \A t \in Types : level'[t] <= level[t],
           troops' \in Nat, stock' \in Nat, books' \in Int, UNCHANGED building
    PROVE  IInv'
<1>. USE DEF building
<1>1. TypeOK'
  BY DEF IInv, TypeOK
<1>2. Used' = Used
  BY DEF Used
<1>3. (Ledger /\ RunningIffScheduled)'
  BY <1>2 DEF IInv, Ledger, RunningIffScheduled
<1>4. NeverPastMax'
  <2>. SUFFICES ASSUME NEW t \in Types
                PROVE level'[t] + Cardinality(QueuedOf(t)') <= MaxLevel
    BY DEF NeverPastMax
  <2>1. QueuedOf(t)' = QueuedOf(t)
    BY DEF QueuedOf
  <2>2. QueuedOf(t) \in SUBSET queue
    BY DEF QueuedOf
  <2>3. IsFiniteSet(QueuedOf(t))
    BY <2>2, QueueFinite, FS_Subset
  <2>4. Cardinality(QueuedOf(t)) \in Nat
    BY <2>3, FS_CardinalityType
  <2>5. level[t] + Cardinality(QueuedOf(t)) <= MaxLevel
    BY DEF IInv, NeverPastMax
  <2>6. /\ level[t] \in Nat /\ level'[t] \in Nat /\ level'[t] <= level[t]
    BY LevelType DEF IInv
  <2>. QED
    BY <2>1, <2>4, <2>5, <2>6, MaxLevelType
<1>. QED
  BY <1>1, <1>3, <1>4 DEF IInv

LEMMA SiegeInv == ASSUME NEW t \in Types PROVE IInv /\ SiegePass(t) => IInv'
<1>. SUFFICES ASSUME IInv, SiegePass(t) PROVE IInv'
  OBVIOUS
<1>1. PICK l \in 0..level[t] : level' = [level EXCEPT ![t] = l]
  BY Zenon DEF SiegePass
<1>2. /\ level' \in [Types -> 0..MaxLevel]
      /\ \A u \in Types : level'[u] <= level[u]
  <2>1. \A u \in Types : level[u] \in Nat /\ level[u] <= MaxLevel
    BY LevelType DEF IInv
  <2>2. level \in [Types -> 0..MaxLevel]
    BY DEF IInv, TypeOK
  <2>3. l \in 0..MaxLevel /\ l <= level[t]
    BY <1>1, <2>1, MaxLevelType
  <2>. QED
    BY <1>1, <2>1, <2>2, <2>3
<1>3. troops' \in Nat /\ stock' \in Nat /\ books' \in Int /\ UNCHANGED building
  BY DEF SiegePass, IInv, TypeOK
<1>. QED
  BY <1>2, <1>3, SettlementInv

LEMMA SettleInv == IInv /\ GetSettlementState => IInv'
<1>. SUFFICES ASSUME IInv, GetSettlementState PROVE IInv'
  OBVIOUS
<1>1. PICK s \in Settled : stock' = s /\ books' = books + (s - stock)
  BY Zenon DEF GetSettlementState
<1>2. s \in Nat /\ stock \in Nat /\ books \in Int
  BY SettledType DEF IInv, TypeOK
<1>3. stock' \in Nat /\ books' \in Int
  BY <1>1, <1>2
<1>4. UNCHANGED <<level, troops, building>>
  BY DEF GetSettlementState
<1>5. /\ level' \in [Types -> 0..MaxLevel] /\ troops' \in Nat
      /\ \A u \in Types : level'[u] <= level[u]
  <2>1. \A u \in Types : level[u] \in Nat
    BY LevelType DEF IInv
  <2>. QED
    BY <1>4, <2>1 DEF IInv, TypeOK
<1>. QED
  BY <1>3, <1>4, <1>5, SettlementInv

LEMMA NextInv == IInv /\ [BuildNext]_vars => IInv'
<1>. SUFFICES ASSUME IInv, [BuildNext]_vars PROVE IInv'
  OBVIOUS
<1>1. ASSUME NEW i \in Items, NEW t \in Types, StartBuild(i, t) PROVE IInv'
  BY <1>1, StartInv
<1>2. ASSUME NEW i \in Items,
             CancelBuild(i) \/ ClaimBuild(i) \/ BuildComplete(i) \/ RecordFailure(i)
      PROVE IInv'
  BY <1>2, CancelInv, ClaimInv, CompleteInv, FailureInv
<1>3. ASSUME NEW t \in Besieged, SiegePass(t) PROVE IInv'
  BY <1>3, SiegeInv, BuildAssumption
<1>4. CASE GetSettlementState
  BY <1>4, SettleInv
<1>5. CASE UNCHANGED vars
  BY <1>5 DEF vars, settlement, building, IInv, TypeOK, Ledger, Used,
          RunningIffScheduled, NeverPastMax, QueuedOf
<1>. QED
  BY <1>1, <1>2, <1>3, <1>4, <1>5 DEF BuildNext

\* The inductive invariant of the build queue: with the checked properties, it
\* says which events a worker may still hold of the items that are queued.
THEOREM QueueInductive == Spec => []IInv
BY InitInv, NextInv, PTL DEF Spec

\* Every reachable state of the build queue is well typed: no negative stock,
\* no level or target that does not exist.
THEOREM QueueTyped == Spec => []TypeOK
<1>1. IInv => TypeOK
  BY DEF IInv
<1>. QED
  BY <1>1, QueueInductive, PTL

\* startBuild, cancelBuild, buildComplete: an item holds a slot exactly while
\* an event is to land it, whatever is cancelled, repeated or recorded late.
THEOREM RunningHasEvent == Spec => []RunningIffScheduled
<1>1. IInv => RunningIffScheduled
  BY DEF IInv
<1>. QED
  BY <1>1, QueueInductive, PTL

\* The level cap holds for what stands together with all that is queued: the
\* check of startBuild outlasts cancellations, replays and sieges.
THEOREM LevelsStayInRange == Spec => []NeverPastMax
<1>1. IInv => NeverPastMax
  BY DEF IInv
<1>. QED
  BY <1>1, QueueInductive, PTL

------------------------------------------------------------------------------
(***************************************************************************)
(* How the slots of the build queue are used, for any number of slots and  *)
(* items: promotion fills the free slots with the earliest waiting items,  *)
(* so none is idle while an item waits.  With one slot, as the game is     *)
(* configured, it follows that every build that lands raises a level.      *)
(***************************************************************************)

\* The items of W that were appended before i.
Before(W, pl, i) == {j \in W : pl[j] < pl[i]}
First(W, pl, k) == {i \in W : Cardinality(Before(W, pl, i)) < k}

\* A later item has more items before it.
LEMMA RankIsStrict ==
    ASSUME NEW W, IsFiniteSet(W), NEW pl, \A j \in W : pl[j] \in Nat,
           NEW i \in W, NEW j \in W, pl[i] < pl[j]
    PROVE  /\ Before(W, pl, i) \subseteq Before(W, pl, j)
           /\ Before(W, pl, i) # Before(W, pl, j)
           /\ Cardinality(Before(W, pl, i)) \in Nat
           /\ Cardinality(Before(W, pl, i)) < Cardinality(Before(W, pl, j))
<1>1. Before(W, pl, i) \subseteq Before(W, pl, j)
  BY DEF Before
<1>2. i \in Before(W, pl, j) /\ i \notin Before(W, pl, i)
  BY DEF Before
<1>3. Before(W, pl, j) \in SUBSET W
  BY DEF Before
<1>4. IsFiniteSet(Before(W, pl, j))
  BY <1>3, FS_Subset
<1>5. /\ IsFiniteSet(Before(W, pl, i))
      /\ Cardinality(Before(W, pl, i)) <= Cardinality(Before(W, pl, j))
      /\ Cardinality(Before(W, pl, i)) # Cardinality(Before(W, pl, j))
  BY <1>1, <1>2, <1>4, FS_Subset
<1>6. /\ Cardinality(Before(W, pl, i)) \in Nat
      /\ Cardinality(Before(W, pl, j)) \in Nat
  BY <1>4, <1>5, FS_CardinalityType
<1>. QED
  BY <1>1, <1>2, <1>5, <1>6

\* At most k items have fewer than k before them: their ranks differ.
LEMMA FirstBounded ==
    ASSUME NEW W, IsFiniteSet(W), NEW pl, \A j \in W : pl[j] \in Nat,
           \A i, j \in W : pl[i] = pl[j] => i = j, NEW k \in Nat
    PROVE  Cardinality(First(W, pl, k)) <= k
<1>. DEFINE F == First(W, pl, k)
            rank == [i \in F |-> Cardinality(Before(W, pl, i))]
<1>1. \A i \in F : i \in W /\ rank[i] < k
  BY DEF First
<1>2. \A i \in W : Cardinality(Before(W, pl, i)) \in Nat
  <2>. TAKE i \in W
  <2>1. Before(W, pl, i) \in SUBSET W
    BY DEF Before
  <2>. QED
    BY <2>1, FS_Subset, FS_CardinalityType
<1>3. rank \in [F -> 0..(k - 1)]
  BY <1>1, <1>2
<1>4. ASSUME NEW i \in F, NEW j \in F, rank[i] = rank[j] PROVE i = j
  <2>1. i \in W /\ j \in W /\ pl[i] \in Nat /\ pl[j] \in Nat
    BY <1>1
  <2>2. ~(pl[i] < pl[j])
    BY <1>2, <1>4, <2>1, RankIsStrict
  <2>3. ~(pl[j] < pl[i])
    BY <1>2, <1>4, <2>1, RankIsStrict
  <2>. QED
    BY <2>1, <2>2, <2>3
<1>. HIDE DEF F
<1>5. rank \in Injection(F, 0..(k - 1))
  BY <1>3, <1>4, Zenon DEF Injection, IsInjective
<1>6. IsFiniteSet(0..(k - 1)) /\ Cardinality(0..(k - 1)) = k
  BY FS_Interval
<1>7. Cardinality(F) <= Cardinality(0..(k - 1))
  BY <1>5, <1>6, FS_Injection
<1>. QED
  BY <1>6, <1>7 DEF F

\* Whoever is not among the first k has them all before it.
LEMMA FirstFull ==
    ASSUME NEW W, IsFiniteSet(W), NEW pl, \A j \in W : pl[j] \in Nat,
           \A i, j \in W : pl[i] = pl[j] => i = j, NEW k \in Nat,
           First(W, pl, k) # W
    PROVE  Cardinality(First(W, pl, k)) = k
<1>. DEFINE F == First(W, pl, k)
            R == StrictSubsetOrdering(W)
            T == {Before(W, pl, u) : u \in W \ F}
<1>1. F \subseteq W /\ W \ F # {}
  BY DEF First
<1>2. T \subseteq SUBSET W /\ T # {}
  <2>1. \A u \in W \ F : Before(W, pl, u) \in SUBSET W
    BY DEF Before
  <2>2. PICK u \in W \ F : TRUE
    BY <1>1
  <2>. HIDE DEF F
  <2>3. Before(W, pl, u) \in T
    BY <2>2
  <2>. QED
    BY <2>1, <2>3, Zenon
<1>3. IsWellFoundedOn(R, SUBSET W)
  <2>1. IsWellFoundedOn(R, FiniteSubsetsOf(W))
    BY FS_StrictSubsetOrderingWellFounded, Zenon
  <2>2. FiniteSubsetsOf(W) = SUBSET W
    BY FS_FiniteSubsetsOfFinite, Zenon
  <2>. QED
    BY <2>1, <2>2, Zenon
<1>4. \E x \in T : \A y \in T : ~(<<y, x>> \in R)
  <2>. HIDE DEF T, R
  <2>. QED
    BY <1>2, <1>3, WFMin
<1>5. PICK u \in W \ F : \A v \in W \ F : <<Before(W, pl, v), Before(W, pl, u)>> \notin R
  BY <1>4
<1>6. Before(W, pl, u) \subseteq F
  <2>. SUFFICES ASSUME NEW v \in Before(W, pl, u), v \notin F PROVE FALSE
    OBVIOUS
  <2>1. v \in W \ F /\ pl[v] < pl[u]
    BY DEF Before
  <2>2. /\ Before(W, pl, v) \subseteq Before(W, pl, u)
        /\ Before(W, pl, v) # Before(W, pl, u)
    BY <2>1, RankIsStrict
  <2>3. Before(W, pl, v) \in SUBSET W /\ Before(W, pl, u) \in SUBSET W
    BY DEF Before
  <2>4. <<Before(W, pl, v), Before(W, pl, u)>> \in R
    BY <2>2, <2>3 DEF StrictSubsetOrdering
  <2>. QED
    BY <1>5, <2>1, <2>4
<1>7. IsFiniteSet(F)
  BY <1>1, FS_Subset
<1>8. Cardinality(Before(W, pl, u)) <= Cardinality(F)
  BY <1>6, <1>7, FS_Subset
<1>9. Cardinality(Before(W, pl, u)) \in Nat /\ Cardinality(F) \in Nat
  BY <1>6, <1>7, FS_Subset, FS_CardinalityType
<1>10. ~(Cardinality(Before(W, pl, u)) < k)
  BY DEF First
<1>11. Cardinality(F) <= k
  BY FirstBounded
<1>. QED
  BY <1>8, <1>9, <1>10, <1>11

\* No later item is among the first k without an earlier one.
LEMMA FirstOrdered ==
    ASSUME NEW W, IsFiniteSet(W), NEW pl, \A j \in W : pl[j] \in Nat,
           \A i, j \in W : pl[i] = pl[j] => i = j, NEW k \in Nat,
           NEW i \in First(W, pl, k), NEW j \in W \ First(W, pl, k)
    PROVE  pl[i] < pl[j]
<1>1. i \in W /\ j \in W /\ i # j /\ pl[i] \in Nat /\ pl[j] \in Nat /\ pl[i] # pl[j]
  BY DEF First
<1>2. ~(pl[j] < pl[i])
  <2>. SUFFICES ASSUME pl[j] < pl[i] PROVE FALSE
    OBVIOUS
  <2>1. /\ Cardinality(Before(W, pl, j)) \in Nat
        /\ Cardinality(Before(W, pl, j)) < Cardinality(Before(W, pl, i))
    BY <1>1, RankIsStrict
  <2>2. Cardinality(Before(W, pl, i)) < k /\ ~(Cardinality(Before(W, pl, j)) < k)
    BY <1>1 DEF First
  <2>3. Cardinality(Before(W, pl, i)) \in Nat
    <3>1. Before(W, pl, i) \in SUBSET W
      BY DEF Before
    <3>. QED
      BY <3>1, FS_Subset, FS_CardinalityType
  <2>. QED
    BY <2>1, <2>2, <2>3
<1>. QED
  BY <1>1, <1>2

------------------------------------------------------------------------------
\* Items are appended one after the other.
Appended ==
    /\ \A i, j \in Used : place[i] = place[j] => i = j
    /\ \A i \in Items : place[i] <= Cardinality(Used)

SInv == IInv /\ Appended /\ SlotsWellUsed

LEMMA SlotsType == Slots \in Nat \ {0}
BY BuildAssumption

\* The facts of the first lemmas, for the items waiting in a queue q.
LEMMA WaitingFacts ==
    ASSUME SInv, NEW q \in SUBSET queue, NEW W \in SUBSET q
    PROVE  /\ IsFiniteSet(W) /\ \A j \in W : place[j] \in Nat
           /\ \A i, j \in q : place[i] = place[j] => i = j
<1>1. IsFiniteSet(queue)
  BY QueueFinite DEF SInv
<1>2. IsFiniteSet(W)
  BY <1>1, FS_Subset
<1>3. \A j \in queue : j \in Used /\ place[j] \in Nat
  BY DEF SInv, IInv, TypeOK, Ledger, Used
<1>. QED
  BY <1>2, <1>3 DEF SInv, Appended

\* cancelBuild and buildComplete leave every slot used that can be.
LEMMA RequeueFills ==
    ASSUME SInv, NEW i \in queue, NEW fate \in Status,
           Requeue(queue \ {i}, i, fate), UNCHANGED place
    PROVE  SlotsWellUsed'
<1>. DEFINE q == queue \ {i}
            running == active \cap q
            W == q \ running
            k == Slots - Cardinality(running)
            moved == First(W, place, k)
<1>1. q \in SUBSET queue /\ W \in SUBSET q /\ running \in SUBSET queue
  OBVIOUS
<1>2. /\ IsFiniteSet(W) /\ \A j \in W : place[j] \in Nat
      /\ \A x, y \in W : place[x] = place[y] => x = y
      /\ \A x, y \in q : place[x] = place[y] => x = y
      /\ IsFiniteSet(running)
      /\ \A x \in queue : place[x] \in Nat
  <2>1. IsFiniteSet(running)
    BY <1>1, QueueFinite, FS_Subset DEF SInv
  <2>2. \A x \in queue : place[x] \in Nat
    BY DEF SInv, IInv, TypeOK
  <2>. QED
    BY <1>1, <2>1, <2>2, WaitingFacts
<1>3. /\ queue' = q
      /\ active' = running \cup moved
  <2>1. Promoted(q, running) = moved
    BY Zenon DEF Promoted, First, Before
  <2>. QED
    BY <2>1, Zenon DEF Requeue
<1>4. Cardinality(running) \in Nat /\ Cardinality(running) <= Slots
  <2>1. active \in SUBSET queue
    BY DEF SInv, IInv, TypeOK
  <2>2. IsFiniteSet(active)
    BY <2>1, QueueFinite, FS_Subset DEF SInv
  <2>3. Cardinality(active) \in Nat /\ Cardinality(running) <= Cardinality(active)
    BY <2>2, FS_CardinalityType, FS_Subset
  <2>4. Cardinality(running) \in Nat
    BY <1>2, FS_CardinalityType
  <2>5. Cardinality(active) <= Slots
    BY DEF SInv, SlotsWellUsed
  <2>. QED
    BY <2>3, <2>4, <2>5, SlotsType
<1>5. k \in Nat
  BY <1>4, SlotsType
<1>6. moved \subseteq W
  BY DEF First
<1>. HIDE DEF moved, W, running, k
<1>7. IsFiniteSet(moved) /\ Cardinality(moved) \in Nat
  BY <1>2, <1>6, FS_Subset, FS_CardinalityType
<1>8. Cardinality(moved) <= k
  BY <1>2, <1>5, FirstBounded DEF moved
<1>9. Cardinality(running \cup moved) = Cardinality(running) + Cardinality(moved)
  <2>1. running \cap moved = {}
    BY <1>6 DEF W
  <2>2. Cardinality(running \cup moved)
          = Cardinality(running) + Cardinality(moved) - Cardinality({})
    BY <1>2, <1>7, <2>1, FS_Union
  <2>. QED
    BY <1>4, <1>7, <2>2, FS_EmptySet
<1>10. Cardinality(active') <= Slots
  BY <1>3, <1>4, <1>7, <1>8, <1>9, SlotsType DEF k
<1>11. ASSUME queue' # active' PROVE Cardinality(active') = Slots
  <2>1. moved # W
    BY <1>3, <1>11 DEF W, running
  <2>2. Cardinality(moved) = k
    BY <1>2, <1>5, <2>1, FirstFull DEF moved
  <2>. QED
    BY <1>3, <1>4, <1>9, <2>2, SlotsType DEF k
<1>12. ASSUME NEW x \in active', NEW y \in queue' \ active' PROVE place[x] < place[y]
  <2>1. y \in queue \ active /\ y \in W \ moved
    BY <1>3 DEF W, running
  <2>2. CASE x \in running
    BY <2>1, <2>2 DEF SInv, SlotsWellUsed, running
  <2>3. CASE x \in moved
    BY <1>2, <1>5, <2>1, <2>3, FirstOrdered DEF moved
  <2>. QED
    BY <1>3, <2>2, <2>3
<1>. QED
  BY <1>10, <1>11, <1>12 DEF SlotsWellUsed

\* startBuild runs the item when a slot is free, and then nothing waits.
LEMMA StartFills ==
    ASSUME SInv, NEW i \in Items, NEW t \in Types, StartBuild(i, t)
    PROVE  (Appended /\ SlotsWellUsed)'
<1>1. /\ place[i] = 0 /\ queue' = queue \cup {i}
      /\ place' = [place EXCEPT ![i] = Cardinality(Used) + 1]
      /\ IF Cardinality(active) < Slots THEN active' = active \cup {i}
                                        ELSE active' = active
  BY DEF StartBuild, Used
<1>2. i \notin queue /\ i \notin active /\ queue \subseteq Used
  BY <1>1 DEF SInv, IInv, TypeOK, Ledger, Used
<1>3. IsFiniteSet(Used) /\ Cardinality(Used) \in Nat
  BY QueueFinite, FS_CardinalityType DEF SInv
<1>4. /\ place'[i] = Cardinality(Used) + 1
      /\ \A j \in Items \ {i} : place'[j] = place[j]
      /\ \A j \in Items : place[j] \in Nat /\ place[j] <= Cardinality(Used)
  BY <1>1 DEF SInv, IInv, TypeOK, Appended
<1>5. Used' = Used \cup {i}
  <2>1. \A j \in Items : place'[j] # 0 <=> (j = i \/ place[j] # 0)
    BY <1>3, <1>4
  <2>. QED
    BY <2>1 DEF Used
<1>6. i \notin Used
  BY <1>1 DEF Used
<1>7. Cardinality(Used') = Cardinality(Used) + 1
  BY <1>3, <1>5, <1>6, FS_AddElement
<1>8. Appended'
  <2>1. ASSUME NEW x \in Used', NEW y \in Used', place'[x] = place'[y] PROVE x = y
    <3>1. x \in Items /\ y \in Items
      BY DEF Used
    <3>2. CASE x = i \/ y = i
      BY <1>3, <1>4, <2>1, <3>1, <3>2
    <3>3. CASE x # i /\ y # i
      BY <1>4, <1>5, <2>1, <3>1, <3>3 DEF SInv, Appended
    <3>. QED
      BY <3>2, <3>3
  <2>2. ASSUME NEW x \in Items PROVE place'[x] <= Cardinality(Used')
    <3>1. CASE x = i
      BY <1>3, <1>4, <1>7, <3>1
    <3>2. CASE x # i
      BY <1>3, <1>4, <1>7, <3>2
    <3>. QED
      BY <3>1, <3>2
  <2>. QED
    BY <2>1, <2>2 DEF Appended
<1>9. IsFiniteSet(active) /\ Cardinality(active) \in Nat
  <2>1. active \in SUBSET queue
    BY DEF SInv, IInv, TypeOK
  <2>. QED
    BY <2>1, QueueFinite, FS_Subset, FS_CardinalityType DEF SInv
<1>10. SlotsWellUsed'
  <2>1. CASE Cardinality(active) < Slots
    <3>1. queue = active
      BY <1>9, <2>1, SlotsType DEF SInv, SlotsWellUsed
    <3>2. active' = queue'
      BY <1>1, <2>1, <3>1
    <3>3. Cardinality(active') = Cardinality(active) + 1
      BY <1>1, <1>2, <1>9, <2>1, FS_AddElement
    <3>. QED
      BY <1>9, <2>1, <3>2, <3>3, SlotsType DEF SlotsWellUsed
  <2>2. CASE ~(Cardinality(active) < Slots)
    <3>1. active' = active /\ Cardinality(active) = Slots
      BY <1>1, <1>9, <2>2, SlotsType DEF SInv, SlotsWellUsed
    <3>2. ASSUME NEW x \in active', NEW y \in queue' \ active'
          PROVE place'[x] < place'[y]
      <4>1. x \in active /\ x # i /\ x \in Items
        BY <1>2, <3>1 DEF SInv, IInv, TypeOK
      <4>2. CASE y = i
        BY <1>3, <1>4, <4>1, <4>2
      <4>3. CASE y # i
        <5>1. y \in queue \ active /\ y \in Items
          BY <1>1, <3>1, <4>3 DEF SInv, IInv, TypeOK
        <5>. QED
          BY <1>4, <4>1, <4>3, <5>1 DEF SInv, SlotsWellUsed
      <4>. QED
        BY <4>2, <4>3
    <3>. QED
      BY <3>1, <3>2, SlotsType DEF SlotsWellUsed
  <2>. QED
    BY <2>1, <2>2
<1>. QED
  BY <1>8, <1>10

LEMMA PlacesStay == ASSUME SInv, UNCHANGED place PROVE Appended'
<1>1. Used' = Used
  BY DEF Used
<1>. QED
  BY <1>1 DEF SInv, Appended

LEMMA SlotsInit == Init => SInv
<1>. SUFFICES ASSUME Init PROVE SInv
  OBVIOUS
<1>1. Used = {} /\ Cardinality(Used) = 0
  BY FS_EmptySet DEF Init, Used
<1>2. Appended
  BY <1>1 DEF Init, Appended
<1>3. SlotsWellUsed
  BY FS_EmptySet, SlotsType DEF Init, SlotsWellUsed
<1>. QED
  BY <1>2, <1>3, InitInv DEF SInv

LEMMA SlotsNext == SInv /\ [BuildNext]_vars => SInv'
<1>. SUFFICES ASSUME SInv, [BuildNext]_vars PROVE SInv'
  OBVIOUS
<1>1. IInv'
  BY NextInv DEF SInv
<1>2. ASSUME NEW i \in Items, NEW t \in Types, StartBuild(i, t)
      PROVE (Appended /\ SlotsWellUsed)'
  BY <1>2, StartFills
<1>3. ASSUME NEW i \in Items, CancelBuild(i) PROVE (Appended /\ SlotsWellUsed)'
  <2>. DEFINE fate == IF i \in active THEN "deleted" ELSE event[i]
  <2>1. i \in queue /\ Requeue(queue \ {i}, i, fate) /\ UNCHANGED place
    BY <1>3, Zenon DEF CancelBuild
  <2>2. fate \in Status
    BY DEF SInv, IInv, TypeOK, Status
  <2>. HIDE DEF fate
  <2>. QED
    BY <2>1, <2>2, RequeueFills, PlacesStay
<1>4. ASSUME NEW i \in Items, BuildComplete(i) PROVE (Appended /\ SlotsWellUsed)'
  <2>1. UNCHANGED place
    BY <1>4 DEF BuildComplete
  <2>2. CASE i \in queue
    <3>1. Requeue(queue \ {i}, i, Done(i))
      BY <1>4, <2>2, Zenon DEF BuildComplete
    <3>2. Done(i) \in Status
      BY DEF Done, Status
    <3>. QED
      BY <2>1, <2>2, <3>1, <3>2, RequeueFills, PlacesStay
  <2>3. CASE i \notin queue
    BY <1>4, <2>1, <2>3, PlacesStay DEF BuildComplete, SInv, SlotsWellUsed
  <2>. QED
    BY <2>2, <2>3
<1>5. ASSUME UNCHANGED <<queue, place, active>> PROVE (Appended /\ SlotsWellUsed)'
  BY <1>5, PlacesStay DEF SInv, SlotsWellUsed
<1>. QED
  BY <1>1, <1>2, <1>3, <1>4, <1>5
     DEF SInv, BuildNext, ClaimBuild, RecordFailure, SiegePass,
         GetSettlementState, building, vars

\* The inductive invariant of the slots, for any number of them.
THEOREM SlotsInductive == Spec => []SInv
BY SlotsInit, SlotsNext, PTL DEF Spec

\* promoteWaitingItems, from cancelBuild and buildComplete alike: never more
\* builds than slots, no idle slot beside a waiting item, earliest first.
THEOREM SlotsAreWellUsed == Spec => []SlotsWellUsed
<1>1. SInv => SlotsWellUsed
  BY DEF SInv
<1>. QED
  BY <1>1, SlotsInductive, PTL
------------------------------------------------------------------------------
\* With one slot the queue lands in the order it was paid for, so an item's
\* target stays above the level that stands and the items of its type ahead.
Ahead(i) == {j \in queue : type[j] = type[i] /\ place[j] < place[i]}
TargetsAhead ==
    Slots = 1 => \A i \in queue :
                   target[i] >= level[type[i]] + Cardinality(Ahead(i)) + 1
RInv == SInv /\ TargetsAhead

LEMMA AheadFinite ==
    ASSUME SInv, NEW i \in queue
    PROVE  IsFiniteSet(Ahead(i)) /\ Cardinality(Ahead(i)) \in Nat
<1>1. Ahead(i) \in SUBSET queue
  BY DEF Ahead
<1>. QED
  BY <1>1, QueueFinite, FS_Subset, FS_CardinalityType DEF SInv

LEMMA ItemType ==
    ASSUME SInv, NEW i \in queue
    PROVE  /\ i \in Items /\ type[i] \in Types /\ target[i] \in Nat /\ place[i] \in Nat
           /\ level[type[i]] \in Nat
<1>1. i \in Items /\ type[i] \in Types /\ target[i] \in 1..MaxLevel /\ place[i] \in Nat
  BY DEF SInv, IInv, TypeOK
<1>2. level[type[i]] \in Nat
  BY <1>1, LevelType DEF SInv, IInv
<1>. QED
  BY <1>1, <1>2, MaxLevelType

\* cancelBuild and a siege only lower what stands and what is ahead.
LEMMA LowerAhead ==
    ASSUME RInv, queue' \in SUBSET queue, UNCHANGED <<type, target, place>>,
           \A t \in Types : level'[t] \in Nat /\ level'[t] <= level[t]
    PROVE  TargetsAhead'
<1>. SUFFICES ASSUME Slots = 1, NEW i \in queue'
              PROVE target[i] >= level'[type[i]] + Cardinality(Ahead(i)') + 1
  BY DEF TargetsAhead
<1>1. SInv /\ i \in queue /\ target[i] >= level[type[i]] + Cardinality(Ahead(i)) + 1
  BY DEF RInv, TargetsAhead
<1>2. IsFiniteSet(Ahead(i)) /\ Cardinality(Ahead(i)) \in Nat
  BY <1>1, AheadFinite
<1>3. Ahead(i)' \in SUBSET Ahead(i)
  BY DEF Ahead
<1>4. Cardinality(Ahead(i)') \in Nat /\ Cardinality(Ahead(i)') <= Cardinality(Ahead(i))
  BY <1>2, <1>3, FS_Subset, FS_CardinalityType
<1>5. level'[type[i]] \in Nat /\ level'[type[i]] <= level[type[i]]
  BY <1>1, ItemType
<1>. QED
  BY <1>1, <1>2, <1>4, <1>5, ItemType

\* The item whose build lands is ahead of every other.
LEMMA LandingIsFirst ==
    ASSUME SInv, Slots = 1, NEW i \in queue, i \in claimed, NEW j \in queue, j # i
    PROVE  place[i] < place[j]
<1>1. i \in active /\ active \in SUBSET queue
  BY DEF SInv, IInv, Ledger, TypeOK
<1>2. IsFiniteSet(active) /\ Cardinality(active) \in Nat
  BY <1>1, QueueFinite, FS_Subset, FS_CardinalityType DEF SInv
<1>3. j \notin active
  <2>. SUFFICES ASSUME j \in active PROVE FALSE
    OBVIOUS
  <2>1. Cardinality({i, j}) = 2 /\ IsFiniteSet({i, j})
    BY <1>1, PairCount
  <2>2. {i, j} \in SUBSET active
    BY <1>1
  <2>3. Cardinality({i, j}) <= Cardinality(active)
    BY <1>2, <2>2, FS_Subset
  <2>. QED
    BY <1>2, <2>1, <2>3 DEF SInv, SlotsWellUsed
<1>. QED
  BY <1>1, <1>3 DEF SInv, SlotsWellUsed

\* buildComplete: what is ahead shrinks by the item that raised the level.
LEMMA CompleteAhead ==
    ASSUME RInv, NEW i \in queue, BuildComplete(i) PROVE TargetsAhead'
<1>. SUFFICES ASSUME Slots = 1, NEW j \in queue'
              PROVE target[j] >= level'[type[j]] + Cardinality(Ahead(j)') + 1
  BY DEF TargetsAhead, BuildComplete
<1>. DEFINE b == type[i]
            n == IF target[i] < level[b] + 1 THEN target[i] ELSE level[b] + 1
<1>1. /\ i \in claimed /\ queue' = queue \ {i}
      /\ level' = [level EXCEPT ![b] = n] /\ UNCHANGED <<type, target, place>>
  BY Zenon DEF BuildComplete, Requeue
<1>2. SInv /\ j \in queue /\ j # i
      /\ target[j] >= level[type[j]] + Cardinality(Ahead(j)) + 1
  BY <1>1 DEF RInv, TargetsAhead
<1>3. /\ IsFiniteSet(Ahead(j)) /\ Cardinality(Ahead(j)) \in Nat
      /\ target[j] \in Nat /\ level[type[j]] \in Nat /\ type[j] \in Types
  BY <1>2, AheadFinite, ItemType
<1>4. Ahead(j)' = Ahead(j) \ {i}
  BY <1>1 DEF Ahead
<1>5. place[i] < place[j]
  BY <1>1, <1>2, LandingIsFirst
<1>6. level \in [Types -> 0..MaxLevel]
  BY <1>2 DEF SInv, IInv, TypeOK
<1>7. CASE type[j] = b
  <2>1. i \in Ahead(j)
    BY <1>5, <1>7 DEF Ahead
  <2>2. Cardinality(Ahead(j)') = Cardinality(Ahead(j)) - 1
    BY <1>3, <1>4, <2>1, FS_RemoveElement
  <2>3. level'[type[j]] = n
    BY <1>1, <1>3, <1>6, <1>7
  <2>4. n \in Nat /\ n <= level[type[j]] + 1
    BY <1>2, <1>3, <1>7, ItemType
  <2>. HIDE DEF n, b
  <2>. QED
    BY <1>2, <1>3, <2>2, <2>3, <2>4
<1>8. CASE type[j] # b
  <2>1. i \notin Ahead(j)
    BY <1>8 DEF Ahead
  <2>2. Ahead(j)' = Ahead(j)
    BY <1>4, <2>1
  <2>3. level'[type[j]] = level[type[j]]
    BY <1>1, <1>3, <1>6, <1>8
  <2>. QED
    BY <1>2, <2>2, <2>3
<1>. QED
  BY <1>7, <1>8

\* startBuild aims one level above what stands and all that is queued.
LEMMA StartAhead ==
    ASSUME RInv, NEW i \in Items, NEW t \in Types, StartBuild(i, t)
    PROVE  TargetsAhead'
<1>. SUFFICES ASSUME Slots = 1, NEW j \in queue'
              PROVE target'[j] >= level'[type'[j]] + Cardinality(Ahead(j)') + 1
  BY DEF TargetsAhead
<1>1. /\ place[i] = 0 /\ queue' = queue \cup {i}
      /\ type' = [type EXCEPT ![i] = t]
      /\ target' = [target EXCEPT ![i] = TargetLevel(t)]
      /\ place' = [place EXCEPT ![i] = Cardinality(Used) + 1]
      /\ level' = level
  BY DEF StartBuild, Used
<1>2. SInv /\ i \notin queue /\ queue \subseteq Used
  BY <1>1 DEF RInv, SInv, IInv, TypeOK, Ledger, Used
<1>3. Cardinality(Used) \in Nat
  BY <1>2, QueueFinite, FS_CardinalityType DEF SInv
<1>4. \A x \in queue : /\ x # i /\ x \in Items /\ type'[x] = type[x]
                       /\ target'[x] = target[x] /\ place'[x] = place[x]
                       /\ place[x] \in Nat /\ place[x] <= Cardinality(Used)
  BY <1>1, <1>2 DEF SInv, IInv, TypeOK, Appended
<1>5. type'[i] = t /\ target'[i] = TargetLevel(t) /\ place'[i] = Cardinality(Used) + 1
  BY <1>1, <1>2 DEF SInv, IInv, TypeOK
<1>6. CASE j = i
  <2>1. Ahead(i)' = QueuedOf(t)
    BY <1>1, <1>3, <1>4, <1>5 DEF Ahead, QueuedOf
  <2>2. IsFiniteSet(QueuedOf(t))
    <3>1. QueuedOf(t) \in SUBSET queue
      BY DEF QueuedOf
    <3>. QED
      BY <1>2, <3>1, QueueFinite, FS_Subset DEF SInv
  <2>3. Cardinality(QueuedOf(t)) \in Nat /\ level[t] \in Nat
    BY <1>2, <2>2, FS_CardinalityType, LevelType DEF SInv, IInv
  <2>. QED
    BY <1>1, <1>5, <1>6, <2>1, <2>3 DEF TargetLevel
<1>7. CASE j # i
  <2>1. j \in queue
    BY <1>1, <1>7
  <2>2. Ahead(j)' = Ahead(j)
    BY <1>1, <1>3, <1>4, <1>5, <2>1 DEF Ahead
  <2>. QED
    BY <1>1, <1>4, <2>1, <2>2 DEF RInv, TargetsAhead
<1>. QED
  BY <1>6, <1>7

LEMMA RankInit == Init => RInv
BY SlotsInit DEF Init, RInv, TargetsAhead

LEMMA RankNext == RInv /\ [BuildNext]_vars => RInv'
<1>. SUFFICES ASSUME RInv, [BuildNext]_vars PROVE RInv'
  OBVIOUS
<1>1. SInv'
  BY SlotsNext DEF RInv
<1>2. \A t \in Types : level[t] \in Nat
  BY LevelType DEF RInv, SInv, IInv
<1>3. ASSUME NEW i \in Items, NEW t \in Types, StartBuild(i, t) PROVE TargetsAhead'
  BY <1>3, StartAhead
<1>4. ASSUME NEW i \in Items, CancelBuild(i) PROVE TargetsAhead'
  <2>1. queue' \in SUBSET queue /\ UNCHANGED <<level, type, target, place>>
    BY <1>4 DEF CancelBuild, Requeue
  <2>. QED
    BY <1>2, <2>1, LowerAhead
<1>5. ASSUME NEW i \in Items, BuildComplete(i) PROVE TargetsAhead'
  <2>1. CASE i \in queue
    BY <1>5, <2>1, CompleteAhead
  <2>2. CASE i \notin queue
    <3>1. UNCHANGED <<queue, level, type, target, place>>
      BY <1>5, <2>2 DEF BuildComplete
    <3>. QED
      BY <1>2, <3>1, LowerAhead
  <2>. QED
    BY <2>1, <2>2
<1>6. ASSUME NEW t \in Types, SiegePass(t) PROVE TargetsAhead'
  <2>1. PICK l \in 0..level[t] : level' = [level EXCEPT ![t] = l]
    BY <1>6, Zenon DEF SiegePass
  <2>2. level \in [Types -> 0..MaxLevel]
    BY DEF RInv, SInv, IInv, TypeOK
  <2>3. \A u \in Types : level'[u] \in Nat /\ level'[u] <= level[u]
    BY <1>2, <2>1, <2>2
  <2>4. UNCHANGED <<queue, type, target, place>>
    BY <1>6 DEF SiegePass, building
  <2>. QED
    BY <2>3, <2>4, LowerAhead
<1>7. ASSUME UNCHANGED <<queue, level, type, target, place>> PROVE TargetsAhead'
  BY <1>2, <1>7, LowerAhead
<1>8. TargetsAhead'
  <2>1. \A t \in Besieged : t \in Types
    BY BuildAssumption
  <2>. QED
    BY <1>3, <1>4, <1>5, <1>6, <1>7, <2>1
       DEF BuildNext, ClaimBuild, RecordFailure, GetSettlementState, building,
           vars, settlement
<1>. QED
  BY <1>1, <1>8 DEF RInv

\* A build that lands is one level, whatever was besieged or cancelled since.
LEMMA LandingRaises ==
    ASSUME RInv, BuildNext, Slots = 1,
           NEW i \in Items, i \in queue \ queue', event'[i] = "done"
    PROVE  level'[type[i]] = level[type[i]] + 1
<1>1. CASE BuildComplete(i)
  <2>1. level' = [level EXCEPT ![type[i]] =
                    IF target[i] < @ + 1 THEN target[i] ELSE @ + 1]
    BY <1>1, Zenon DEF BuildComplete
  <2>2. /\ target[i] >= level[type[i]] + Cardinality(Ahead(i)) + 1
        /\ Cardinality(Ahead(i)) \in Nat
        /\ level[type[i]] \in Nat /\ target[i] \in Nat /\ type[i] \in Types
    BY AheadFinite, ItemType DEF RInv, TargetsAhead
  <2>3. level \in [Types -> 0..MaxLevel]
    BY DEF RInv, SInv, IInv, TypeOK
  <2>. QED
    BY <2>1, <2>2, <2>3
<1>2. ASSUME NEW j \in Items, j # i, BuildComplete(j) \/ CancelBuild(j) PROVE FALSE
  <2>1. queue' = queue \/ queue' = queue \ {j}
    BY <1>2 DEF BuildComplete, CancelBuild, Requeue
  <2>. QED
    BY <1>2, <2>1
<1>3. CASE CancelBuild(i)
  <2>. DEFINE fate == IF i \in active THEN "deleted" ELSE event[i]
  <2>1. Requeue(queue \ {i}, i, fate)
    BY <1>3, Zenon DEF CancelBuild
  <2>2. fate # "done"
    BY DEF RInv, SInv, IInv, RunningIffScheduled
  <2>. HIDE DEF fate
  <2>3. event'[i] = fate
    <3>1. Promoted(queue \ {i}, active \cap (queue \ {i})) \subseteq queue \ {i}
      BY DEF Promoted
    <3>. QED
      BY <2>1, <3>1 DEF Requeue
  <2>. QED
    BY <2>2, <2>3
<1>4. CASE \/ \E j \in Items, t \in Types : StartBuild(j, t)
           \/ \E j \in Items : ClaimBuild(j) \/ RecordFailure(j)
           \/ \E t \in Besieged : SiegePass(t)
           \/ GetSettlementState
  BY <1>4 DEF StartBuild, ClaimBuild, RecordFailure, SiegePass,
      GetSettlementState, building
<1>. QED
  BY <1>1, <1>2, <1>3, <1>4 DEF BuildNext

THEOREM TargetsInductive == Spec => []RInv
BY RankInit, RankNext, PTL DEF Spec

\* buildComplete with the one slot the game is configured with: an upgrade that
\* was paid for and lands is never lost to the bound of its target level.
THEOREM PaidUpgradesLand == ASSUME Slots = 1 PROVE Spec => EveryLandingRaises
<1>1. ASSUME RInv, [BuildNext]_vars
      PROVE  [\A i \in Items : i \in queue \ queue' /\ event'[i] = "done"
                => level'[type[i]] = level[type[i]] + 1]_vars
  BY <1>1, LandingRaises
<1>. QED
  BY <1>1, TargetsInductive, PTL DEF Spec, EveryLandingRaises

------------------------------------------------------------------------------
(***************************************************************************)
(* For any orders, batches, barracks and whatever the build queue beside   *)
(* them does: every unit that was paid for is credited by its own event,   *)
(* once, and the chain of events of an unfinished order never breaks.      *)
(*                                                                         *)
(* Neither is inductive.  What a late or repeated event cannot do rests on *)
(* there being no event yet, and no worker with one, for a count the order *)
(* has not come down to.                                                   *)
(***************************************************************************)

Counts == 1..MaxBatch

OrderTypes ==
    /\ site \in [Orders -> Barracks \cup {"none"}]
    /\ total \in [Orders -> 0..MaxBatch]
    /\ left \in [Orders -> 0..MaxBatch]
    /\ credits \in [UnitEvents -> Nat]
    /\ unitEvent \in [UnitEvents -> Status]
    /\ unitClaimed \subseteq UnitEvents

\* What is still to come of an order has no event: nothing of a fresh order, and
\* of any other the counts below the one it has now.
Unscheduled(o) ==
    \A k \in Counts :
        site[o] = "none" \/ k < left[o]
        => unitEvent[<<o, k>>] = "none" /\ <<o, k>> \notin unitClaimed

\* One order's share of EachUnitOnce and of ChainUnbroken.
Sound(o) ==
    /\ site[o] = "none" => left[o] = 0 /\ total[o] = 0
    /\ left[o] <= total[o]
    /\ Unscheduled(o)
    /\ left[o] > 0 => unitEvent[<<o, left[o]>>] \in {"due", "failed"}
    /\ \A k \in Counts :
         credits[<<o, k>>] = IF left[o] < k /\ k <= total[o] THEN 1 ELSE 0

OneOrderEach ==
    \A o, p \in Orders :
        left[o] > 0 /\ left[p] > 0 /\ site[o] = site[p] => o = p

OrderInv == OrderTypes /\ (\A o \in Orders : Sound(o)) /\ OneOrderEach

\* Fresh orders only.
LEMMA InitInvariant == QueuesInit => OrderInv
<1> SUFFICES ASSUME QueuesInit PROVE OrderInv
    OBVIOUS
<1> USE TrainingAssumption
<1>1. OrderTypes
    BY DEF QueuesInit, OrderTypes, Status, UnitEvents
<1>2. ASSUME NEW o \in Orders PROVE Sound(o)
    BY DEF QueuesInit, Sound, Unscheduled, Counts, UnitEvents
<1>3. OneOrderEach
    BY DEF QueuesInit, OneOrderEach
<1> QED BY <1>1, <1>2, <1>3 DEF OrderInv

\* An order nothing happened to is as sound as before.
LEMMA OtherOrders ==
    ASSUME OrderInv, NEW o \in Orders,
           site'[o] = site[o], total'[o] = total[o], left'[o] = left[o],
           \A k \in Counts :
              /\ unitEvent'[<<o, k>>] = unitEvent[<<o, k>>]
              /\ <<o, k>> \in unitClaimed' <=> <<o, k>> \in unitClaimed
              /\ credits'[<<o, k>>] = credits[<<o, k>>]
    PROVE  Sound(o)'
<1>1. left[o] > 0 => left[o] \in Counts
    BY TrainingAssumption DEF OrderInv, OrderTypes, Counts
<1> QED BY <1>1 DEF OrderInv, Sound, Unscheduled

\* A new order of n units has one event, for all n.
LEMMA TrainStep ==
    ASSUME OrderInv, NEW o \in Orders, NEW b \in Barracks, TrainUnits(o, b)
    PROVE  OrderInv'
<1> USE TrainingAssumption
<1>1. PICK n \in Counts :
         /\ \A p \in Orders : site[p] = b => left[p] = 0
         /\ total' = [total EXCEPT ![o] = n]
         /\ left' = [left EXCEPT ![o] = n]
         /\ unitEvent' = [unitEvent EXCEPT ![<<o, n>>] = "due"]
    BY DEF TrainUnits, MayTrain, Counts
<1>2. /\ site[o] = "none" /\ site' = [site EXCEPT ![o] = b]
      /\ credits' = credits /\ unitClaimed' = unitClaimed
    BY DEF TrainUnits
<1>3. OrderTypes
    BY DEF OrderInv
<1>4. OrderTypes'
    <2>1. unitEvent' \in [UnitEvents -> Status]
        BY <1>1, <1>3 DEF OrderTypes, Status
    <2>2. /\ total' \in [Orders -> 0..MaxBatch] /\ left' \in [Orders -> 0..MaxBatch]
          /\ site' \in [Orders -> Barracks \cup {"none"}]
        BY <1>1, <1>2, <1>3 DEF OrderTypes, Counts
    <2> QED BY <1>2, <1>3, <2>1, <2>2 DEF OrderTypes
<1>5. /\ site'[o] = b /\ total'[o] = n /\ left'[o] = n
      /\ n \in Nat /\ n > 0
    BY <1>1, <1>2, <1>3 DEF OrderTypes, Counts
<1>6. \A p \in Orders, k \in Counts :
         unitEvent'[<<p, k>>] = IF p = o /\ k = n THEN "due" ELSE unitEvent[<<p, k>>]
    BY <1>1, <1>3 DEF OrderTypes, UnitEvents, Counts
<1>7. Sound(o)'
    <2>1. \A k \in Counts : /\ unitEvent[<<o, k>>] = "none" /\ <<o, k>> \notin unitClaimed
                            /\ credits[<<o, k>>] = 0
        <3>1. Sound(o) /\ left[o] = 0 /\ total[o] = 0
            BY <1>2 DEF OrderInv, Sound
        <3>2. \A k \in Counts : credits[<<o, k>>] = 0
            BY <3>1 DEF Sound, Counts
        <3>3. \A k \in Counts : unitEvent[<<o, k>>] = "none" /\ <<o, k>> \notin unitClaimed
            BY <1>2, <3>1 DEF Sound, Unscheduled
        <3> QED BY <3>2, <3>3
    <2>2. Unscheduled(o)'
        BY <1>2, <1>5, <1>6, <2>1 DEF Unscheduled, Counts
    <2>3. \A k \in Counts : credits'[<<o, k>>] = IF n < k /\ k <= n THEN 1 ELSE 0
        BY <1>2, <1>5, <2>1 DEF Counts
    <2> QED BY <1>1, <1>2, <1>5, <1>6, <2>2, <2>3 DEF Sound
<1>8. ASSUME NEW p \in Orders, p # o PROVE Sound(p)'
    <2>1. site'[p] = site[p] /\ total'[p] = total[p] /\ left'[p] = left[p]
        BY <1>1, <1>2, <1>3, <1>8 DEF OrderTypes
    <2> QED BY <1>2, <1>6, <1>8, <2>1, OtherOrders
<1>9. OneOrderEach'
    <2>1. \A p \in Orders : p # o => site'[p] = site[p] /\ left'[p] = left[p]
        BY <1>1, <1>2, <1>3 DEF OrderTypes
    <2> QED BY <1>1, <1>3, <1>5, <2>1 DEF OrderInv, OneOrderEach, OrderTypes
<1> QED BY <1>4, <1>7, <1>8, <1>9 DEF OrderInv

\* The handler: the event of the count the order has now credits one unit and
\* schedules the next; any other is only marked done.
LEMMA CompleteStep ==
    ASSUME OrderInv, NEW o \in Orders, NEW k \in Counts, TrainingComplete(o, k)
    PROVE  OrderInv'
<1> USE TrainingAssumption
<1>1. /\ <<o, k>> \in unitClaimed
      /\ site' = site /\ total' = total /\ unitClaimed' = unitClaimed
    BY DEF TrainingComplete
<1>2. OrderTypes /\ Sound(o) /\ k \in Nat /\ k > 0
    BY DEF OrderInv, Counts
<1>3. site[o] # "none" /\ left[o] <= k
    BY <1>1, <1>2 DEF Sound, Unscheduled, OrderTypes
<1>4. CASE left[o] = k
    <2>1. /\ left' = [left EXCEPT ![o] = k - 1]
          /\ credits' = [credits EXCEPT ![<<o, k>>] = @ + 1]
          /\ unitEvent' = [e \in UnitEvents |-> IF e = <<o, k>> THEN "done"
                                                ELSE IF e = <<o, k - 1>> THEN "due"
                                                ELSE unitEvent[e]]
        BY <1>4 DEF TrainingComplete, Credit
    <2>2. /\ left'[o] = k - 1 /\ k - 1 \in Nat /\ k <= total[o] /\ k - 1 <= MaxBatch
          /\ \A p \in Orders : p # o => left'[p] = left[p]
        BY <1>2, <1>4, <2>1 DEF OrderTypes, Sound, Counts
    <2>3. \A p \in Orders, j \in Counts :
            /\ unitEvent'[<<p, j>>] = IF p = o /\ j = k THEN "done"
                                      ELSE IF p = o /\ j = k - 1 THEN "due"
                                      ELSE unitEvent[<<p, j>>]
            /\ credits'[<<p, j>>] = IF p = o /\ j = k THEN credits[<<p, j>>] + 1
                                    ELSE credits[<<p, j>>]
        BY <1>2, <2>1 DEF OrderTypes, UnitEvents, Counts
    <2>4. OrderTypes'
        <3>1. left' \in [Orders -> 0..MaxBatch]
            BY <1>2, <2>1, <2>2 DEF OrderTypes
        <3>2. credits' \in [UnitEvents -> Nat]
            <4>1. <<o, k>> \in UnitEvents
                BY DEF UnitEvents, Counts
            <4>2. credits[<<o, k>>] + 1 \in Nat
                BY <1>2, <4>1 DEF OrderTypes
            <4> QED BY <1>2, <2>1, <4>2 DEF OrderTypes
        <3>3. unitEvent' \in [UnitEvents -> Status]
            BY <1>2, <2>1 DEF OrderTypes, Status
        <3> QED BY <1>1, <1>2, <3>1, <3>2, <3>3 DEF OrderTypes
    <2>5. Sound(o)'
        <3>1. Unscheduled(o)'
            <4>1. ASSUME NEW j \in Counts, j < k - 1
                  PROVE  unitEvent'[<<o, j>>] = "none" /\ <<o, j>> \notin unitClaimed
                BY <1>2, <1>4, <2>3, <4>1 DEF Sound, Unscheduled, Counts
            <4> QED BY <1>1, <1>3, <2>2, <4>1 DEF Unscheduled
        <3>2. k - 1 > 0 => unitEvent'[<<o, k - 1>>] = "due"
            <4>1. k - 1 > 0 => k - 1 \in Counts
                BY DEF Counts
            <4> QED BY <1>2, <2>3, <4>1
        <3>3. \A j \in Counts : credits'[<<o, j>>] =
                  IF k - 1 < j /\ j <= total[o] THEN 1 ELSE 0
            <4>1. \A j \in Counts : credits[<<o, j>>] =
                      IF k < j /\ j <= total[o] THEN 1 ELSE 0
                BY <1>2, <1>4 DEF Sound
            <4>2. total[o] \in Nat
                BY <1>2 DEF OrderTypes
            <4> QED BY <1>2, <2>2, <2>3, <4>1, <4>2 DEF Counts
        <3> QED BY <1>1, <1>2, <1>3, <2>2, <3>1, <3>2, <3>3 DEF Sound, OrderTypes
    <2>6. ASSUME NEW p \in Orders, p # o PROVE Sound(p)'
        BY <1>1, <2>2, <2>3, <2>6, OtherOrders
    <2>7. OneOrderEach'
        <3>1. \A p \in Orders : left'[p] > 0 => left[p] > 0
            BY <1>2, <1>4, <2>2
        <3> QED BY <1>1, <3>1 DEF OrderInv, OneOrderEach
    <2> QED BY <2>4, <2>5, <2>6, <2>7 DEF OrderInv
<1>5. CASE left[o] # k
    <2>1. /\ left' = left /\ credits' = credits
          /\ unitEvent' = [unitEvent EXCEPT ![<<o, k>>] = "done"]
        BY <1>5 DEF TrainingComplete
    <2>2. \A p \in Orders, j \in Counts :
            unitEvent'[<<p, j>>] = IF p = o /\ j = k THEN "done" ELSE unitEvent[<<p, j>>]
        BY <1>2, <2>1 DEF OrderTypes, UnitEvents, Counts
    <2>3. OrderTypes'
        BY <1>1, <1>2, <2>1 DEF OrderTypes, Status
    <2>4. Sound(o)'
        <3>1. left[o] > 0 => left[o] \in Counts
            BY <1>2 DEF OrderTypes, Counts
        <3>2. Unscheduled(o)'
            BY <1>1, <1>2, <1>3, <2>1, <2>2 DEF Sound, Unscheduled, OrderTypes, Counts
        <3> QED BY <1>1, <1>2, <1>5, <2>1, <2>2, <3>1, <3>2 DEF Sound
    <2>5. ASSUME NEW p \in Orders, p # o PROVE Sound(p)'
        BY <1>1, <2>1, <2>2, <2>5, OtherOrders
    <2>6. OneOrderEach'
        BY <1>1, <2>1 DEF OrderInv, OneOrderEach
    <2> QED BY <2>3, <2>4, <2>5, <2>6 DEF OrderInv
<1> QED BY <1>4, <1>5

\* Claims and failures concern only events that were scheduled.
LEMMA SchedulerStep ==
    ASSUME OrderInv, NEW e \in UnitEvents, ClaimUnit(e) \/ UnitFailure(e)
    PROVE  OrderInv'
<1> USE TrainingAssumption
<1>1. /\ site' = site /\ total' = total /\ left' = left /\ credits' = credits
      /\ unitClaimed \subseteq unitClaimed' /\ unitClaimed' \subseteq unitClaimed \cup {e}
    BY DEF ClaimUnit, UnitFailure
<1>2. PICK o \in Orders, k \in Counts : e = <<o, k>>
    BY DEF UnitEvents, Counts
<1>3. OrderTypes /\ Sound(o)
    BY DEF OrderInv
<1>4. \/ unitEvent[e] = "due" /\ unitEvent' = unitEvent
      \/ /\ e \in unitClaimed /\ unitClaimed' = unitClaimed
         /\ \E s \in {"due", "failed"} : unitEvent' = [unitEvent EXCEPT ![e] = s]
    BY DEF ClaimUnit, UnitFailure
<1>5. site[o] # "none" /\ ~(k < left[o])
    BY <1>2, <1>3, <1>4 DEF Sound, Unscheduled
<1>6. \A p \in Orders, j \in Counts :
        /\ ~(p = o /\ j = k) => unitEvent'[<<p, j>>] = unitEvent[<<p, j>>]
        /\ unitEvent'[<<o, k>>] \in {"due", "failed"}
    BY <1>2, <1>3, <1>4 DEF OrderTypes, UnitEvents, Counts
<1>7. OrderTypes'
    BY <1>1, <1>3, <1>4 DEF OrderTypes, Status
<1>8. Sound(o)'
    <2>1. left[o] > 0 => left[o] \in Counts
        BY <1>3 DEF OrderTypes, Counts
    <2>2. Unscheduled(o)'
        BY <1>1, <1>2, <1>3, <1>5, <1>6 DEF Sound, Unscheduled
    <2> QED BY <1>1, <1>3, <1>6, <2>1, <2>2 DEF Sound
<1>9. ASSUME NEW p \in Orders, p # o PROVE Sound(p)'
    BY <1>1, <1>2, <1>6, <1>9, OtherOrders
<1>10. OneOrderEach'
    BY <1>1 DEF OrderInv, OneOrderEach
<1> QED BY <1>7, <1>8, <1>9, <1>10 DEF OrderInv

\* The inductive invariant holds in every behaviour; what the build queue does
\* leaves the orders alone.
LEMMA OrderNext == OrderInv /\ [QueuesNext]_<<vars, training>> => OrderInv'
<1> SUFFICES ASSUME OrderInv, [QueuesNext]_<<vars, training>> PROVE OrderInv'
    OBVIOUS
<1>1. CASE UNCHANGED training
    BY <1>1 DEF training, OrderInv, OrderTypes, Sound, Unscheduled, OneOrderEach
<1>2. CASE TrainingNext
    BY <1>2, TrainStep, CompleteStep, SchedulerStep DEF TrainingNext, Counts
<1> QED BY <1>1, <1>2 DEF QueuesNext

LEMMA Invariance == QueuesSpec => []OrderInv
BY InitInvariant, OrderNext, PTL DEF QueuesSpec

\* Every unit that was paid for is credited by its own event, once, however
\* often, late or out of order its event and the others are handled.
THEOREM UnitsCreditedOnce == QueuesSpec => []EachUnitOnce
<1>1. OrderInv => EachUnitOnce
    BY DEF OrderInv, Sound, EachUnitOnce, Counts
<1> QED BY Invariance, <1>1, PTL

\* An unfinished order always has the event for its next unit, waiting or
\* dead-lettered, and no building trains two orders.
THEOREM ChainsUnbroken == QueuesSpec => []ChainUnbroken
<1>1. OrderInv => ChainUnbroken
    BY DEF OrderInv, Sound, OneOrderEach, ChainUnbroken
<1> QED BY Invariance, <1>1, PTL

------------------------------------------------------------------------------
(***************************************************************************)
(* The books of both queues together.  That they balance is preserved by   *)
(* every step, given what the two invariants say of the queues: an item    *)
(* that is appended is new, and an order that starts had nothing left.     *)
(***************************************************************************)

\* The bills of the queued items, before and after a step.
LEMMA BillTypes ==
    ASSUME IInv, IInv'
    PROVE  /\ IsFiniteSet(queue) /\ queue \subseteq Items /\ queue' \subseteq Items
           /\ \A i \in Items : [j \in Items |-> Cost(j)][i] = Cost(i) /\ Cost(i) \in Int
           /\ \A i \in Items : [j \in Items |-> Cost(j)']
                                   [i] = Cost(i)' /\ Cost(i)' \in Int
           /\ InQueue \in Int
<1>1. IsFiniteSet(queue) /\ queue \subseteq Items /\ queue' \subseteq Items
  BY QueueFinite DEF IInv, TypeOK
<1>2. \A i \in Items : Cost(i) \in Int
  BY CostType DEF IInv
<1>3. \A i \in Items : Cost(i)' \in Int
  BY PriceType DEF IInv, TypeOK, Cost
<1>4. InQueue \in Int
  <2>. DEFINE f == [i \in Items |-> Cost(i)]
  <2>1. \A i \in queue : f[i] \in Int
    BY <1>1, <1>2
  <2>2. SumFunctionOnSet(f, queue) \in Int
    <3>. HIDE DEF f
    <3>. QED
      BY <1>1, <2>1, SumAny
  <2>. QED
    BY <2>2 DEF InQueue
<1>. QED
  BY <1>1, <1>2, <1>3, <1>4

\* An upgrade that starts adds its price to what is in the queue.
LEMMA StartBills ==
    ASSUME IInv, IInv', NEW i \in Items, NEW t \in Types, StartBuild(i, t)
    PROVE  books' = books + (stock' - stock) + (InQueue' - InQueue)
<1>. DEFINE p == Price[t][TargetLevel(t)]
            f == [j \in Items |-> Cost(j)]
            g == [j \in Items |-> Cost(j)']
<1>1. PICK s \in Settled : stock' = s - p /\ books' = books + (s - stock)
  BY Zenon DEF StartBuild
<1>2. /\ place[i] = 0 /\ queue' = queue \cup {i}
      /\ type' = [type EXCEPT ![i] = t] /\ target' = [target EXCEPT ![i] = TargetLevel(t)]
  BY DEF StartBuild
<1>3. i \notin queue
  BY <1>2 DEF IInv, Ledger
<1>4. Cost(i)' = p /\ \A j \in Items : j # i => Cost(j)' = Cost(j)
  BY <1>2 DEF Cost, IInv, TypeOK
<1>5. /\ \A j \in queue : f[j] \in Int /\ f[j] = g[j]
      /\ \A j \in queue : g[j] \in Int
      /\ g[i] = p /\ p \in Int /\ g[i] \in Int
  BY <1>3, <1>4, BillTypes
<1>6. IsFiniteSet(queue) /\ InQueue \in Int
  BY BillTypes
<1>7. InQueue = SumFunctionOnSet(f, queue)
  BY DEF InQueue
<1>8. InQueue' = SumFunctionOnSet(g, queue \cup {i})
  BY <1>2 DEF InQueue
<1>. HIDE DEF f, g, p
<1>9. SumFunctionOnSet(f, queue) = SumFunctionOnSet(g, queue)
  BY <1>5, <1>6, SumSame
<1>10. SumFunctionOnSet(g, queue \cup {i}) = SumFunctionOnSet(g, queue) + g[i]
  BY <1>3, <1>5, <1>6, SumAdd
<1>11. s \in Nat /\ stock \in Nat /\ books \in Int
  BY SettledType DEF IInv, TypeOK
<1>. QED
  BY <1>1, <1>5, <1>6, <1>7, <1>8, <1>9, <1>10, <1>11

\* One that leaves the queue takes it out again.
LEMMA LeaveBills ==
    ASSUME IInv, IInv', NEW i \in queue, queue' = queue \ {i}, UNCHANGED <<type, target>>
    PROVE  InQueue' = InQueue - Cost(i) /\ Cost(i) \in Int /\ InQueue \in Int
<1>. DEFINE f == [j \in Items |-> Cost(j)]
<1>1. \A j \in Items : Cost(j)' = Cost(j)
  BY DEF Cost
<1>2. InQueue = SumFunctionOnSet(f, queue) /\ InQueue' = SumFunctionOnSet(f, queue \ {i})
  <2>1. [j \in Items |-> Cost(j)'] = f
    BY <1>1
  <2>. QED
    BY <2>1 DEF InQueue
<1>3. /\ IsFiniteSet(queue) /\ IsFiniteSet(queue \ {i}) /\ InQueue \in Int
      /\ \A j \in queue : f[j] \in Int
      /\ f[i] = Cost(i) /\ Cost(i) \in Int
  BY BillTypes, FS_RemoveElement
<1>. HIDE DEF f
<1>4. SumFunctionOnSet(f, queue) = f[i] + SumFunctionOnSet(f, queue \ {i})
  BY <1>3, SumAny
<1>5. SumFunctionOnSet(f, queue \ {i}) \in Int
  BY <1>3, SumAny
<1>. QED
  BY <1>2, <1>3, <1>4, <1>5

LEMMA BuildBills ==
    ASSUME IInv, IInv', BuildNext
    PROVE  books' = books + (stock' - stock) + (InQueue' - InQueue)
<1>1. ASSUME NEW i \in Items, CancelBuild(i)
      PROVE  books' = books + (stock' - stock) + (InQueue' - InQueue)
  <2>1. PICK s \in Settled : stock' = s + Cost(i) /\ books' = books + (s - stock)
    BY <1>1, Zenon DEF CancelBuild
  <2>2. i \in queue /\ queue' = queue \ {i} /\ UNCHANGED <<type, target>>
    BY <1>1 DEF CancelBuild, Requeue
  <2>3. InQueue' = InQueue - Cost(i) /\ Cost(i) \in Int /\ InQueue \in Int
    BY <2>2, LeaveBills
  <2>4. s \in Nat /\ stock \in Nat /\ books \in Int
    BY SettledType DEF IInv, TypeOK
  <2>. QED
    BY <2>1, <2>3, <2>4
<1>2. ASSUME NEW i \in Items, BuildComplete(i), i \in queue
      PROVE  books' = books + (stock' - stock) + (InQueue' - InQueue)
  <2>1. /\ queue' = queue \ {i} /\ UNCHANGED <<stock, type, target>>
        /\ books' = books - Cost(i)
    BY <1>2 DEF BuildComplete, Requeue
  <2>2. InQueue' = InQueue - Cost(i) /\ Cost(i) \in Int /\ InQueue \in Int
    BY <1>2, <2>1, LeaveBills
  <2>3. stock \in Nat /\ books \in Int
    BY DEF IInv, TypeOK
  <2>. QED
    BY <2>1, <2>2, <2>3
<1>3. ASSUME UNCHANGED <<queue, type, target>>, stock' \in Int, books' = books + (stock' - stock)
      PROVE  books' = books + (stock' - stock) + (InQueue' - InQueue)
  <2>1. InQueue' = InQueue /\ InQueue \in Int
    BY <1>3, BillTypes DEF InQueue, Cost
  <2>2. stock \in Int /\ books \in Int /\ books' \in Int
    BY DEF IInv, TypeOK
  <2>3. stock' \in Int
    BY <1>3
  <2>4. books' = books + (stock' - stock)
    BY <1>3
  <2>. QED
    BY <2>1, <2>2, <2>3, <2>4
<1>4. ASSUME NEW i \in Items, \/ ClaimBuild(i) \/ RecordFailure(i)
                              \/ BuildComplete(i) /\ i \notin queue
      PROVE  books' = books + (stock' - stock) + (InQueue' - InQueue)
  <2>1. UNCHANGED <<queue, type, target, stock, books>>
    BY <1>4 DEF ClaimBuild, RecordFailure, BuildComplete, settlement
  <2>2. stock' \in Int /\ books' = books + (stock' - stock)
    BY <2>1 DEF IInv, TypeOK
  <2>. QED
    BY <1>3, <2>1, <2>2
<1>5. ASSUME NEW t \in Types, SiegePass(t)
      PROVE  books' = books + (stock' - stock) + (InQueue' - InQueue)
  <2>1. PICK s \in 0..stock : stock' = s /\ books' = books - (stock - s)
    BY <1>5 DEF SiegePass
  <2>2. stock' \in Int /\ books' = books + (stock' - stock)
    BY <2>1 DEF IInv, TypeOK
  <2>. QED
    BY <1>3, <1>5, <2>2 DEF SiegePass, building
<1>6. ASSUME GetSettlementState
      PROVE  books' = books + (stock' - stock) + (InQueue' - InQueue)
  <2>1. PICK s \in Settled : stock' = s /\ books' = books + (s - stock)
    BY <1>6, Zenon DEF GetSettlementState
  <2>2. s \in Nat
    BY SettledType DEF IInv
  <2>3. stock' \in Int /\ books' = books + (stock' - stock)
    BY <2>1, <2>2 DEF IInv, TypeOK
  <2>. QED
    BY <1>3, <1>6, <2>3 DEF GetSettlementState, building
<1>. QED
  BY <1>1, <1>2, <1>4, <1>5, <1>6, StartBills, BuildAssumption DEF BuildNext

\* What the orders still train, before and after a step.
LEMMA BatchTypes ==
    ASSUME OrderTypes
    PROVE  /\ [o \in Orders |-> left[o] * UnitCost] \in [Orders -> Int]
           /\ InTraining \in Int
<1>1. \A n \in 0..MaxBatch : n * UnitCost \in Int
  BY TrainingAssumption
<1>2. [o \in Orders |-> left[o] * UnitCost] \in [Orders -> Int]
  BY <1>1 DEF OrderTypes
<1>. QED
  BY <1>2, TotalInt, TrainingAssumption DEF InTraining

\* When the count of one order changes, its share of the books does.
LEMMA BatchMoves ==
    ASSUME OrderTypes, OrderTypes', NEW o \in Orders, \A p \in Orders : p # o => left'[p] = left[p]
    PROVE  /\ InTraining \in Int /\ InTraining' \in Int
           /\ left[o] * UnitCost \in Int /\ left'[o] * UnitCost \in Int
           /\ InTraining' = InTraining + left'[o] * UnitCost - left[o] * UnitCost
<1>. DEFINE f == [p \in Orders |-> left[p] * UnitCost]
            g == [p \in Orders |-> left'[p] * UnitCost]
<1>1. \A n \in 0..MaxBatch : n * UnitCost \in Int
  BY TrainingAssumption
<1>2. f \in [Orders -> Int] /\ g \in [Orders -> Int]
  BY <1>1 DEF OrderTypes
<1>3. DifferAt(Orders, f, g, o)
  BY <1>2, TrainingAssumption DEF DifferAt
<1>4. /\ f[o] = left[o] * UnitCost /\ g[o] = left'[o] * UnitCost
      /\ f[o] \in Int /\ g[o] \in Int
  BY <1>2
<1>5. InTraining = SumFunction(f) /\ InTraining' = SumFunction(g)
  BY DEF InTraining
<1>. HIDE DEF f, g
<1>. QED
  BY <1>3, <1>4, <1>5, TotalMoves

\* A batch is paid for as a whole, and a unit that is delivered leaves the books.
LEMMA TrainingBills ==
    ASSUME IInv, OrderInv, OrderInv', TrainingNext, UNCHANGED building
    PROVE  /\ troops' \in Nat /\ stock' \in Nat /\ books' \in Int /\ level' = level
           /\ books' = books + (stock' - stock) + (InTraining' - InTraining)
<1>0. /\ OrderTypes /\ OrderTypes' /\ UnitCost \in Nat
      /\ troops \in Nat /\ stock \in Nat /\ books \in Int
  BY TrainingAssumption DEF OrderInv, IInv, TypeOK
<1>1. ASSUME NEW o \in Orders, NEW b \in Barracks, TrainUnits(o, b)
      PROVE  /\ troops' \in Nat /\ stock' \in Nat /\ books' \in Int /\ level' = level
             /\ books' = books + (stock' - stock) + (InTraining' - InTraining)
  <2>1. PICK s \in Settled, n \in Counts :
          /\ n * UnitCost <= s
          /\ stock' = s - n * UnitCost
          /\ books' = books + (s - stock)
          /\ left' = [left EXCEPT ![o] = n]
    BY <1>1 DEF TrainUnits, MayTrain, Counts
  <2>2. s \in Nat /\ n \in Nat /\ n * UnitCost \in Nat
    BY <1>0, SettledType DEF Counts, IInv
  <2>3. left[o] = 0 /\ site[o] = "none"
    BY <1>1 DEF TrainUnits, OrderInv, Sound
  <2>4. left'[o] = n /\ \A p \in Orders : p # o => left'[p] = left[p]
    BY <1>0, <2>1 DEF OrderTypes
  <2>5. left[o] * UnitCost = 0
    BY <1>0, <2>3
  <2>6. InTraining \in Int /\ InTraining' = InTraining + n * UnitCost - 0
    BY <1>0, <2>4, <2>5, BatchMoves
  <2>7. troops' = troops /\ level' = level
    BY <1>1 DEF TrainUnits
  <2>8. stock' \in Nat /\ books' \in Int
    BY <1>0, <2>1, <2>2
  <2>9. books' = books + (stock' - stock) + (InTraining' - InTraining)
    BY <1>0, <2>1, <2>2, <2>6
  <2>. QED
    BY <1>0, <2>7, <2>8, <2>9
<1>2. ASSUME NEW o \in Orders, NEW k \in Counts, TrainingComplete(o, k), left[o] = k
      PROVE  /\ troops' \in Nat /\ stock' \in Nat /\ books' \in Int /\ level' = level
             /\ books' = books + (stock' - stock) + (InTraining' - InTraining)
  <2>1. /\ troops' = troops + 1 /\ left' = [left EXCEPT ![o] = k - 1]
        /\ books' = books - UnitCost /\ stock' = stock /\ level' = level
    BY <1>2 DEF TrainingComplete, Credit
  <2>2. left'[o] = k - 1 /\ \A p \in Orders : p # o => left'[p] = left[p]
    BY <1>0, <2>1 DEF OrderTypes
  <2>3. k \in Nat /\ k * UnitCost \in Int /\ (k - 1) * UnitCost = k * UnitCost - UnitCost
    <3>1. k \in Int /\ 1 \in Int /\ UnitCost \in Int /\ k \in Nat
      BY <1>0 DEF Counts
    <3>2. UnitCost * (k - 1) = UnitCost * k - UnitCost * 1
      BY <3>1, Distributes
    <3>. QED
      BY <3>1, <3>2
  <2>4. InTraining \in Int /\ InTraining' = InTraining + (k * UnitCost - UnitCost) - k * UnitCost
    BY <1>0, <1>2, <2>2, <2>3, BatchMoves
  <2>5. troops' \in Nat /\ stock' \in Nat /\ books' \in Int
    BY <1>0, <2>1
  <2>6. books' = books + (stock' - stock) + (InTraining' - InTraining)
    BY <1>0, <2>1, <2>3, <2>4
  <2>. QED
    BY <2>1, <2>5, <2>6
<1>3. ASSUME UNCHANGED <<left, settlement>>
      PROVE  /\ troops' \in Nat /\ stock' \in Nat /\ books' \in Int /\ level' = level
             /\ books' = books + (stock' - stock) + (InTraining' - InTraining)
  <2>1. InTraining' = InTraining /\ InTraining \in Int
    BY <1>0, <1>3, BatchTypes DEF InTraining
  <2>2. UNCHANGED <<level, troops, stock, books>>
    BY <1>3 DEF settlement
  <2>3. books' = books + (stock' - stock) + (InTraining' - InTraining)
    BY <1>0, <2>1, <2>2
  <2>. QED
    BY <1>0, <2>2, <2>3
<1>4. ASSUME NEW o \in Orders, NEW k \in Counts, TrainingComplete(o, k), left[o] # k
      PROVE  /\ troops' \in Nat /\ stock' \in Nat /\ books' \in Int /\ level' = level
             /\ books' = books + (stock' - stock) + (InTraining' - InTraining)
  BY <1>3, <1>4 DEF TrainingComplete, settlement
<1>5. ASSUME NEW e \in UnitEvents, ClaimUnit(e) \/ UnitFailure(e)
      PROVE  /\ troops' \in Nat /\ stock' \in Nat /\ books' \in Int /\ level' = level
             /\ books' = books + (stock' - stock) + (InTraining' - InTraining)
  BY <1>3, <1>5 DEF ClaimUnit, UnitFailure
<1>. QED
  BY <1>1, <1>2, <1>4, <1>5 DEF TrainingNext, Counts

\* Both totals are integers, also after a step.
BillIsInt == IInv => InQueue \in Int
BatchIsInt == OrderTypes => InTraining \in Int

LEMMA TotalsAreInts == BillIsInt /\ BatchIsInt
<1>1. ASSUME IInv PROVE InQueue \in Int
  <2>. DEFINE f == [i \in Items |-> Cost(i)]
  <2>1. IsFiniteSet(queue) /\ \A i \in queue : f[i] \in Int
    BY <1>1, QueueFinite, CostType DEF IInv, TypeOK
  <2>2. SumFunctionOnSet(f, queue) \in Int
    <3>. HIDE DEF f
    <3>. QED
      BY <2>1, SumAny
  <2>. QED
    BY <2>2 DEF InQueue
<1>. QED
  BY <1>1, BatchTypes DEF BillIsInt, BatchIsInt

LEMMA TotalsStayInts == BillIsInt' /\ BatchIsInt'
BY TotalsAreInts, PTL

JointInv == IInv /\ OrderInv /\ JointBooksBalance

LEMMA JointNext == JointInv /\ [QueuesNext]_<<vars, training>> => JointInv'
<1>. SUFFICES ASSUME JointInv, [QueuesNext]_<<vars, training>> PROVE JointInv'
  OBVIOUS
<1>1. IInv /\ OrderInv /\ OrderInv' /\ OrderTypes /\ OrderTypes'
  BY OrderNext DEF JointInv, OrderInv
<1>2. ASSUME IInv', books' = books + (stock' - stock) + (InQueue' - InQueue), left' = left
      PROVE  JointInv'
  <2>1. InTraining' = InTraining /\ InTraining \in Int
    BY <1>1, <1>2, BatchTypes DEF InTraining
  <2>2. InQueue \in Int
    BY <1>1, <1>2, BillTypes
  <2>3. InQueue' \in Int
    BY <1>2, TotalsStayInts DEF BillIsInt
  <2>4. stock \in Int /\ books \in Int /\ stock' \in Int /\ books' \in Int
    BY <1>1, <1>2 DEF IInv, TypeOK
  <2>5. stock + InQueue + InTraining = books
    BY DEF JointInv, JointBooksBalance
  <2>6. books' = books + (stock' - stock) + (InQueue' - InQueue)
    BY <1>2
  <2>7. books' = stock' + InQueue' + InTraining
    BY <2>1, <2>2, <2>3, <2>4, <2>5, <2>6
  <2>. QED
    BY <1>1, <1>2, <2>1, <2>7 DEF JointInv, JointBooksBalance
<1>3. CASE BuildNext /\ UNCHANGED training
  <2>1. IInv'
    BY <1>1, <1>3, NextInv
  <2>. QED
    BY <1>1, <1>2, <1>3, <2>1, BuildBills DEF training
<1>4. CASE TrainingNext /\ UNCHANGED building
  <2>1. /\ troops' \in Nat /\ stock' \in Nat /\ books' \in Int /\ level' = level
        /\ books' = books + (stock' - stock) + (InTraining' - InTraining)
    BY <1>1, <1>4, TrainingBills
  <2>2. \A t \in Types : level[t] \in Nat /\ level'[t] <= level[t]
    BY <1>1, <2>1, LevelType DEF IInv
  <2>3. IInv'
    BY <1>1, <1>4, <2>1, <2>2, SettlementInv DEF IInv, TypeOK
  <2>4. InQueue' = InQueue /\ InQueue \in Int
    BY <1>1, <1>4, <2>3, BillTypes DEF InQueue, Cost, building
  <2>5. stock \in Int /\ books \in Int /\ InTraining \in Int /\ InTraining' \in Int
    <3>1. InTraining \in Int
      BY <1>1, BatchTypes
    <3>2. InTraining' \in Int
      BY <1>1, TotalsStayInts DEF BatchIsInt
    <3>. QED
      BY <1>1, <3>1, <3>2 DEF IInv, TypeOK
  <2>6. stock + InQueue + InTraining = books
    BY DEF JointInv, JointBooksBalance
  <2>7. stock' \in Int /\ books' \in Int
    BY <2>1
  <2>8. books' = books + (stock' - stock) + (InTraining' - InTraining)
    BY <2>1
  <2>9. books' = stock' + InQueue + InTraining'
    BY <2>4, <2>5, <2>6, <2>7, <2>8
  <2>. QED
    BY <1>1, <2>3, <2>4, <2>9 DEF JointInv, JointBooksBalance
<1>5. CASE UNCHANGED <<vars, training>>
  <2>1. IInv'
    BY <1>1, <1>5, NextInv
  <2>2. UNCHANGED <<stock, books, left, queue, type, target>>
    BY <1>5 DEF vars, settlement, building, training
  <2>3. JointBooksBalance'
    BY <2>2 DEF JointInv, JointBooksBalance, InQueue, Cost, InTraining
  <2>. QED
    BY <1>1, <2>1, <2>3 DEF JointInv
<1>. QED
  BY <1>3, <1>4, <1>5 DEF QueuesNext

LEMMA JointInit == QueuesInit => JointInv
<1>. SUFFICES ASSUME QueuesInit PROVE JointInv
  OBVIOUS
<1>1. IInv /\ OrderInv
  BY InitInv, InitInvariant DEF QueuesInit
<1>2. InQueue = 0
  BY SumEmpty DEF QueuesInit, Init, InQueue
<1>3. InTraining = 0
  <2>. DEFINE f == [o \in Orders |-> left[o] * UnitCost]
  <2>1. f \in [Orders -> Int] /\ \A o \in Orders : f[o] = 0
    BY TrainingAssumption DEF QueuesInit
  <2>2. SumFunction(f) = 0
    <3>. HIDE DEF f
    <3>. QED
      BY <2>1, TotalZero, TrainingAssumption
  <2>. QED
    BY <2>2 DEF InTraining
<1>4. stock = books /\ stock \in Int
  BY <1>1 DEF QueuesInit, Init, IInv, TypeOK
<1>. QED
  BY <1>1, <1>2, <1>3, <1>4 DEF JointInv, JointBooksBalance

\* Across both queues, whatever is queued, cancelled, landed, trained or looted,
\* the resources that were paid in are in a queue, in stock or in what was
\* delivered for them.
THEOREM BooksOfBothQueues == QueuesSpec => []JointBooksBalance
<1>1. JointInv => JointBooksBalance
  BY DEF JointInv
<1>. QED
  BY <1>1, JointInit, JointNext, PTL DEF QueuesSpec

\* What holds of the build queue alone holds of it beside the training queue:
\* types, an event for every running build, and levels that stay in range.
THEOREM QueuesSafe ==
    QueuesSpec => [](TrainingTypeOK /\ RunningIffScheduled /\ NeverPastMax)
<1>1. JointInv => TrainingTypeOK /\ RunningIffScheduled /\ NeverPastMax
  BY DEF JointInv, IInv, OrderInv, OrderTypes, TrainingTypeOK
<1>. QED
  BY <1>1, JointInit, JointNext, PTL DEF QueuesSpec
==============================================================================
