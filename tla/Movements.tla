------------------------------- MODULE Movements -------------------------------
(***************************************************************************)
(* The troop ledger of the settlements (apps/server/src/movements).        *)
(* A settlement counts its units at home and its units in transit; a host  *)
(* holds the contingents of the settlements that support it.  A movement   *)
(* carries units out with a movementArrive event and survivors back with a *)
(* movementReturn event.  Its arrival is resolved by type.                 *)
(*                                                                         *)
(* A command or a handler is one transaction over the movement and the one *)
(* or two settlements it touches, and so one step.  Once scheduled, an     *)
(* event may be handled at any time, more than once and also after it was  *)
(* deleted, and its failures may be recorded: Scheduler delivers no worse. *)
(* Travel times are left open.                                             *)
(*                                                                         *)
(* Units are of one type, and every settlement has an owner of its own.    *)
(* Battles may end in any way: who dies is data.                           *)
(***************************************************************************)
EXTENDS Integers, FiniteSets, Functions

CONSTANTS
    Settlements,
    Movements,     \* movement ids, each used once; any finite number
    Tiles,         \* empty tiles a settle movement may aim at
    Types,         \* sendable types: MovementTypes or a part of them
    Garrison,      \* Garrison[s]: units at home at the start
    SettlersRequired

\* scout stands for a scout sent anywhere and for a raid on an oasis, which
\* costs no settlement anything; attack for a raid or an assault.
MovementTypes == {"scout", "attack", "support", "settle"}

ASSUME MovementsAssumption ==
    /\ IsFiniteSet(Settlements) /\ Settlements # {}
    /\ IsFiniteSet(Movements) /\ Tiles # {}
    /\ Types \subseteq MovementTypes
    /\ Garrison \in [Settlements -> Nat]
    /\ SettlersRequired \in Nat \ {0}

VARIABLES
    troops,      \* Settlement.troops: the units at home
    awayTroops,  \* Settlement.awayTroops: a counter of the units in transit
    stationed,   \* stationed[<<h, o>>]: the contingent of o at the host h
    founder,     \* the movement that founded a settlement on a tile
    status,      \* Movement.status, "none" while the id is fresh
    type, from, to, tile, units, survivors,  \* the movement's other fields
    event,       \* status of the movement's event for a leg
    dead         \* history: units killed, or consumed by a founding

settlement == <<troops, awayTroops, stationed, founder, dead>>
plan == <<type, from, to, tile, units>>
vars == <<settlement, status, plan, survivors, event>>

Legs == {"arrive", "return"}
Somewhere == CHOOSE s \in Settlements : TRUE

Init ==
    /\ troops = Garrison
    /\ awayTroops = [s \in Settlements |-> 0]
    /\ stationed = [p \in Settlements \X Settlements |-> 0]
    /\ founder = [t \in Tiles |-> "nobody"]
    /\ status = [m \in Movements |-> "none"]
    /\ type = [m \in Movements |-> "scout"]
    /\ from = [m \in Movements |-> Somewhere]
    /\ to = [m \in Movements |-> Somewhere]
    /\ tile = [m \in Movements |-> CHOOSE t \in Tiles : TRUE]
    /\ units = [m \in Movements |-> 0]
    /\ survivors = [m \in Movements |-> 0]
    /\ event = [l \in Movements \X Legs |-> "none"]
    /\ dead = 0

\* subtractUnitCounts: a shortfall is logged and clamped.
Less(n, k) == IF n < k THEN 0 ELSE n - k

------------------------------------------------------------------------------
\* Commands.

\* The checks of sendMovement on the units asked for.
MaySend(s, y, n) ==
    /\ n \in 1..troops[s]
    /\ y = "settle" => n = SettlersRequired

\* sendMovement: units leave home, the movement and its arrival are created.
SendMovement(m, s, y) ==
    /\ status[m] = "none"
    /\ \E n \in 1..(troops[s] + 1) :
         /\ MaySend(s, y, n)
         /\ troops' = [troops EXCEPT ![s] = @ - n]
         /\ awayTroops' = [awayTroops EXCEPT ![s] = @ + n]
         /\ units' = [units EXCEPT ![m] = n]
    /\ IF y = "settle"
       THEN /\ \E t \in Tiles : founder[t] = "nobody" /\ tile' = [tile EXCEPT ![m] = t]
            /\ UNCHANGED to
       ELSE /\ \E h \in Settlements \ {s} : to' = [to EXCEPT ![m] = h]
            /\ UNCHANGED tile
    /\ status' = [status EXCEPT ![m] = "outbound"]
    /\ type' = [type EXCEPT ![m] = y]
    /\ from' = [from EXCEPT ![m] = s]
    /\ event' = [event EXCEPT ![<<m, "arrive">>] = "due"]
    /\ UNCHANGED <<stationed, founder, dead, survivors>>

\* cancelMovement within the window: the arrival's event is deleted, and the
\* units, still in transit, turn around.
CancelMovement(m) ==
    /\ status[m] = "outbound"
    /\ status' = [status EXCEPT ![m] = "returning"]
    /\ survivors' = [survivors EXCEPT ![m] = units[m]]
    /\ event' = [event EXCEPT ![<<m, "arrive">>] = "deleted", ![<<m, "return">>] = "due"]
    /\ UNCHANGED <<settlement, plan>>

\* recallSupport by the owner of the units, evictSupport by the host: the
\* whole contingent goes home, as a new movement that is returning.
ReturnStationedContingent(m, h, o) ==
    /\ status[m] = "none" /\ stationed[<<h, o>>] > 0
    /\ stationed' = [stationed EXCEPT ![<<h, o>>] = 0]
    /\ awayTroops' = [awayTroops EXCEPT ![o] = @ + stationed[<<h, o>>]]
    /\ status' = [status EXCEPT ![m] = "returning"]
    /\ type' = [type EXCEPT ![m] = "support"]
    /\ from' = [from EXCEPT ![m] = o] /\ to' = [to EXCEPT ![m] = h]
    /\ units' = [units EXCEPT ![m] = stationed[<<h, o>>]]
    /\ survivors' = [survivors EXCEPT ![m] = stationed[<<h, o>>]]
    /\ event' = [event EXCEPT ![<<m, "return">>] = "due"]
    /\ UNCHANGED <<troops, founder, dead, tile>>

\* Another account is given a home (createSettlement) on one of the tiles.
CreateSettlement(t) ==
    /\ founder[t] = "nobody"
    /\ founder' = [founder EXCEPT ![t] = "placement"]
    /\ UNCHANGED <<troops, awayTroops, stationed, dead, status, plan, survivors, event>>

------------------------------------------------------------------------------
\* The scheduler's side.

Handled(l) == event[l] # "none"

Awaited(l) == status[l[1]] = (IF l[2] = "arrive" THEN "outbound" ELSE "returning")

\* A failure leaves the event due or dead-letters it.  An event nobody waits for
\* is as good as due then: its handling, late or never, changes nothing.
RecordFailure(l) ==
    /\ Handled(l) /\ event[l] # "deleted"
    /\ \E r \in {"due", "failed"} :
         /\ r = "failed" => Awaited(l)
         /\ event' = [event EXCEPT ![l] = r]
    /\ UNCHANGED <<settlement, status, plan, survivors>>

\* The done mark of dispatch; a deleted event stays deleted.
Done(l) == [event EXCEPT ![l] = IF @ = "deleted" THEN @ ELSE "done"]

\* The movement ends here, or k survivors turn back, each with its event.
Ends(m) ==
    /\ status' = [status EXCEPT ![m] = "done"]
    /\ event' = Done(<<m, "arrive">>)

TurnsBackUnscheduled(m, k) ==  \* fault: the return is not scheduled
    /\ status' = [status EXCEPT ![m] = "returning"]
    /\ survivors' = [survivors EXCEPT ![m] = k]
    /\ event' = Done(<<m, "arrive">>)

TurnsBack(m, k) ==
    /\ status' = [status EXCEPT ![m] = "returning"]
    /\ survivors' = [survivors EXCEPT ![m] = k]
    /\ event' = [Done(<<m, "arrive">>) EXCEPT ![<<m, "return">>] = "due"]

MournedLater(m, k) == UNCHANGED awayTroops  \* fault: losses leave with the return

\* writeOriginAwayTroops: what fell or stayed out is not in transit any more.
Mourned(m, k) ==
    awayTroops' = [awayTroops EXCEPT ![from[m]] = Less(@, units[m] - k)]

\* A handler's guard, for a movement still on the leg of the event.
Arriving(m, y) ==
    /\ Handled(<<m, "arrive">>)
    /\ status[m] = "outbound" /\ type[m] = y

\* The fate of the party after a fight that k of it survive.
Resolve(m, k) ==
    /\ Mourned(m, k)
    /\ IF k = 0 THEN Ends(m) /\ UNCHANGED survivors ELSE TurnsBack(m, k)

\* Scouts, and raids on an oasis: only the party itself can have losses.
ScoutArrives(m) ==
    /\ Arriving(m, "scout")
    /\ \E k \in 0..units[m] : Resolve(m, k) /\ dead' = dead + (units[m] - k)
    /\ UNCHANGED <<troops, stationed, founder, plan>>

\* A raid or an assault: the defender's units at home and every contingent
\* stationed there may fall, and so may the party.
BattleArrives(m) ==
    LET h == to[m]
        Guests == {o \in Settlements : stationed[<<h, o>>] > 0} IN
    /\ Arriving(m, "attack")
    /\ \E k \in 0..units[m], home \in 0..troops[h],
          kept \in [Guests -> UNION {0..stationed[<<h, o>>] : o \in Guests}] :
         /\ \A o \in Guests : kept[o] <= stationed[<<h, o>>]
         /\ Resolve(m, k)
         /\ troops' = [troops EXCEPT ![h] = home]
         /\ stationed' = [p \in DOMAIN stationed |->
                            IF p[1] = h /\ p[2] \in Guests THEN kept[p[2]] ELSE stationed[p]]
         /\ dead' = dead + (units[m] - k) + (troops[h] - home)
                    + SumFunction([o \in Guests |-> stationed[<<h, o>>] - kept[o]])
    /\ UNCHANGED <<founder, plan>>

\* Support joins the contingent of its origin and is the host's to feed.
SupportArrives(m) ==
    /\ Arriving(m, "support")
    /\ stationed' = [stationed EXCEPT ![<<to[m], from[m]>>] = @ + units[m]]
    /\ Mourned(m, 0)
    /\ Ends(m)
    /\ survivors' = [survivors EXCEPT ![m] = units[m]]
    /\ UNCHANGED <<troops, founder, dead, plan>>

SettlersArriveBlindly(m) ==  \* fault: the tile is not looked at again
    /\ Arriving(m, "settle")
    /\ founder' = [founder EXCEPT ![tile[m]] = m]
    /\ dead' = dead + units[m]
    /\ Mourned(m, 0) /\ Ends(m)
    /\ UNCHANGED <<troops, stationed, survivors, plan>>

\* Settlers found a settlement and are consumed, or turn around: the tile was
\* taken meanwhile, or their owner may not have another settlement.
SettlersArrive(m) ==
    /\ Arriving(m, "settle")
    /\ \/ /\ founder[tile[m]] = "nobody"
          /\ founder' = [founder EXCEPT ![tile[m]] = m]
          /\ dead' = dead + units[m]
          /\ Mourned(m, 0) /\ Ends(m)
          /\ UNCHANGED survivors
       \/ TurnsBack(m, units[m]) /\ UNCHANGED <<awayTroops, founder, dead>>
    /\ UNCHANGED <<troops, stationed, plan>>

ReturnUnguarded(m) ==  \* fault: a replayed return is credited again
    /\ Handled(<<m, "return">>)
    /\ troops' = [troops EXCEPT ![from[m]] = @ + survivors[m]]
    /\ awayTroops' = [awayTroops EXCEPT ![from[m]] = Less(@, survivors[m])]
    /\ status' = [status EXCEPT ![m] = "done"]
    /\ event' = Done(<<m, "return">>)
    /\ UNCHANGED <<stationed, founder, dead, plan, survivors>>

\* movementReturn: the survivors are home.
MovementReturn(m) ==
    /\ Handled(<<m, "return">>) /\ status[m] = "returning"
    /\ troops' = [troops EXCEPT ![from[m]] = @ + survivors[m]]
    /\ awayTroops' = [awayTroops EXCEPT ![from[m]] = Less(@, survivors[m])]
    /\ status' = [status EXCEPT ![m] = "done"]
    /\ event' = Done(<<m, "return">>)
    /\ UNCHANGED <<stationed, founder, dead, plan, survivors>>

\* A late or repeated event of a movement that left that leg is only marked.
StaleEvent(m, leg) ==
    /\ Handled(<<m, leg>>) /\ ~Awaited(<<m, leg>>)
    /\ event' = Done(<<m, leg>>)
    /\ UNCHANGED <<settlement, status, plan, survivors>>

\* A starvation tick of s kills stationed units, then units at home, and none
\* in transit.
StarvationTick(s) ==
    LET Fed == {o \in Settlements : stationed[<<s, o>>] > 0} IN
    \/ \E o \in Fed :
         /\ stationed' = [stationed EXCEPT ![<<s, o>>] = @ - 1]
         /\ UNCHANGED troops
         /\ dead' = dead + 1
         /\ UNCHANGED <<awayTroops, founder, status, plan, survivors, event>>
    \/ /\ Fed = {} /\ troops[s] > 0
       /\ troops' = [troops EXCEPT ![s] = @ - 1]
       /\ dead' = dead + 1
       /\ UNCHANGED <<awayTroops, stationed, founder, status, plan, survivors, event>>

Arrives(m) ==
    ScoutArrives(m) \/ BattleArrives(m) \/ SupportArrives(m) \/ SettlersArrive(m)

Next ==
    \/ \E m \in Movements :
         \/ \E s \in Settlements, y \in Types : SendMovement(m, s, y)
         \/ \E h, o \in Settlements : h # o /\ ReturnStationedContingent(m, h, o)
         \/ CancelMovement(m)
         \/ Arrives(m) \/ MovementReturn(m)
         \/ \E leg \in Legs : StaleEvent(m, leg) \/ RecordFailure(<<m, leg>>)
    \/ \E t \in Tiles : CreateSettlement(t)
    \/ \E s \in Settlements : StarvationTick(s)

Spec == Init /\ [][Next]_vars

\* The scheduler handles or dead-letters every event that stays due
\* (EventuallyResolved of Scheduler).
Arrived(m) == event[<<m, "arrive">>] = "due" /\ Arrives(m)
Returned(m) == event[<<m, "return">>] = "due" /\ MovementReturn(m)
FairSpec ==
    /\ Spec
    /\ \A m \in Movements : WF_vars(Arrived(m)) /\ WF_vars(Returned(m))

------------------------------------------------------------------------------
\* Properties.

TypeOK ==
    /\ troops \in [Settlements -> Nat] /\ awayTroops \in [Settlements -> Nat]
    /\ stationed \in [Settlements \X Settlements -> Nat]
    /\ founder \in [Tiles -> Movements \cup {"nobody", "placement"}]
    /\ status \in [Movements -> {"none", "outbound", "returning", "done"}]
    /\ type \in [Movements -> MovementTypes]
    /\ from \in [Movements -> Settlements] /\ to \in [Movements -> Settlements]
    /\ tile \in [Movements -> Tiles]
    /\ units \in [Movements -> Nat] /\ survivors \in [Movements -> Nat]
    /\ event \in [Movements \X Legs -> {"none", "due", "done", "deleted", "failed"}]
    /\ dead \in Nat

\* The units a movement has on the road.
Carried(m) == IF status[m] = "outbound" THEN units[m]
              ELSE IF status[m] = "returning" THEN survivors[m] ELSE 0

\* What of that left settlement s.
Loads(s) == [m \in Movements |-> IF from[m] = s THEN Carried(m) ELSE 0]

\* The counter of a settlement's units in transit, which it pays Food for and
\* which no handler recomputes, is what its movements carry: it never drifts,
\* whatever is cancelled, killed, evicted or delivered twice.
AwayTroopsMatch ==
    \A s \in Settlements : awayTroops[s] = SumFunction(Loads(s))

\* No unit is duplicated or lost: everybody is at home, in transit, stationed
\* somewhere or dead.
EverybodyAccountedFor ==
    SumFunction(troops) + SumFunction(awayTroops) + SumFunction(stationed) + dead
    = SumFunction(Garrison)

\* A tile is founded once, for the settlers that were consumed there.
TileFoundedOnce ==
    [][\A t \in Tiles : founder[t] # "nobody" => founder'[t] = founder[t]]_vars

\* Every army comes home, ends abroad or dies, unless one of its events is
\* dead-lettered.
EveryMarchEnds ==
    \A m \in Movements :
        status[m] \in {"outbound", "returning"}
        ~> (status[m] = "done" \/ \E leg \in Legs : event[<<m, leg>>] = "failed")
==============================================================================
