------------------------------ MODULE Starvation ------------------------------
(***************************************************************************)
(* The Food of one settlement and its starvation tick.                     *)
(* Food is settled lazily: the stock is that of calcAt, and every command  *)
(* first brings it to its own instant.  While net Food is negative the     *)
(* settlement keeps a pending starvationTick, due when Food runs out;      *)
(* ensureStarvationSchedule maintains it, but not every writer calls it:   *)
(* those that only lower the upkeep (a lost army, support that leaves) do  *)
(* not, and leave a tick behind that may have become unnecessary.          *)
(*                                                                         *)
(* A command or a handler is one transaction and so one step.  A command   *)
(* works with the instant it read when the request came in.  Events are    *)
(* delivered as Scheduler delivers them: claimed in due order, and handled *)
(* from the document that was read, at any later time; a fault delivers    *)
(* that document once more, or makes the event due anew.                   *)
(*                                                                         *)
(* One unit eats one Food per unit of time: the settlement's own, at home  *)
(* or marching (away), and the guests that support it.  gross is what the  *)
(* buildings make less what they eat.  The least unit of time is longer    *)
(* than the rescheduling epsilon, and a march takes Duration each way.     *)
(***************************************************************************)
EXTENDS Integers, FiniteSets

CONSTANTS
    Ticks,        \* ids of starvation ticks, each used once
    Builds, Trainings,  \* other events, each used once: works of the settlement,
    Marches, Returns,   \* its own marches arriving and coming home,
    Supports, Attacks,  \* and those of others that arrive here
    Rate,         \* what a landed build, or a siege, adds to gross
    Price,        \* Food paid for a build or a training
    Loot,         \* bound: Food that a return unloads
    Duration,     \* from scheduling another event to its due time
    Hour, Cap,    \* HOUR_MS; calcStorageCaps
    StartFood, StartGross, StartHome,
    Lag,          \* bound: how old a command's reading of the clock may be
    MaxTime,      \* bound
    MaxWorks,     \* bound: works begun, returns not counted
    MaxFaults,    \* bound: repeated deliveries and failed handlers
    None

Legs == Marches \cup Returns
Works == Builds \cup Trainings \cup Supports \cup Attacks \cup Legs
Events == Ticks \cup Works

ASSUME StarvationAssumption ==
    /\ None \notin Events /\ Ticks \cap Works = {} /\ IsFiniteSet(Legs)
    /\ Legs \cap (Builds \cup Trainings \cup Supports \cup Attacks) = {}
    /\ Rate \in [Builds \cup Attacks -> Int]
    /\ Price \in Nat /\ Loot \in Nat /\ Duration \in Nat /\ Hour \in Nat \ {0}
    /\ Cap \in Nat /\ StartFood \in 0..Cap
    /\ StartGross \in Nat /\ StartHome \in 0..StartGross  \* fed by itself
    /\ Lag \in Nat /\ MaxTime \in Nat /\ MaxWorks \in Nat /\ MaxFaults \in Nat

VARIABLES
    now,
    food, calcAt,         \* resources.values.food as of resources.lastCalcAt
    gross,                \* production of the buildings less their upkeep
    home, guests, away,   \* troops, stationedTroops, awayTroops
    abroad,               \* own units that support another settlement, and eat there
    lastTick,             \* lastStarvationTickAt
    pending, pendingDue,  \* pendingStarvationEventId, pendingStarvationDueAt
    party,                \* units of a leg of a march
    owed,                 \* works whose queue item or movement still stands
    status, dueAt,        \* the stored events; dueAt is 0 once it is not read
    held,                 \* event documents workers have to handle: <<id, dueAt>>
    faults

stored == <<food, calcAt>>
marching == <<away, abroad, party>>
troops == <<home, guests, marching>>
schedule == <<status, dueAt, pending, pendingDue>>
vars == <<now, stored, gross, troops, lastTick, schedule, owed, held, faults>>

Never == -1
Clip(x) == IF x < 0 THEN 0 ELSE IF x > Cap THEN Cap ELSE x

\* upkeepTroopsOf: everybody eats, at home, away, or as a guest.
Net(g, h, v, a) == g - h - v - a
NetFood == Net(gross, home, guests, away)

\* settleDoc: production and upkeep up to t, nothing if t is not later.
Settled(t) ==
    IF t > calcAt THEN [food |-> Clip(food + NetFood * (t - calcAt)), at |-> t]
                  ELSE [food |-> food, at |-> calcAt]

Init ==
    /\ now = 0 /\ food = StartFood /\ calcAt = 0
    /\ gross = StartGross /\ home = StartHome /\ guests = 0
    /\ away = 0 /\ abroad = 0 /\ party = [w \in Legs |-> 0]
    /\ lastTick = Never /\ pending = None /\ pendingDue = Never
    /\ owed = {}
    /\ status = [e \in Events |-> "none"]
    /\ dueAt = [e \in Events |-> 0]
    /\ held = {} /\ faults = 0

------------------------------------------------------------------------------
\* The schedule: the stored events and the noted tick, as a transaction has
\* them so far.  A transaction may change them more than once.

Stored == [status |-> status, dueAt |-> dueAt, pending |-> pending, pendingDue |-> pendingDue]

Commit(p) ==
    /\ status' = p.status /\ dueAt' = p.dueAt
    /\ pending' = p.pending /\ pendingDue' = p.pendingDue

With(f, e, v) == [x \in DOMAIN f |-> IF x = e THEN v ELSE f[x]]

\* scheduleEvent of another event than a tick (of nothing, if w is None).
Scheduled(p, w, t) ==
    [status |-> With(p.status, w, "due"), dueAt |-> With(p.dueAt, w, t),
     pending |-> p.pending, pendingDue |-> p.pendingDue]

\* cancelEvent of the pending tick, if there is one.
Deleted(p) == With(p.status, p.pending, "deleted")
Freed(p) == With(p.dueAt, p.pending, 0)

Disarmed(st, du) == [status |-> st, dueAt |-> du, pending |-> None, pendingDue |-> Never]

\* scheduleEvent of a tick, noted as the pending one.
Armed(t, st, du) ==
    {[status |-> With(st, e, "due"), dueAt |-> With(du, e, t), pending |-> e, pendingDue |-> t] :
        e \in {x \in Ticks : st[x] = "none"}}

\* computeStarvationDeadline, for a net of n < 0: Food runs out, rounded up.
Deadline(n, f, t) == t + (f + (-n) - 1) \div (-n)

\* ensureStarvationSchedule with net n and Food f at instant t: what it makes of p.
Ensured(n, f, t, p) ==
    IF n >= 0 THEN {Disarmed(Deleted(p), Freed(p))}
    ELSE IF p.pending # None /\ p.pendingDue = Deadline(n, f, t) THEN {p}
    ELSE Armed(Deadline(n, f, t), Deleted(p), Freed(p))

------------------------------------------------------------------------------
\* Commands, at an instant read up to Lag ago.

\* Bound: a work not begun yet, and one that may still be.
MayBegin(w) ==
    /\ status[w] = "none"
    /\ Cardinality({x \in Works \ Returns : status[x] # "none"}) < MaxWorks

Instants == {t \in (now - Lag)..now : t >= 0}

\* A command of the owner settles, fixes the schedule, and only then has its own
\* effect: cost spent, departed units moved from home to away, work w scheduled.
Command(t, cost, departed, w) ==
    LET s == Settled(t) IN
    /\ s.food >= cost /\ home >= departed
    /\ w # None => MayBegin(w)
    /\ \E p \in Ensured(NetFood, s.food, t, Stored) : Commit(Scheduled(p, w, t + Duration))
    /\ food' = s.food - cost /\ calcAt' = s.at
    /\ home' = home - departed /\ away' = away + departed
    /\ owed' = owed \cup ({w} \ {None})
    /\ UNCHANGED <<now, gross, guests, abroad, lastTick, held, faults>>

GetSettlementState == (\E t \in Instants : Command(t, 0, 0, None)) /\ UNCHANGED party

\* startBuild and trainUnits refuse what would starve the settlement as it is.
StartBuild(w) ==
    /\ NetFood + Rate[w] >= 0
    /\ \E t \in Instants : Command(t, Price, 0, w)
    /\ UNCHANGED party

TrainUnits(w) ==
    /\ NetFood - 1 >= 0
    /\ \E t \in Instants : Command(t, Price, 0, w)
    /\ UNCHANGED party

\* sendMovement of some of the units; w is their arrival.
SendMovement(w) ==
    \E n \in 1..home :
        /\ \E t \in Instants : Command(t, 0, n, w)
        /\ party' = [party EXCEPT ![w] = n]

\* n units that supported another settlement set out for home: they eat here
\* again, and the schedule is fixed after that.
SupportComesHome(r, n, t, p) ==
    LET s == Settled(t) IN
    /\ status[r] = "none"
    /\ away' = away + n /\ abroad' = abroad - n
    /\ party' = [party EXCEPT ![r] = n] /\ owed' = owed \cup {r}
    /\ \E q \in Ensured(NetFood - n, s.food, t, Scheduled(p, r, t + Duration)) : Commit(q)
    /\ food' = s.food /\ calcAt' = s.at
    /\ UNCHANGED <<now, gross, home, guests, lastTick, held, faults>>

\* recallSupport, at the origin, fixes the schedule before and after.
RecallSupport(r) ==
    \E n \in 1..abroad, t \in Instants :
        \E p \in Ensured(NetFood, Settled(t).food, t, Stored) : SupportComesHome(r, n, t, p)

\* evictSupport by the host of these units fixes only the host's before.
SupportIsEvicted(r) ==
    \E n \in 1..abroad, t \in Instants : SupportComesHome(r, n, t, Stored)

\* The other side of the two: guests leave, and nothing is fixed after that.
GuestsLeave(n, t) ==
    /\ food' = Settled(t).food /\ calcAt' = Settled(t).at
    /\ guests' = guests - n
    /\ UNCHANGED <<now, gross, home, marching, lastTick, owed, held, faults>>

GuestsAreRecalled ==
    \E n \in 1..guests, t \in Instants : GuestsLeave(n, t) /\ UNCHANGED schedule

EvictSupport ==
    \E n \in 1..guests, t \in Instants :
        /\ GuestsLeave(n, t)
        /\ \E p \in Ensured(NetFood, Settled(t).food, t, Stored) : Commit(p)

\* Another player sends support or an attack; it changes nothing until it arrives.
OthersSend(w) ==
    /\ MayBegin(w)
    /\ Commit(Scheduled(Stored, w, now + Duration))
    /\ owed' = owed \cup {w}
    /\ UNCHANGED <<now, stored, gross, troops, lastTick, held, faults>>

------------------------------------------------------------------------------
\* The scheduler's side.

Elapse ==
    /\ now < MaxTime
    /\ now' = now + 1
    /\ UNCHANGED <<stored, gross, troops, lastTick, schedule, owed, held, faults>>

Due(e) == status[e] = "due" /\ dueAt[e] <= now

Claim(e) ==
    /\ Due(e) /\ \A f \in Events : Due(f) => dueAt[e] <= dueAt[f]
    /\ status' = [status EXCEPT ![e] = "processing"]
    /\ dueAt' = [dueAt EXCEPT ![e] = 0]
    /\ held' = held \cup {<<e, dueAt[e]>>}
    /\ UNCHANGED <<now, stored, gross, troops, lastTick, pending, pendingDue, owed, faults>>

\* recordFailure: due again, later, or dead-lettered.  After a repeated delivery
\* it is also the failure of a commit that was not acknowledged.
RecordFailure(e, d) ==
    /\ <<e, d>> \in held /\ faults < MaxFaults
    /\ held' = held \ {<<e, d>>} /\ faults' = faults + 1
    /\ \/ /\ status[e] # "deleted" /\ status' = [status EXCEPT ![e] = "due"]
          /\ dueAt' = [dueAt EXCEPT ![e] = now + 1]
       \/ /\ status[e] # "deleted" /\ status' = [status EXCEPT ![e] = "failed"]
          /\ UNCHANGED dueAt
       \/ status[e] = "deleted" /\ UNCHANGED <<status, dueAt>>
    /\ UNCHANGED <<now, stored, gross, troops, lastTick, pending, pendingDue, owed>>

\* A worker hands its document to the handler, and as a fault will do so again:
\* it, or the worker the lease passed to, repeats the dispatch.
Dispatch(doc) ==
    /\ doc \in held
    /\ \/ held' = held \ {doc} /\ UNCHANGED faults
       \/ faults < MaxFaults /\ held' = held /\ faults' = faults + 1

\* The done mark of dispatch; a deleted event stays deleted.
Done(e) == IF status[e] = "deleted" THEN status ELSE [status EXCEPT ![e] = "done"]
Finished(e) == [Stored EXCEPT !.status = Done(e)]

\* A replayed or late event whose aggregate has moved on changes nothing.
Stale(e) ==
    /\ Commit(Finished(e))
    /\ UNCHANGED <<now, stored, gross, troops, lastTick, owed>>

\* What a handler's work leaves to settle and schedule: Food stored as s.
Lands(w, s) ==
    /\ food' = s.food /\ calcAt' = s.at
    /\ owed' = owed \ {w}
    /\ UNCHANGED <<now, lastTick>>
Unsettled == [food |-> food, at |-> calcAt]

\* buildComplete: the production changes; Food is not settled, the schedule is
\* anchored at the event's due time.
BuildCompleteSilent(w, d) ==  \* fault: the schedule is left as it was
    /\ Dispatch(<<w, d>>)
    /\ IF w \notin owed THEN Stale(w)
       ELSE /\ Lands(w, Unsettled) /\ gross' = gross + Rate[w]
            /\ Commit(Finished(w)) /\ UNCHANGED troops

BuildComplete(w, d) ==
    /\ Dispatch(<<w, d>>)
    /\ IF w \notin owed THEN Stale(w)
       ELSE /\ Lands(w, Unsettled) /\ gross' = gross + Rate[w] /\ UNCHANGED troops
            /\ \E p \in Ensured(NetFood + Rate[w], food, d, Finished(w)) : Commit(p)

\* trainingComplete: likewise, with one more unit at home.
TrainingComplete(w, d) ==
    /\ Dispatch(<<w, d>>)
    /\ IF w \notin owed THEN Stale(w)
       ELSE /\ Lands(w, Unsettled) /\ home' = home + 1 /\ UNCHANGED <<gross, guests, marching>>
            /\ \E p \in Ensured(NetFood - 1, food, d, Finished(w)) : Commit(p)

\* Support arrives: the host is settled first, then feeds one more unit.
SupportArrive(w, d) ==
    /\ Dispatch(<<w, d>>)
    /\ IF w \notin owed THEN Stale(w)
       ELSE /\ Lands(w, Settled(d)) /\ guests' = guests + 1 /\ UNCHANGED <<gross, home, marching>>
            /\ \E p \in Ensured(NetFood - 1, Settled(d).food, d, Finished(w)) : Commit(p)

\* An attack, or scouts, at the settlement: defenders fall, Food is carried off,
\* and only if a siege changed a level is the schedule fixed.
AttackArrives(w, d) ==
    /\ Dispatch(<<w, d>>)
    /\ IF w \notin owed THEN Stale(w)
       ELSE \E h \in 0..home, v \in 0..guests, f \in 0..Settled(d).food :
            /\ Lands(w, [food |-> f, at |-> Settled(d).at])
            /\ home' = h /\ guests' = v /\ UNCHANGED marching
            /\ \/ gross' = gross /\ Commit(Finished(w))
               \/ /\ gross' = gross + Rate[w]
                  /\ \E p \in Ensured(Net(gross', h, v, away), f, d, Finished(w)) : Commit(p)

\* The settlement's own march arrives elsewhere.  Who falls there, founds a
\* settlement or stays as support is not fed from here any more; whoever turns
\* back is, and r is their return.  Nothing is settled, nothing is fixed.
MarchTurnsBack(w, d, r, n) ==
    /\ status[r] = "none" /\ n \in 1..party[w]
    /\ away' = away - (party[w] - n) /\ party' = [party EXCEPT ![r] = n]
    /\ owed' = (owed \ {w}) \cup {r}
    /\ Commit(Scheduled(Finished(w), r, d + Duration))
    /\ UNCHANGED abroad

MarchIsOver(w) ==
    /\ away' = away - party[w] /\ abroad' \in {abroad, abroad + party[w]}
    /\ owed' = owed \ {w}
    /\ Commit(Finished(w))
    /\ UNCHANGED party

MarchArrives(w, d) ==
    /\ Dispatch(<<w, d>>)
    /\ IF w \notin owed THEN Stale(w)
       ELSE /\ \/ \E r \in Returns, n \in 1..party[w] : MarchTurnsBack(w, d, r, n)
               \/ MarchIsOver(w)
            /\ UNCHANGED <<now, stored, gross, home, guests, lastTick>>

\* movementReturn: settled, the units are home, and what they bring is stored as
\* far as it fits; upkeep is what it was.
MovementReturn(r, d) ==
    /\ Dispatch(<<r, d>>)
    /\ IF r \notin owed THEN Stale(r)
       ELSE /\ \E loot \in 0..Loot :
                 Lands(r, [food |-> Clip(Settled(d).food + loot), at |-> Settled(d).at])
            /\ home' = home + party[r] /\ away' = away - party[r]
            /\ Commit(Finished(r))
            /\ UNCHANGED <<gross, guests, abroad, party>>

\* What one tick kills: guests first, then those at home, as far as the deficit
\* goes.  Nobody dies on the march, so that a deficit may remain.
Smaller(x, y) == IF x < y THEN x ELSE y
DeadGuests == Smaller(guests, -NetFood)
DeadAtHome == Smaller(home, -NetFood - DeadGuests)

StarvationTickUnstamped(e, d) ==  \* fault: no lastStarvationTickAt guard
    LET s == Settled(d)
        starving == NetFood < 0 /\ s.food = 0
        n == IF starving THEN NetFood + DeadGuests + DeadAtHome ELSE NetFood
    IN
    /\ Dispatch(<<e, d>>)
    /\ food' = s.food /\ calcAt' = s.at /\ lastTick' = d
    /\ guests' = IF starving THEN guests - DeadGuests ELSE guests
    /\ home' = IF starving THEN home - DeadAtHome ELSE home
    /\ \E p \in IF n >= 0 THEN {Disarmed(Done(e), dueAt)}
                ELSE Armed(IF starving THEN d + Hour ELSE Deadline(n, s.food, d), Done(e), dueAt) :
          Commit(p)
    /\ UNCHANGED <<now, gross, marching, owed>>

\* The starvationTick handler: nothing if a tick at least as late was applied.
\* The follow-up replaces whatever tick is noted as pending.
StarvationTick(e, d) ==
    LET s == Settled(d)
        starving == NetFood < 0 /\ s.food = 0
        n == IF starving THEN NetFood + DeadGuests + DeadAtHome ELSE NetFood
    IN
    /\ Dispatch(<<e, d>>)
    /\ IF lastTick >= d THEN Stale(e)
       ELSE /\ food' = s.food /\ calcAt' = s.at /\ lastTick' = d
            /\ guests' = IF starving THEN guests - DeadGuests ELSE guests
            /\ home' = IF starving THEN home - DeadAtHome ELSE home
            /\ \E p \in IF n >= 0 THEN {Disarmed(Done(e), dueAt)}
                        ELSE Armed(IF starving THEN d + Hour ELSE Deadline(n, s.food, d),
                                   Done(e), dueAt) :
                  Commit(p)
            /\ UNCHANGED <<now, gross, marching, owed>>

Next ==
    \/ Elapse \/ GetSettlementState \/ GuestsAreRecalled \/ EvictSupport
    \/ \E w \in Builds : StartBuild(w)
    \/ \E w \in Trainings : TrainUnits(w)
    \/ \E w \in Marches : SendMovement(w)
    \/ \E r \in Returns : RecallSupport(r) \/ SupportIsEvicted(r)
    \/ \E w \in Supports \cup Attacks : OthersSend(w)
    \/ \E e \in Events : Claim(e)
    \/ \E d \in 0..MaxTime :
         \/ \E e \in Events : RecordFailure(e, d)
         \/ \E w \in Builds : BuildComplete(w, d)
         \/ \E w \in Trainings : TrainingComplete(w, d)
         \/ \E w \in Supports : SupportArrive(w, d)
         \/ \E w \in Attacks : AttackArrives(w, d)
         \/ \E w \in Marches : MarchArrives(w, d)
         \/ \E r \in Returns : MovementReturn(r, d)
         \/ \E e \in Ticks : StarvationTick(e, d)

Spec == Init /\ [][Next]_vars

------------------------------------------------------------------------------
\* Properties.

TypeOK ==
    /\ now \in 0..MaxTime /\ faults \in 0..MaxFaults
    /\ food \in 0..Cap /\ calcAt \in 0..MaxTime
    /\ gross \in Int /\ home \in Nat /\ guests \in Nat /\ away \in Nat /\ abroad \in Nat
    /\ party \in [Legs -> Nat]
    /\ lastTick \in Nat \cup {Never}
    /\ pending \in Ticks \cup {None} /\ pendingDue \in Nat \cup {Never}
    /\ owed \subseteq Works
    /\ status \in [Events -> {"none", "due", "processing", "done", "failed", "deleted"}]
    /\ dueAt \in [Events -> Nat]
    /\ held \subseteq Events \X (0..MaxTime)

\* Whoever changed the upkeep or the production last, command, handler or tick,
\* and whether or not it called ensureStarvationSchedule: a settlement with
\* negative net Food has noted a starvation tick, and the tick it notes was
\* scheduled and not cancelled.  The converse does not hold: a battle lost
\* abroad, or guests that leave, may make the noted tick unnecessary.
DeficitIsWatched ==
    /\ NetFood < 0 => pending # None
    /\ (pending # None) <=> (pendingDue # Never)
    /\ pending # None => status[pending] \notin {"none", "deleted"}

\* Neither a command that read the clock long ago nor a late or repeated event
\* turns the settlement back, and nobody dies twice of the same hour: an event
\* that finishes no work, and so is no battle, takes units here only with a
\* stamp later than the last.
Handled == held' # held \/ faults' # faults
HoursOnlyAdvance ==
    [][/\ calcAt' >= calcAt /\ lastTick' >= lastTick
       /\ Handled /\ owed' = owed /\ home' + guests' < home + guests
          => lastTick' > lastTick]_vars

\* What a test says of repeated commands and the design record of commands and
\* handlers: there is exactly one pending tick.  TLC finds two that will both
\* be handled (starve_one.cfg).
Live(e) == status[e] \in {"due", "processing"}
ExactlyOneTick == Cardinality({e \in Ticks : Live(e)}) <= 1

\* What the design record says of upkeep: a unit eats from the moment it is
\* credited.  The Food the settlement has at the instant a unit is credited is
\* the same before and after.  TLC refutes it in starve.cfg.
FoodAt(t) == Settled(t).food
UpkeepFromCredit ==
    [][\A w \in Trainings :
         w \in owed \ owed' =>
             \E d \in 0..MaxTime : <<w, d>> \in held /\ FoodAt(d)' = FoodAt(d)]_vars
==============================================================================
