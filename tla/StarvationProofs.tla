--------------------------- MODULE StarvationProofs ---------------------------
(***************************************************************************)
(* For any production, prices, marches, attacks, support, lateness and     *)
(* faults: a settlement with negative net Food has noted a starvation tick *)
(* that was not cancelled, and its hours only advance.  Writers that call  *)
(* ensureStarvationSchedule pass it the net they leave behind, or one that *)
(* is at least as bad; the others leave a net that is no smaller than the  *)
(* one they found.  That second half is what the comments in the code      *)
(* argue for battles, recalls and arrivals, one by one.                    *)
(***************************************************************************)
EXTENDS Starvation, SumsProofs

Statuses == {"none", "due", "processing", "done", "failed", "deleted"}

\* The units of the legs that are under way.
Marching == [w \in Legs |-> IF w \in owed THEN party[w] ELSE 0]

AwayIsMarching == away = SumFunction(Marching)

\* What still stands was scheduled, so that no march is sent out twice.
OwedWereScheduled == \A w \in owed : status[w] # "none"

IInv == TypeOK /\ AwayIsMarching /\ OwedWereScheduled /\ DeficitIsWatched

\* TypeOK of what is not the schedule.
RestOK ==
    /\ now \in 0..MaxTime /\ faults \in 0..MaxFaults
    /\ food \in 0..Cap /\ calcAt \in 0..MaxTime
    /\ gross \in Int /\ home \in Nat /\ guests \in Nat /\ away \in Nat /\ abroad \in Nat
    /\ party \in [Legs -> Nat]
    /\ lastTick \in Nat \cup {Never}
    /\ owed \subseteq Works
    /\ held \subseteq Events \X (0..MaxTime)

\* The schedule as a transaction has it: of its type, and noting a tick that was
\* scheduled and not cancelled, or none.
Plans == [status : [Events -> Statuses], dueAt : [Events -> Nat],
          pending : Ticks \cup {None}, pendingDue : Nat \cup {Never}]

Sound(p) ==
    /\ p \in Plans
    /\ (p.pending # None) <=> (p.pendingDue # Never)
    /\ p.pending # None => p.status[p.pending] \notin {"none", "deleted"}

\* q is p but for ticks, and notes one exactly if the net is n < 0.
Fits(n, p, q) ==
    /\ Sound(q)
    /\ (q.pending # None) <=> (n < 0)
    /\ \A w \in Works : q.status[w] = p.status[w]

------------------------------------------------------------------------------
\* The operators.

\* A quotient of natural numbers is one.
LEMMA Quotient == \A x \in Nat : \A m \in Nat \ {0} : x \div m \in Nat
OBVIOUS

\* Food runs out at a time, not before the instant it is counted from.
LEMMA DeadlineType ==
    ASSUME NEW n \in Int, n < 0, NEW f \in Nat, NEW t \in Nat
    PROVE  Deadline(n, f, t) \in Nat
<1> DEFINE m == -n
           x == f + m - 1
<1>1. m \in Nat \ {0} /\ x \in Nat
    OBVIOUS
<1> HIDE DEF m, x
<1>2. x \div m \in Nat
    BY <1>1, Quotient
<1>3. Deadline(n, f, t) = t + x \div m
    BY DEF Deadline, m, x
<1> QED BY <1>2, <1>3

\* Food settled up to any instant stays between nothing and the cap.
LEMMA SettledType ==
    ASSUME TypeOK, NEW t \in 0..MaxTime
    PROVE  /\ Settled(t).food \in 0..Cap /\ Settled(t).at \in 0..MaxTime
           /\ Settled(t).at >= calcAt
<1>1. \A x \in Int : Clip(x) \in 0..Cap
    BY StarvationAssumption DEF Clip
<1>2. NetFood \in Int
    BY DEF TypeOK, NetFood, Net
<1>3. CASE t > calcAt
    <2> DEFINE k == NetFood * (t - calcAt)
    <2>1. k \in Int
        BY <1>2, StarvationAssumption DEF TypeOK
    <2> HIDE DEF k
    <2>2. food + k \in Int
        BY <2>1, StarvationAssumption DEF TypeOK
    <2>3. Settled(t) = [food |-> Clip(food + k), at |-> t]
        BY <1>3 DEF Settled, k
    <2> QED BY <1>1, <1>3, <2>2, <2>3, StarvationAssumption DEF TypeOK
<1>4. CASE ~(t > calcAt)
    BY <1>4, StarvationAssumption DEF Settled, TypeOK
<1> QED BY <1>3, <1>4

\* The stored events with one of them changed.
LEMMA WithStatus ==
    ASSUME NEW f \in [Events -> Statuses], NEW e, NEW v \in Statuses
    PROVE  /\ With(f, e, v) \in [Events -> Statuses]
           /\ \A x \in Events : With(f, e, v)[x] = IF x = e THEN v ELSE f[x]
BY DEF With

LEMMA WithDue ==
    ASSUME NEW f \in [Events -> Nat], NEW e, NEW v \in Nat
    PROVE  With(f, e, v) \in [Events -> Nat]
BY DEF With

\* A tick armed where there was none.
LEMMA ArmStep ==
    ASSUME NEW n \in Int, n < 0, NEW t \in Nat, NEW p,
           NEW st \in [Events -> Statuses], NEW du \in [Events -> Nat],
           \A w \in Works : st[w] = p.status[w],
           NEW q \in Armed(t, st, du)
    PROVE  Fits(n, p, q)
<1>1. PICK e \in Ticks :
          q = [status |-> With(st, e, "due"), dueAt |-> With(du, e, t),
               pending |-> e, pendingDue |-> t]
    BY DEF Armed
<1>2. e \in Events /\ e # None /\ \A w \in Works : w \in Events /\ w # e
    BY <1>1, StarvationAssumption DEF Events
<1>3. /\ With(st, e, "due") \in [Events -> Statuses]
      /\ With(st, e, "due")[e] = "due"
      /\ \A w \in Works : With(st, e, "due")[w] = st[w]
    <2>1. "due" \in Statuses
        BY DEF Statuses
    <2> QED BY <1>2, <2>1, WithStatus
<1>4. With(du, e, t) \in [Events -> Nat]
    BY WithDue
<1>5. t # Never
    BY DEF Never
<1> HIDE DEF Statuses
<1>6. Sound(q)
    BY <1>1, <1>2, <1>3, <1>4, <1>5 DEF Sound, Plans
<1> QED BY <1>1, <1>2, <1>3, <1>6 DEF Fits

\* No tick, where there is no deficit.
LEMMA DisarmStep ==
    ASSUME NEW n \in Int, n >= 0, NEW p,
           NEW st \in [Events -> Statuses], NEW du \in [Events -> Nat],
           \A w \in Works : st[w] = p.status[w]
    PROVE  Fits(n, p, Disarmed(st, du))
BY DEF Disarmed, Fits, Sound, Plans

\* ensureStarvationSchedule does what it is for, for whatever net it is given.
LEMMA EnsureStep ==
    ASSUME NEW n \in Int, NEW f \in Nat, NEW t \in Nat, NEW p, Sound(p),
           NEW q \in Ensured(n, f, t, p)
    PROVE  Fits(n, p, q)
<1>0. p \in Plans /\ p.status \in [Events -> Statuses] /\ p.dueAt \in [Events -> Nat]
      /\ p.pending \in Ticks \cup {None}
    BY DEF Sound, Plans
<1>1. Deleted(p) \in [Events -> Statuses] /\ \A w \in Works : Deleted(p)[w] = p.status[w]
    <2>1. "deleted" \in Statuses
        BY DEF Statuses
    <2>2. \A w \in Works : w \in Events /\ w # p.pending
        BY <1>0, StarvationAssumption DEF Events
    <2> QED BY <1>0, <2>1, <2>2, WithStatus DEF Deleted
<1>2. Freed(p) \in [Events -> Nat]
    BY <1>0, WithDue DEF Freed
<1>3. CASE n >= 0
    BY <1>1, <1>2, <1>3, DisarmStep DEF Ensured
<1>4. CASE n < 0 /\ ~(p.pending # None /\ p.pendingDue = Deadline(n, f, t))
    <2>1. q \in Armed(Deadline(n, f, t), Deleted(p), Freed(p))
        BY <1>4 DEF Ensured
    <2>2. Deadline(n, f, t) \in Nat
        BY <1>4, DeadlineType
    <2> QED BY <1>1, <1>2, <1>4, <2>1, <2>2, ArmStep
<1>5. CASE n < 0 /\ p.pending # None /\ p.pendingDue = Deadline(n, f, t)
    <2>1. q = p
        BY <1>5 DEF Ensured
    <2> QED BY <1>5, <2>1 DEF Fits
<1> QED BY <1>3, <1>4, <1>5

\* Scheduling a work leaves the note as it is.
LEMMA ScheduledStep ==
    ASSUME NEW p, Sound(p), NEW w \in Works \cup {None}, NEW t \in Nat
    PROVE  /\ Sound(Scheduled(p, w, t)) /\ Scheduled(p, w, t).pending = p.pending
           /\ w # None => Scheduled(p, w, t).status[w] = "due"
           /\ \A x \in Works \ {w} : Scheduled(p, w, t).status[x] = p.status[x]
<1>0. p \in Plans /\ p.status \in [Events -> Statuses] /\ p.dueAt \in [Events -> Nat]
      /\ p.pending \in Ticks \cup {None} /\ p.pendingDue \in Nat \cup {Never}
    BY DEF Sound, Plans
<1> DEFINE st == With(p.status, w, "due")
           du == With(p.dueAt, w, t)
<1>1. /\ st \in [Events -> Statuses]
      /\ \A x \in Events : st[x] = IF x = w THEN "due" ELSE p.status[x]
    <2>1. "due" \in Statuses
        BY DEF Statuses
    <2> QED BY <1>0, <2>1, WithStatus
<1>2. du \in [Events -> Nat]
    BY <1>0, WithDue
<1>3. Scheduled(p, w, t)
      = [status |-> st, dueAt |-> du, pending |-> p.pending, pendingDue |-> p.pendingDue]
    BY DEF Scheduled
<1> HIDE DEF st, du
<1>4. p.pending # None => st[p.pending] = p.status[p.pending]
    BY <1>0, <1>1, StarvationAssumption DEF Events
<1>5. \A x \in Works : x \in Events
    BY DEF Events
<1>6. Sound(Scheduled(p, w, t))
    BY <1>0, <1>1, <1>2, <1>3, <1>4 DEF Sound, Plans
<1> QED BY <1>1, <1>3, <1>5, <1>6

\* What is stored, and what the done mark of an event makes of it: nothing is
\* unscheduled, and the tick that is noted is still one.
LEMMA FinishedStep ==
    ASSUME TypeOK, DeficitIsWatched
    PROVE  /\ Sound(Stored)
           /\ \A e \in Events :
                /\ Sound(Finished(e)) /\ Finished(e).pending = pending
                /\ \A w \in Works : status[w] # "none" => Finished(e).status[w] # "none"
<1>1. Stored \in Plans /\ Sound(Stored)
    BY DEF Stored, Plans, Sound, TypeOK, DeficitIsWatched, Statuses
<1>2. ASSUME NEW e \in Events
      PROVE  /\ Done(e) \in [Events -> Statuses]
             /\ \A x \in Events : /\ Done(e)[x] = "none" => status[x] = "none"
                                  /\ Done(e)[x] = "deleted" => status[x] = "deleted"
    BY DEF TypeOK, Done, Statuses
<1>3. \A e \in Events : Finished(e) = [status |-> Done(e), dueAt |-> dueAt,
                                      pending |-> pending, pendingDue |-> pendingDue]
    BY DEF Finished, Stored
<1>4. pending # None => pending \in Events
    BY DEF TypeOK, Events
<1>5. ASSUME NEW e \in Events PROVE Sound(Finished(e))
    <2>1. Finished(e) \in Plans
        BY <1>2, <1>3 DEF Plans, TypeOK
    <2> QED BY <1>2, <1>3, <1>4, <2>1 DEF Sound, DeficitIsWatched
<1> QED BY <1>1, <1>2, <1>3, <1>5 DEF Events

\* A transaction that commits a sound schedule, with a tick noted if it leaves a
\* deficit, and all that still stands scheduled.
LEMMA CommitStep ==
    ASSUME RestOK', NEW p, Sound(p), Commit(p),
           NetFood' < 0 => p.pending # None,
           \A w \in owed' : p.status[w] # "none"
    PROVE  TypeOK' /\ OwedWereScheduled' /\ DeficitIsWatched'
<1>1. /\ status' = p.status /\ dueAt' = p.dueAt
      /\ pending' = p.pending /\ pendingDue' = p.pendingDue
    BY DEF Commit
<1>2. TypeOK'
    BY <1>1 DEF RestOK, TypeOK, Sound, Plans, Statuses
<1> QED BY <1>1, <1>2 DEF Sound, OwedWereScheduled, DeficitIsWatched
------------------------------------------------------------------------------
\* The marches.

\* Units that do not march are neither sent nor awaited.
LEMMA MarchingSame ==
    ASSUME AwayIsMarching, UNCHANGED <<away, party>>,
           \A w \in Legs : w \in owed' <=> w \in owed
    PROVE  AwayIsMarching'
<1>1. Marching' = Marching
    BY DEF Marching
<1> QED BY <1>1 DEF AwayIsMarching

\* A leg that begins, or ends, takes its units along.
LEMMA MarchingMoves ==
    ASSUME TypeOK, AwayIsMarching, NEW w \in Legs,
           party' \in [Legs -> Nat],
           \A v \in Legs : v # w => party'[v] = party[v] /\ (v \in owed' <=> v \in owed),
           away' = away + Marching'[w] - Marching[w]
    PROVE  AwayIsMarching'
<1>1. Marching \in [Legs -> Int] /\ Marching' \in [Legs -> Int]
    BY DEF Marching, TypeOK
<1>2. \A v \in Legs : v # w => Marching'[v] = Marching[v]
    BY DEF Marching
<1>3. DifferAt(Legs, Marching, Marching', w)
    BY <1>1, <1>2, StarvationAssumption DEF DifferAt
<1>4. SumFunction(Marching') = SumFunction(Marching) + Marching'[w] - Marching[w]
    BY <1>3, TotalMoves
<1>5. away' = SumFunction(Marching')
    BY <1>4 DEF AwayIsMarching
<1> QED BY <1>5 DEF AwayIsMarching

\* A march that turns back: the units that are left go from one leg to the next.
LEMMA MarchingTurns ==
    ASSUME TypeOK, AwayIsMarching, NEW w \in Legs, NEW r \in Legs, w \in owed, r \notin owed,
           NEW n \in Nat, party' = [party EXCEPT ![r] = n],
           owed' = (owed \ {w}) \cup {r}, away' = away - (party[w] - n)
    PROVE  AwayIsMarching'
<1>1. Marching \in [Legs -> Int] /\ Marching' \in [Legs -> Int]
    BY DEF Marching, TypeOK
<1>2. \A v \in Legs : v # w /\ v # r => Marching'[v] = Marching[v]
    BY DEF Marching, TypeOK
<1>3. /\ Marching[w] = party[w] /\ Marching'[w] = 0
      /\ Marching[r] = 0 /\ Marching'[r] = n /\ party[w] \in Nat
    BY DEF Marching, TypeOK
<1>4. DifferAtTwo(Legs, Marching, Marching', w, r)
    BY <1>1, <1>2, StarvationAssumption DEF DifferAtTwo
<1>5. /\ SumFunction(Marching) \in Int
      /\ SumFunction(Marching')
         = SumFunction(Marching) + (Marching'[w] - Marching[w]) + (Marching'[r] - Marching[r])
    BY <1>4, TotalMovesTwice
<1>6. away' = SumFunction(Marching')
    BY <1>3, <1>5 DEF AwayIsMarching
<1> QED BY <1>6 DEF AwayIsMarching

\* No leg has more units than are away.
LEMMA MarchIsAway ==
    ASSUME TypeOK, AwayIsMarching, NEW w \in Legs, w \in owed
    PROVE  party[w] \in Nat /\ party[w] <= away
<1>1. Marching \in [Legs -> Nat] /\ Marching[w] = party[w]
    BY DEF Marching, TypeOK
<1>2. Marching[w] <= SumFunction(Marching)
    BY <1>1, TotalCovers, StarvationAssumption
<1> QED BY <1>1, <1>2 DEF AwayIsMarching, TypeOK

------------------------------------------------------------------------------
\* Commands.

\* Food as settled at an instant a command or an event may have.
LEMMA InstantStep ==
    ASSUME TypeOK, NEW t \in Instants \cup (0..MaxTime)
    PROVE  /\ t \in Nat /\ t + Duration \in Nat
           /\ Settled(t).food \in 0..Cap /\ Settled(t).food \in Nat
           /\ Settled(t).at \in 0..MaxTime /\ Settled(t).at >= calcAt
           /\ NetFood \in Int
<1>1. t \in 0..MaxTime
    BY StarvationAssumption DEF Instants, TypeOK
<1>2. NetFood \in Int
    BY DEF TypeOK, NetFood, Net
<1> QED BY <1>1, <1>2, SettledType, StarvationAssumption

\* A command has looked at the net it leaves behind: what departs eats on.
LEMMA CommandStep ==
    ASSUME IInv, NEW t \in Instants, NEW cost \in Nat, NEW departed \in Nat,
           NEW w \in Works \cup {None}, Command(t, cost, departed, w),
           party' \in [Legs -> Nat]
    PROVE  TypeOK' /\ OwedWereScheduled' /\ DeficitIsWatched'
<1>0. TypeOK
    BY DEF IInv
<1>1. PICK p \in Ensured(NetFood, Settled(t).food, t, Stored) :
          Commit(Scheduled(p, w, t + Duration))
    BY DEF Command
<1>2. /\ food' = Settled(t).food - cost /\ calcAt' = Settled(t).at
      /\ home' = home - departed /\ away' = away + departed
      /\ Settled(t).food >= cost /\ home >= departed
      /\ owed' = owed \cup ({w} \ {None})
      /\ UNCHANGED <<now, gross, guests, abroad, lastTick, held, faults>>
    BY DEF Command
<1>3. Fits(NetFood, Stored, p)
    BY <1>0, InstantStep, FinishedStep, EnsureStep DEF IInv
<1>4. NetFood' = NetFood
    BY <1>0, <1>2 DEF NetFood, Net, TypeOK
<1>5. RestOK'
    <2>1. food' \in 0..Cap /\ home' \in Nat /\ away' \in Nat
        BY <1>0, <1>2, InstantStep, StarvationAssumption DEF TypeOK
    <2> QED BY <1>0, <1>2, <2>1, InstantStep DEF TypeOK, RestOK
<1> DEFINE q == Scheduled(p, w, t + Duration)
<1>6. /\ Sound(q) /\ q.pending = p.pending
      /\ w # None => q.status[w] = "due"
      /\ \A x \in Works \ {w} : q.status[x] = p.status[x]
    <2>1. Sound(p) /\ t + Duration \in Nat
        BY <1>0, <1>3, InstantStep DEF Fits
    <2> QED BY <2>1, ScheduledStep
<1> HIDE DEF q
<1>7. \A x \in owed' : q.status[x] # "none"
    <2>1. \A x \in owed : x \in Works /\ p.status[x] # "none"
        BY <1>0, <1>3 DEF Fits, Stored, IInv, OwedWereScheduled, TypeOK
    <2>2. ASSUME NEW x \in owed' PROVE q.status[x] # "none"
        <3>1. CASE x = w /\ w # None
            BY <1>6, <3>1
        <3>2. CASE x \in owed /\ x # w
            BY <1>6, <2>1, <3>2
        <3>3. CASE x \in owed /\ w = None
            BY <1>6, <2>1, <3>3, StarvationAssumption DEF Events
        <3> QED BY <1>2, <3>1, <3>2, <3>3
    <2> QED BY <2>2
<1>8. Commit(q)
    BY <1>1 DEF q
<1>9. NetFood' < 0 => q.pending # None
    BY <1>3, <1>4, <1>6 DEF Fits
<1> QED BY <1>5, <1>6, <1>7, <1>8, <1>9, CommitStep

\* Commands that send nobody away.
LEMMA StayingStep ==
    ASSUME IInv, NEW t \in Instants, NEW cost \in Nat,
           NEW w \in Works \cup {None}, w \notin Legs,
           Command(t, cost, 0, w), UNCHANGED party
    PROVE  IInv'
<1>1. TypeOK' /\ OwedWereScheduled' /\ DeficitIsWatched'
    <2>1. party' \in [Legs -> Nat]
        BY DEF IInv, TypeOK
    <2> QED BY <2>1, CommandStep
<1>2. away' = away /\ owed' = owed \cup ({w} \ {None})
    BY DEF Command, IInv, TypeOK
<1>3. AwayIsMarching'
    BY <1>2, MarchingSame DEF IInv
<1> QED BY <1>1, <1>3 DEF IInv

\* sendMovement.
LEMMA SendingStep ==
    ASSUME IInv, NEW w \in Marches, SendMovement(w)
    PROVE  IInv'
<1>1. PICK n \in 1..home, t \in Instants :
          Command(t, 0, n, w) /\ party' = [party EXCEPT ![w] = n]
    BY DEF SendMovement
<1>2. TypeOK /\ n \in Nat /\ w \in Works /\ w \in Legs /\ w # None
    BY StarvationAssumption DEF IInv, TypeOK, Works, Legs, Events
<1>3. party' \in [Legs -> Nat] /\ party'[w] = n
    BY <1>1, <1>2 DEF TypeOK
<1>4. TypeOK' /\ OwedWereScheduled' /\ DeficitIsWatched'
    BY <1>1, <1>2, <1>3, CommandStep
<1>5. w \notin owed /\ away' = away + n /\ owed' = owed \cup {w}
    BY <1>1, <1>2 DEF IInv, OwedWereScheduled, Command, MayBegin
<1>6. Marching[w] = 0 /\ Marching'[w] = n
    BY <1>2, <1>3, <1>5 DEF Marching
<1>7. AwayIsMarching'
    <2>1. \A v \in Legs : v # w => party'[v] = party[v] /\ (v \in owed' <=> v \in owed)
        BY <1>1, <1>2, <1>5 DEF TypeOK
    <2>2. away' = away + Marching'[w] - Marching[w]
        BY <1>2, <1>5, <1>6 DEF TypeOK
    <2> QED BY <1>2, <1>3, <2>1, <2>2, MarchingMoves DEF IInv
<1> QED BY <1>4, <1>7 DEF IInv

\* Support that comes home is counted in before the schedule is fixed.
LEMMA ComingHomeStep ==
    ASSUME IInv, NEW r \in Returns, NEW t \in Instants, NEW n \in 1..abroad, NEW p,
           Sound(p), \A w \in Works : p.status[w] = status[w],
           SupportComesHome(r, n, t, p)
    PROVE  IInv'
<1>0. TypeOK /\ r \in Legs /\ r \in Works /\ r # None /\ n \in Nat
    BY StarvationAssumption DEF IInv, TypeOK, Works, Legs, Events
<1> DEFINE s == Scheduled(p, r, t + Duration)
<1>1. PICK q \in Ensured(NetFood - n, Settled(t).food, t, s) : Commit(q)
    BY DEF SupportComesHome
<1>2. /\ status[r] = "none" /\ away' = away + n /\ abroad' = abroad - n
      /\ party' = [party EXCEPT ![r] = n] /\ owed' = owed \cup {r}
      /\ food' = Settled(t).food /\ calcAt' = Settled(t).at
      /\ UNCHANGED <<now, gross, home, guests, lastTick, held, faults>>
    BY DEF SupportComesHome
<1>3. /\ Sound(s) /\ s.status[r] = "due"
      /\ \A x \in Works \ {r} : s.status[x] = status[x]
    <2>1. t + Duration \in Nat /\ r \in Works \cup {None} /\ r # None
        BY <1>0, InstantStep
    <2>2. /\ Sound(s) /\ s.status[r] = "due"
          /\ \A x \in Works \ {r} : s.status[x] = p.status[x]
        BY <2>1, ScheduledStep
    <2> QED BY <2>2
<1> HIDE DEF s
<1>4. Fits(NetFood - n, s, q)
    BY <1>0, <1>3, InstantStep, EnsureStep
<1>5. NetFood' = NetFood - n
    BY <1>0, <1>2 DEF NetFood, Net, TypeOK
<1>6. RestOK'
    <2>1. abroad' \in Nat /\ away' \in Nat /\ party' \in [Legs -> Nat]
        BY <1>0, <1>2 DEF TypeOK
    <2> QED BY <1>0, <1>2, <2>1, InstantStep DEF TypeOK, RestOK
<1>7. \A x \in owed' : q.status[x] # "none"
    BY <1>0, <1>2, <1>3, <1>4 DEF Fits, IInv, OwedWereScheduled, TypeOK
<1>8. TypeOK' /\ OwedWereScheduled' /\ DeficitIsWatched'
    BY <1>1, <1>4, <1>5, <1>6, <1>7, CommitStep DEF Fits
<1>9. AwayIsMarching'
    <2>1. r \notin owed
        BY <1>2 DEF IInv, OwedWereScheduled
    <2>2. Marching[r] = 0 /\ Marching'[r] = n
        BY <1>0, <1>2, <2>1 DEF Marching, TypeOK
    <2>3. /\ party' \in [Legs -> Nat]
          /\ \A v \in Legs : v # r => party'[v] = party[v] /\ (v \in owed' <=> v \in owed)
        BY <1>0, <1>2 DEF TypeOK
    <2>4. away' = away + Marching'[r] - Marching[r]
        BY <1>0, <1>2, <2>2 DEF TypeOK
    <2> QED BY <1>0, <2>3, <2>4, MarchingMoves DEF IInv
<1> QED BY <1>8, <1>9 DEF IInv

LEMMA RecallStep ==
    ASSUME IInv, NEW r \in Returns, RecallSupport(r) \/ SupportIsEvicted(r)
    PROVE  IInv'
<1>0. TypeOK /\ Sound(Stored) /\ \A w \in Works : Stored.status[w] = status[w]
    BY FinishedStep DEF IInv, Stored
<1>1. CASE RecallSupport(r)
    <2>1. PICK n \in 1..abroad, t \in Instants :
              \E p \in Ensured(NetFood, Settled(t).food, t, Stored) : SupportComesHome(r, n, t, p)
        BY <1>1 DEF RecallSupport
    <2>2. PICK p \in Ensured(NetFood, Settled(t).food, t, Stored) : SupportComesHome(r, n, t, p)
        BY <2>1
    <2>3. Fits(NetFood, Stored, p)
        BY <1>0, InstantStep, EnsureStep
    <2>4. Sound(p) /\ \A w \in Works : p.status[w] = status[w]
        BY <1>0, <2>3 DEF Fits
    <2> QED BY <2>2, <2>4, ComingHomeStep
<1>2. CASE SupportIsEvicted(r)
    <2>1. PICK n \in 1..abroad, t \in Instants : SupportComesHome(r, n, t, Stored)
        BY <1>2 DEF SupportIsEvicted
    <2> QED BY <1>0, <2>1, ComingHomeStep
<1> QED BY <1>1, <1>2

\* Guests that leave eat no more, whether or not the schedule was looked at.
LEMMA GuestsStep ==
    ASSUME IInv, NEW t \in Instants, NEW n \in 1..guests, GuestsLeave(n, t),
           \/ UNCHANGED schedule
           \/ \E p \in Ensured(NetFood, Settled(t).food, t, Stored) : Commit(p)
    PROVE  IInv'
<1>0. TypeOK /\ Sound(Stored) /\ n \in Nat
    BY FinishedStep DEF IInv, TypeOK
<1>1. /\ food' = Settled(t).food /\ calcAt' = Settled(t).at /\ guests' = guests - n
      /\ UNCHANGED <<now, gross, home, away, abroad, party, lastTick, owed, held, faults>>
    BY DEF GuestsLeave, marching
<1>2. NetFood' = NetFood + n
    BY <1>0, <1>1 DEF NetFood, Net, TypeOK
<1>3. RestOK'
    <2>1. guests' \in Nat
        BY <1>0, <1>1 DEF TypeOK
    <2> QED BY <1>0, <1>1, <2>1, InstantStep DEF TypeOK, RestOK
<1>4. PICK p : /\ Sound(p) /\ Commit(p)
               /\ NetFood < 0 => p.pending # None
               /\ \A w \in Works : p.status[w] = status[w]
    <2>1. CASE UNCHANGED schedule
        <3>1. Commit(Stored) /\ Stored.pending = pending
            BY <2>1 DEF Commit, Stored, schedule
        <3> QED BY <1>0, <3>1 DEF Stored, IInv, DeficitIsWatched
    <2>2. CASE \E q \in Ensured(NetFood, Settled(t).food, t, Stored) : Commit(q)
        <3>1. PICK q \in Ensured(NetFood, Settled(t).food, t, Stored) : Commit(q)
            BY <2>2
        <3>2. Fits(NetFood, Stored, q)
            BY <1>0, InstantStep, EnsureStep
        <3> QED BY <3>1, <3>2 DEF Fits, Stored
    <2> QED BY <2>1, <2>2
<1>5. TypeOK' /\ OwedWereScheduled' /\ DeficitIsWatched'
    <2>1. \A w \in owed' : p.status[w] # "none"
        BY <1>0, <1>1, <1>4 DEF IInv, OwedWereScheduled, TypeOK
    <2>2. NetFood' < 0 => p.pending # None
        BY <1>0, <1>2, <1>4, InstantStep
    <2> QED BY <1>3, <1>4, <2>1, <2>2, CommitStep
<1>6. AwayIsMarching'
    BY <1>1, MarchingSame DEF IInv
<1> QED BY <1>5, <1>6 DEF IInv
LEMMA LeavingStep ==
    ASSUME IInv, GuestsAreRecalled \/ EvictSupport
    PROVE  IInv'
<1>1. CASE GuestsAreRecalled
    <2>1. PICK n \in 1..guests, t \in Instants : GuestsLeave(n, t) /\ UNCHANGED schedule
        BY <1>1 DEF GuestsAreRecalled
    <2> QED BY <2>1, GuestsStep
<1>2. CASE EvictSupport
    <2>1. PICK n \in 1..guests, t \in Instants :
              /\ GuestsLeave(n, t)
              /\ \E p \in Ensured(NetFood, Settled(t).food, t, Stored) : Commit(p)
        BY <1>2 DEF EvictSupport
    <2> QED BY <2>1, GuestsStep
<1> QED BY <1>1, <1>2

------------------------------------------------------------------------------
\* The scheduler's side.

\* A step that marks events, but unschedules and cancels none, and leaves a net
\* no worse than it was.
LEMMA MarkStep ==
    ASSUME IInv, RestOK',
           status' \in [Events -> Statuses], dueAt' \in [Events -> Nat],
           UNCHANGED <<pending, pendingDue>>, NetFood' >= NetFood, owed' \subseteq owed,
           \A x \in Events : /\ status'[x] = "none" => status[x] = "none"
                             /\ status'[x] = "deleted" => status[x] = "deleted"
    PROVE  TypeOK' /\ OwedWereScheduled' /\ DeficitIsWatched'
<1>1. TypeOK'
    BY DEF IInv, TypeOK, RestOK, Statuses
<1>2. NetFood \in Int /\ NetFood' \in Int
    BY <1>1 DEF IInv, TypeOK, NetFood, Net
<1>3. \A x \in Ticks \cup Works : x \in Events
    BY DEF Events
<1>4. OwedWereScheduled'
    BY <1>3 DEF IInv, TypeOK, OwedWereScheduled
<1>5. DeficitIsWatched'
    BY <1>2, <1>3 DEF IInv, TypeOK, DeficitIsWatched
<1> QED BY <1>1, <1>4, <1>5

\* Time, claims and failures.
LEMMA OutsideStep ==
    ASSUME IInv,
           \/ Elapse
           \/ \E e \in Events : Claim(e)
           \/ \E d \in 0..MaxTime : \E e \in Events : RecordFailure(e, d)
    PROVE  IInv'
<1>0. TypeOK
    BY DEF IInv
<1>1. /\ UNCHANGED <<stored, gross, troops, lastTick, pending, pendingDue, owed>>
      /\ now' \in 0..MaxTime /\ faults' \in 0..MaxFaults
      /\ held' \subseteq Events \X (0..MaxTime)
      /\ status' \in [Events -> Statuses] /\ dueAt' \in [Events -> Nat]
      /\ \A x \in Events : /\ status'[x] = "none" => status[x] = "none"
                           /\ status'[x] = "deleted" => status[x] = "deleted"
    <2>1. CASE Elapse
        BY <1>0, <2>1, StarvationAssumption DEF Elapse, TypeOK, Statuses, schedule
    <2>2. CASE \E e \in Events : Claim(e)
        <3>0. PICK e \in Events : Claim(e)
            BY <2>2
        <3>1. status[e] = "due" /\ dueAt[e] \in 0..MaxTime
            BY <1>0, <3>0, StarvationAssumption DEF Claim, Due, TypeOK
        <3>2. /\ status' = [status EXCEPT ![e] = "processing"]
              /\ dueAt' = [dueAt EXCEPT ![e] = 0] /\ held' = held \cup {<<e, dueAt[e]>>}
              /\ UNCHANGED <<now, stored, gross, troops, lastTick, pending, pendingDue, owed, faults>>
            BY <3>0 DEF Claim
        <3> QED BY <1>0, <3>1, <3>2 DEF TypeOK, Statuses
    <2>3. CASE \E d \in 0..MaxTime : \E e \in Events : RecordFailure(e, d)
        BY <1>0, <2>3, StarvationAssumption DEF RecordFailure, TypeOK, Statuses
    <2> QED BY <2>1, <2>2, <2>3
<1>2. UNCHANGED <<food, calcAt, gross, home, guests, away, abroad, party, lastTick, owed>>
    BY <1>1 DEF stored, troops, marching
<1>3. RestOK'
    BY <1>0, <1>1, <1>2 DEF TypeOK, RestOK
<1>4. NetFood' >= NetFood
    BY <1>0, <1>2 DEF NetFood, Net, TypeOK
<1>5. TypeOK' /\ OwedWereScheduled' /\ DeficitIsWatched'
    BY <1>1, <1>2, <1>3, <1>4, MarkStep
<1>6. AwayIsMarching'
    BY <1>2, MarchingSame DEF IInv
<1> QED BY <1>5, <1>6 DEF IInv

\* What another player sends changes the schedule only.
LEMMA OthersStep ==
    ASSUME IInv, NEW w \in Supports \cup Attacks, OthersSend(w)
    PROVE  IInv'
<1>0. /\ TypeOK /\ w \in Works /\ w \notin Legs /\ w \in Works \cup {None} /\ w # None
      /\ now + Duration \in Nat
    BY StarvationAssumption DEF IInv, TypeOK, Works, Events
<1>1. /\ Commit(Scheduled(Stored, w, now + Duration)) /\ owed' = owed \cup {w}
      /\ UNCHANGED <<now, food, calcAt, gross, home, guests, away, abroad, party>>
      /\ UNCHANGED <<lastTick, held, faults>>
    BY DEF OthersSend, stored, troops, marching
<1>2. RestOK'
    BY <1>0, <1>1 DEF TypeOK, RestOK
<1> DEFINE p == Scheduled(Stored, w, now + Duration)
<1>3. /\ Sound(p) /\ p.pending = Stored.pending /\ p.status[w] = "due"
      /\ \A x \in Works \ {w} : p.status[x] = Stored.status[x]
    <2>1. Sound(Stored)
        BY <1>0, FinishedStep DEF IInv
    <2> QED BY <1>0, <2>1, ScheduledStep
<1>4. Commit(p)
    BY <1>1
<1> HIDE DEF p
<1>5. NetFood' < 0 => p.pending # None
    <2>1. NetFood' = NetFood
        BY <1>1 DEF NetFood, Net
    <2> QED BY <1>3, <2>1 DEF IInv, DeficitIsWatched, Stored
<1>6. \A x \in owed' : p.status[x] # "none"
    <2>1. \A x \in owed : x \in Works /\ Stored.status[x] # "none"
        BY <1>0 DEF IInv, OwedWereScheduled, TypeOK, Stored
    <2> QED BY <1>1, <1>3, <2>1
<1>7. TypeOK' /\ OwedWereScheduled' /\ DeficitIsWatched'
    BY <1>2, <1>3, <1>4, <1>5, <1>6, CommitStep
<1>8. AwayIsMarching'
    BY <1>0, <1>1, MarchingSame DEF IInv
<1> QED BY <1>7, <1>8 DEF IInv
------------------------------------------------------------------------------
\* Handlers.

\* The document that is dispatched names an event and its due time.
LEMMA DispatchStep ==
    ASSUME TypeOK, NEW e, NEW d, Dispatch(<<e, d>>)
    PROVE  /\ e \in Events /\ d \in 0..MaxTime /\ d \in Nat /\ d + Duration \in Nat
           /\ held' \subseteq Events \X (0..MaxTime) /\ faults' \in 0..MaxFaults
BY StarvationAssumption DEF TypeOK, Dispatch

\* An event whose aggregate has moved on.
LEMMA StaleStep ==
    ASSUME IInv, NEW e, NEW d, Dispatch(<<e, d>>), Stale(e)
    PROVE  IInv'
<1>0. TypeOK
    BY DEF IInv
<1>1. /\ e \in Events
      /\ held' \subseteq Events \X (0..MaxTime) /\ faults' \in 0..MaxFaults
    BY <1>0, DispatchStep
<1>2. /\ Commit(Finished(e))
      /\ UNCHANGED <<now, food, calcAt, gross, home, guests, away, abroad, party, lastTick, owed>>
    BY DEF Stale, stored, troops, marching
<1>3. /\ Sound(Finished(e)) /\ Finished(e).pending = pending
      /\ \A w \in Works : status[w] # "none" => Finished(e).status[w] # "none"
    BY <1>0, <1>1, FinishedStep DEF IInv
<1>4. RestOK'
    BY <1>0, <1>1, <1>2 DEF TypeOK, RestOK
<1>5. NetFood' < 0 => Finished(e).pending # None
    <2>1. NetFood' = NetFood
        BY <1>2 DEF NetFood, Net
    <2> QED BY <1>3, <2>1 DEF IInv, DeficitIsWatched
<1>6. \A w \in owed' : Finished(e).status[w] # "none"
    BY <1>0, <1>2, <1>3 DEF IInv, OwedWereScheduled, TypeOK
<1>7. TypeOK' /\ OwedWereScheduled' /\ DeficitIsWatched'
    BY <1>2, <1>3, <1>4, <1>5, <1>6, CommitStep
<1>8. AwayIsMarching'
    BY <1>2, MarchingSame DEF IInv
<1> QED BY <1>7, <1>8 DEF IInv

\* An event that changes what the settlement makes, or who eats in it: either
\* the schedule is made anew for the net it leaves, or that is no worse.
LEMMA ChangingStep ==
    ASSUME IInv, NEW w \in Works, w \notin Legs, NEW d, Dispatch(<<w, d>>),
           w \in owed, owed' = owed \ {w},
           food' \in 0..Cap, calcAt' \in 0..MaxTime,
           gross' \in Int, home' \in Nat, guests' \in Nat,
           UNCHANGED <<now, away, abroad, party, lastTick>>,
           NEW p, Commit(p),
           \/ p = Finished(w) /\ NetFood' >= NetFood
           \/ p \in Ensured(NetFood', food', d, Finished(w))
    PROVE  IInv'
<1>0. TypeOK
    BY DEF IInv
<1>1. /\ w \in Events /\ d \in Nat
      /\ held' \subseteq Events \X (0..MaxTime) /\ faults' \in 0..MaxFaults
    BY <1>0, DispatchStep
<1>2. RestOK'
    BY <1>0, <1>1 DEF TypeOK, RestOK
<1>3. NetFood' \in Int /\ NetFood \in Int /\ food' \in Nat
    BY <1>0, StarvationAssumption DEF TypeOK, NetFood, Net
<1>4. /\ Sound(Finished(w)) /\ Finished(w).pending = pending
      /\ \A x \in Works : status[x] # "none" => Finished(w).status[x] # "none"
    BY <1>0, <1>1, FinishedStep DEF IInv
<1>5. /\ Sound(p)
      /\ NetFood' < 0 => p.pending # None
      /\ \A x \in Works : p.status[x] = Finished(w).status[x]
    <2>1. CASE p = Finished(w) /\ NetFood' >= NetFood
        BY <1>3, <1>4, <2>1 DEF IInv, DeficitIsWatched
    <2>2. CASE p \in Ensured(NetFood', food', d, Finished(w))
        <3> DEFINE n == NetFood'
                   f == food'
                   s == Finished(w)
        <3>1. n \in Int /\ f \in Nat /\ d \in Nat /\ Sound(s) /\ p \in Ensured(n, f, d, s)
            BY <1>1, <1>3, <1>4, <2>2
        <3> HIDE DEF n, f, s
        <3>2. Fits(n, s, p)
            BY <3>1, EnsureStep
        <3> QED BY <3>2 DEF Fits, n, s
    <2> QED BY <2>1, <2>2
<1>6. \A x \in owed' : p.status[x] # "none"
    BY <1>0, <1>4, <1>5 DEF IInv, OwedWereScheduled, TypeOK
<1>7. TypeOK' /\ OwedWereScheduled' /\ DeficitIsWatched'
    BY <1>2, <1>5, <1>6, CommitStep
<1>8. AwayIsMarching'
    BY MarchingSame DEF IInv
<1> QED BY <1>7, <1>8 DEF IInv

\* buildComplete, trainingComplete and the arrival of support.
LEMMA WorkStep ==
    ASSUME IInv, NEW w, NEW d \in 0..MaxTime,
           \/ w \in Builds /\ BuildComplete(w, d)
           \/ w \in Trainings /\ TrainingComplete(w, d)
           \/ w \in Supports /\ SupportArrive(w, d)
    PROVE  IInv'
<1>0. TypeOK
    BY DEF IInv
<1>1. Dispatch(<<w, d>>)
    BY DEF BuildComplete, TrainingComplete, SupportArrive
<1>2. CASE w \notin owed
    BY <1>1, <1>2, StaleStep DEF BuildComplete, TrainingComplete, SupportArrive
<1>3. CASE w \in owed
    <2>1. w \in Works /\ w \notin Legs
        BY StarvationAssumption DEF Works
    <2>2. /\ Settled(d).food \in 0..Cap /\ Settled(d).at \in 0..MaxTime
          /\ food \in 0..Cap /\ calcAt \in 0..MaxTime
          /\ gross \in Int /\ home \in Nat /\ guests \in Nat /\ away \in Nat
          /\ NetFood = gross - home - guests - away
        BY <1>0, SettledType DEF TypeOK, NetFood, Net
    <2>3. CASE w \in Builds /\ BuildComplete(w, d)
        <3>1. PICK p \in Ensured(NetFood + Rate[w], food, d, Finished(w)) : Commit(p)
            BY <1>3, <2>3 DEF BuildComplete
        <3>2. /\ food' = food /\ calcAt' = calcAt /\ owed' = owed \ {w}
              /\ gross' = gross + Rate[w]
              /\ UNCHANGED <<now, lastTick, home, guests, away, abroad, party>>
            BY <1>3, <2>3 DEF BuildComplete, Lands, Unsettled, troops, marching
        <3>3. Rate[w] \in Int
            BY <2>3, StarvationAssumption
        <3>4. NetFood' = NetFood + Rate[w]
            BY <2>2, <3>2, <3>3 DEF NetFood, Net
        <3>5. p \in Ensured(NetFood', food', d, Finished(w))
            BY <3>1, <3>2, <3>4
        <3> QED BY <1>1, <1>3, <2>1, <2>2, <3>1, <3>2, <3>3, <3>5, ChangingStep
    <2>4. CASE w \in Trainings /\ TrainingComplete(w, d)
        <3>1. PICK p \in Ensured(NetFood - 1, food, d, Finished(w)) : Commit(p)
            BY <1>3, <2>4 DEF TrainingComplete
        <3>2. /\ food' = food /\ calcAt' = calcAt /\ owed' = owed \ {w}
              /\ home' = home + 1
              /\ UNCHANGED <<now, lastTick, gross, guests, away, abroad, party>>
            BY <1>3, <2>4 DEF TrainingComplete, Lands, Unsettled, marching
        <3>3. NetFood' = NetFood - 1
            BY <2>2, <3>2 DEF NetFood, Net
        <3>4. p \in Ensured(NetFood', food', d, Finished(w))
            BY <3>1, <3>2, <3>3
        <3> QED BY <1>1, <1>3, <2>1, <2>2, <3>1, <3>2, <3>4, ChangingStep
    <2>5. CASE w \in Supports /\ SupportArrive(w, d)
        <3>1. PICK p \in Ensured(NetFood - 1, Settled(d).food, d, Finished(w)) : Commit(p)
            BY <1>3, <2>5 DEF SupportArrive
        <3>2. /\ food' = Settled(d).food /\ calcAt' = Settled(d).at /\ owed' = owed \ {w}
              /\ guests' = guests + 1
              /\ UNCHANGED <<now, lastTick, gross, home, away, abroad, party>>
            BY <1>3, <2>5 DEF SupportArrive, Lands, marching
        <3>3. NetFood' = NetFood - 1
            BY <2>2, <3>2 DEF NetFood, Net
        <3>4. p \in Ensured(NetFood', food', d, Finished(w))
            BY <3>1, <3>2, <3>3
        <3> QED BY <1>1, <1>3, <2>1, <2>2, <3>1, <3>2, <3>4, ChangingStep
    <2> QED BY <2>3, <2>4, <2>5
<1> QED BY <1>2, <1>3

\* An attack kills, and what it razes it also reschedules.
LEMMA AttackStep ==
    ASSUME IInv, NEW w \in Attacks, NEW d \in 0..MaxTime, AttackArrives(w, d)
    PROVE  IInv'
<1>0. TypeOK
    BY DEF IInv
<1>1. Dispatch(<<w, d>>)
    BY DEF AttackArrives
<1>2. CASE w \notin owed
    BY <1>1, <1>2, StaleStep DEF AttackArrives
<1>3. CASE w \in owed
    <2>1. w \in Works /\ w \notin Legs
        BY StarvationAssumption DEF Works
    <2>2. PICK h \in 0..home, v \in 0..guests, f \in 0..Settled(d).food :
              /\ Lands(w, [food |-> f, at |-> Settled(d).at])
              /\ home' = h /\ guests' = v /\ UNCHANGED marching
              /\ \/ gross' = gross /\ Commit(Finished(w))
                 \/ /\ gross' = gross + Rate[w]
                    /\ \E p \in Ensured(Net(gross', h, v, away), f, d, Finished(w)) : Commit(p)
        BY <1>3 DEF AttackArrives
    <2>3. /\ food' = f /\ calcAt' = Settled(d).at /\ owed' = owed \ {w}
          /\ UNCHANGED <<now, lastTick, away, abroad, party>>
        BY <2>2 DEF Lands, marching
    <2>4. /\ gross \in Int /\ home \in Nat /\ guests \in Nat /\ away \in Nat
          /\ Rate[w] \in Int /\ h \in Nat /\ v \in Nat /\ h <= home /\ v <= guests
        BY <1>0, StarvationAssumption DEF TypeOK
    <2>5. food' \in 0..Cap /\ calcAt' \in 0..MaxTime
        <3>1. Settled(d).food \in 0..Cap /\ Settled(d).at \in 0..MaxTime
            BY <1>0, SettledType
        <3> QED BY <2>3, <3>1, StarvationAssumption
    <2>6. CASE gross' = gross /\ Commit(Finished(w))
        <3>1. NetFood' >= NetFood
            BY <2>2, <2>3, <2>4, <2>6 DEF NetFood, Net
        <3> QED BY <1>1, <1>3, <2>1, <2>2, <2>3, <2>4, <2>5, <2>6, <3>1, ChangingStep
    <2>7. CASE /\ gross' = gross + Rate[w]
               /\ \E p \in Ensured(Net(gross', h, v, away), f, d, Finished(w)) : Commit(p)
        <3>1. PICK p \in Ensured(Net(gross', h, v, away), f, d, Finished(w)) : Commit(p)
            BY <2>7
        <3>2. p \in Ensured(NetFood', food', d, Finished(w))
            BY <2>2, <2>3, <3>1 DEF NetFood, Net
        <3>3. gross' \in Int
            BY <2>4, <2>7
        <3> QED BY <1>1, <1>3, <2>1, <2>2, <2>3, <2>4, <2>5, <3>1, <3>2, <3>3, ChangingStep
    <2> QED BY <2>2, <2>6, <2>7
<1> QED BY <1>2, <1>3
\* A march that arrives elsewhere: fewer are away than were, or as many.
LEMMA MarchStep ==
    ASSUME IInv, NEW w \in Marches, NEW d \in 0..MaxTime, MarchArrives(w, d)
    PROVE  IInv'
<1>0. TypeOK /\ w \in Legs /\ w \in Works
    BY DEF IInv, Legs, Works
<1>1. Dispatch(<<w, d>>)
    BY DEF MarchArrives
<1>2. CASE w \notin owed
    BY <1>1, <1>2, StaleStep DEF MarchArrives
<1>3. CASE w \in owed
    <2>1. /\ w \in Events /\ d + Duration \in Nat
          /\ held' \subseteq Events \X (0..MaxTime) /\ faults' \in 0..MaxFaults
        BY <1>0, <1>1, DispatchStep
    <2>2. /\ UNCHANGED <<now, food, calcAt, gross, home, guests, lastTick>>
          /\ \/ \E r \in Returns, n \in 1..party[w] : MarchTurnsBack(w, d, r, n)
             \/ MarchIsOver(w)
        BY <1>3 DEF MarchArrives, stored
    <2>3. party[w] \in Nat /\ party[w] <= away
        BY <1>0, <1>3, MarchIsAway DEF IInv
    <2>4. /\ Sound(Finished(w)) /\ Finished(w).pending = pending
          /\ \A x \in owed : x \in Works /\ Finished(w).status[x] # "none"
        BY <1>0, <2>1, FinishedStep DEF IInv, OwedWereScheduled, TypeOK
    <2>5. ASSUME away' \in Nat, away' <= away PROVE NetFood' >= NetFood
        <3>1. NetFood = gross - home - guests - away /\ NetFood' = gross - home - guests - away'
            BY <2>2 DEF NetFood, Net
        <3>2. gross \in Int /\ home \in Int /\ guests \in Int /\ away \in Int /\ away' \in Int
            BY <1>0, <2>5 DEF TypeOK
        <3>3. \A g, h, v, a, b \in Int : b <= a => g - h - v - b >= g - h - v - a
            OBVIOUS
        <3> QED BY <2>5, <3>1, <3>2, <3>3
    <2>6. ASSUME NEW p, p.pending = pending, away' \in Nat, away' <= away
          PROVE  NetFood' < 0 => p.pending # None
        <3>1. NetFood \in Int /\ NetFood' \in Int
            BY <1>0, <2>2, <2>6 DEF NetFood, Net, TypeOK
        <3> QED BY <2>5, <2>6, <3>1 DEF IInv, DeficitIsWatched
    <2>7. ASSUME NEW r \in Returns, NEW n \in 1..party[w], MarchTurnsBack(w, d, r, n)
          PROVE  IInv'
        <3>1. /\ status[r] = "none" /\ away' = away - (party[w] - n) /\ UNCHANGED abroad
              /\ party' = [party EXCEPT ![r] = n] /\ owed' = (owed \ {w}) \cup {r}
              /\ Commit(Scheduled(Finished(w), r, d + Duration))
            BY <2>7 DEF MarchTurnsBack
        <3>2. /\ r \in Legs /\ r \in Works /\ r \in Works \cup {None} /\ r # None
              /\ r \notin owed /\ n \in Nat
            BY <2>3, <3>1, StarvationAssumption
            DEF Legs, Works, Events, IInv, OwedWereScheduled
        <3> DEFINE p == Scheduled(Finished(w), r, d + Duration)
        <3>3. /\ Sound(p) /\ p.pending = pending /\ p.status[r] = "due"
              /\ \A x \in Works \ {r} : p.status[x] = Finished(w).status[x]
            BY <2>1, <2>4, <3>2, ScheduledStep
        <3>4. Commit(p)
            BY <3>1
        <3> HIDE DEF p
        <3>5. away' \in Nat /\ away' <= away /\ party' \in [Legs -> Nat]
            BY <1>0, <2>3, <3>1, <3>2 DEF TypeOK
        <3>6. RestOK'
            BY <1>0, <2>1, <2>2, <3>1, <3>2, <3>5 DEF TypeOK, RestOK
        <3>7. \A x \in owed' : p.status[x] # "none"
            BY <2>4, <3>1, <3>3
        <3>8. TypeOK' /\ OwedWereScheduled' /\ DeficitIsWatched'
            BY <2>6, <3>3, <3>4, <3>5, <3>6, <3>7, CommitStep
        <3>9. AwayIsMarching'
            BY <1>0, <1>3, <3>1, <3>2, MarchingTurns DEF IInv
        <3> QED BY <3>8, <3>9 DEF IInv
    <2>8. ASSUME MarchIsOver(w) PROVE IInv'
        <3>1. /\ away' = away - party[w] /\ abroad' \in {abroad, abroad + party[w]}
              /\ owed' = owed \ {w} /\ Commit(Finished(w)) /\ UNCHANGED party
            BY <2>8 DEF MarchIsOver
        <3>2. away' \in Nat /\ away' <= away /\ abroad' \in Nat
            BY <1>0, <2>3, <3>1 DEF TypeOK
        <3>3. RestOK'
            BY <1>0, <2>1, <2>2, <3>1, <3>2 DEF TypeOK, RestOK
        <3>4. \A x \in owed' : Finished(w).status[x] # "none"
            BY <2>4, <3>1
        <3>5. TypeOK' /\ OwedWereScheduled' /\ DeficitIsWatched'
            BY <2>4, <2>6, <3>1, <3>2, <3>3, <3>4, CommitStep
        <3>6. AwayIsMarching'
            <4>1. Marching[w] = party[w] /\ Marching'[w] = 0
                BY <1>0, <1>3, <3>1 DEF Marching
            <4>2. /\ party' \in [Legs -> Nat] /\ away' = away + Marching'[w] - Marching[w]
                  /\ \A v \in Legs : v # w => party'[v] = party[v] /\ (v \in owed' <=> v \in owed)
                BY <1>0, <2>3, <3>1, <4>1 DEF TypeOK
            <4> QED BY <1>0, <4>2, MarchingMoves DEF IInv
        <3> QED BY <3>5, <3>6 DEF IInv
    <2> QED BY <2>2, <2>7, <2>8
<1> QED BY <1>2, <1>3

\* Units come home; they ate on the way.
LEMMA ReturnStep ==
    ASSUME IInv, NEW r \in Returns, NEW d \in 0..MaxTime, MovementReturn(r, d)
    PROVE  IInv'
<1>0. TypeOK /\ r \in Legs /\ r \in Works
    BY DEF IInv, Legs, Works
<1>1. Dispatch(<<r, d>>)
    BY DEF MovementReturn
<1>2. CASE r \notin owed
    BY <1>1, <1>2, StaleStep DEF MovementReturn
<1>3. CASE r \in owed
    <2>1. /\ r \in Events
          /\ held' \subseteq Events \X (0..MaxTime) /\ faults' \in 0..MaxFaults
        BY <1>0, <1>1, DispatchStep
    <2>2. PICK loot \in 0..Loot :
              Lands(r, [food |-> Clip(Settled(d).food + loot), at |-> Settled(d).at])
        BY <1>3 DEF MovementReturn
    <2>3. /\ food' = Clip(Settled(d).food + loot) /\ calcAt' = Settled(d).at
          /\ owed' = owed \ {r} /\ UNCHANGED <<now, lastTick>>
        BY <2>2 DEF Lands
    <2>4. /\ home' = home + party[r] /\ away' = away - party[r] /\ Commit(Finished(r))
          /\ UNCHANGED <<gross, guests, abroad, party>>
        BY <1>3 DEF MovementReturn
    <2>5. party[r] \in Nat /\ party[r] <= away
        BY <1>0, <1>3, MarchIsAway DEF IInv
    <2>6. food' \in 0..Cap /\ calcAt' \in 0..MaxTime
        BY <1>0, <2>3, SettledType, StarvationAssumption DEF Clip
    <2>7. RestOK'
        <3>1. home' \in Nat /\ away' \in Nat
            BY <1>0, <2>4, <2>5 DEF TypeOK
        <3> QED BY <1>0, <2>1, <2>3, <2>4, <2>6, <3>1 DEF TypeOK, RestOK
    <2>8. NetFood' = NetFood
        <3>1. /\ NetFood = gross - home - guests - away
              /\ NetFood' = gross - (home + party[r]) - guests - (away - party[r])
            BY <2>4 DEF NetFood, Net
        <3>2. gross \in Int /\ home \in Int /\ guests \in Int /\ away \in Int /\ party[r] \in Int
            BY <1>0, <2>5 DEF TypeOK
        <3>3. \A g, h, v, a, b \in Int : g - (h + b) - v - (a - b) = g - h - v - a
            OBVIOUS
        <3> QED BY <3>1, <3>2, <3>3
    <2>9. /\ Sound(Finished(r)) /\ Finished(r).pending = pending
          /\ \A x \in owed : Finished(r).status[x] # "none"
        BY <1>0, <2>1, FinishedStep DEF IInv, OwedWereScheduled, TypeOK
    <2>10. TypeOK' /\ OwedWereScheduled' /\ DeficitIsWatched'
        <3>1. NetFood' < 0 => Finished(r).pending # None
            BY <2>8, <2>9 DEF IInv, DeficitIsWatched
        <3>2. \A x \in owed' : Finished(r).status[x] # "none"
            BY <2>3, <2>9
        <3> QED BY <2>4, <2>7, <2>9, <3>1, <3>2, CommitStep
    <2>11. AwayIsMarching'
        <3>1. Marching[r] = party[r] /\ Marching'[r] = 0
            BY <1>0, <1>3, <2>3 DEF Marching
        <3>2. /\ party' \in [Legs -> Nat] /\ away' = away + Marching'[r] - Marching[r]
              /\ \A v \in Legs : v # r => party'[v] = party[v] /\ (v \in owed' <=> v \in owed)
            BY <1>0, <2>3, <2>4, <2>5, <3>1 DEF TypeOK
        <3> QED BY <1>0, <3>2, MarchingMoves DEF IInv
    <2> QED BY <2>10, <2>11 DEF IInv
<1> QED BY <1>2, <1>3

\* No more die than are there, nor than the deficit takes.
LEMMA DeadType ==
    ASSUME TypeOK, NetFood < 0
    PROVE  /\ DeadGuests \in Nat /\ DeadGuests <= guests
           /\ DeadAtHome \in Nat /\ DeadAtHome <= home
<1>1. NetFood \in Int /\ home \in Nat /\ guests \in Nat
    BY DEF TypeOK, NetFood, Net
<1>2. DeadGuests \in Nat /\ DeadGuests <= guests /\ DeadGuests <= -NetFood
    BY <1>1 DEF DeadGuests, Smaller
<1>3. -NetFood - DeadGuests \in Nat
    BY <1>1, <1>2
<1> HIDE DEF DeadGuests
<1> QED BY <1>1, <1>2, <1>3 DEF DeadAtHome, Smaller

\* A tick kills what the deficit takes, and its follow-up is for what remains.
LEMMA TickStep ==
    ASSUME IInv, NEW e \in Ticks, NEW d \in 0..MaxTime, StarvationTick(e, d)
    PROVE  IInv'
<1> DEFINE starving == NetFood < 0 /\ Settled(d).food = 0
           n == IF starving THEN NetFood + DeadGuests + DeadAtHome ELSE NetFood
           next == IF starving THEN d + Hour ELSE Deadline(n, Settled(d).food, d)
           plans == IF n >= 0 THEN {Disarmed(Done(e), dueAt)} ELSE Armed(next, Done(e), dueAt)
<1>0. TypeOK
    BY DEF IInv
<1>1. Dispatch(<<e, d>>)
    BY DEF StarvationTick
<1>2. CASE lastTick >= d
    BY <1>1, <1>2, StaleStep DEF StarvationTick
<1>3. CASE ~(lastTick >= d)
    <2>1. /\ e \in Events /\ d \in Nat
          /\ held' \subseteq Events \X (0..MaxTime) /\ faults' \in 0..MaxFaults
        BY <1>0, <1>1, DispatchStep
    <2>2. PICK p \in plans : Commit(p)
        BY <1>3 DEF StarvationTick
    <2>3. /\ food' = Settled(d).food /\ calcAt' = Settled(d).at /\ lastTick' = d
          /\ guests' = IF starving THEN guests - DeadGuests ELSE guests
          /\ home' = IF starving THEN home - DeadAtHome ELSE home
          /\ UNCHANGED <<now, gross, away, abroad, party, owed>>
        BY <1>3 DEF StarvationTick, marching
    <2>4. /\ Settled(d).food \in 0..Cap /\ Settled(d).at \in 0..MaxTime
          /\ Settled(d).food \in Nat
        BY <1>0, SettledType, StarvationAssumption
    <2>5. /\ home \in Nat /\ guests \in Nat /\ gross \in Int /\ away \in Nat /\ NetFood \in Int
          /\ NetFood = gross - home - guests - away
        BY <1>0 DEF TypeOK, NetFood, Net
    <2>6. starving => /\ DeadGuests \in Nat /\ DeadGuests <= guests
                      /\ DeadAtHome \in Nat /\ DeadAtHome <= home
        BY <1>0, DeadType
    <2>7. n \in Int /\ home' \in Nat /\ guests' \in Nat /\ NetFood' = n
        <3>1. CASE starving
            <4>1. /\ home' = home - DeadAtHome /\ guests' = guests - DeadGuests
                  /\ n = NetFood + DeadGuests + DeadAtHome
                BY <2>3, <3>1
            <4>2. NetFood' = gross - home' - guests' - away
                BY <2>3 DEF NetFood, Net
            <4> HIDE DEF n, starving
            <4> QED BY <2>5, <2>6, <3>1, <4>1, <4>2
        <3>2. CASE ~starving
            <4>1. home' = home /\ guests' = guests /\ n = NetFood
                BY <2>3, <3>2
            <4>2. NetFood' = NetFood
                BY <2>3, <4>1 DEF NetFood, Net
            <4> HIDE DEF n, starving
            <4> QED BY <2>5, <4>1, <4>2
        <3> QED BY <3>1, <3>2
    <2>8. ASSUME n < 0 PROVE next \in Nat
        <3>1. Deadline(n, Settled(d).food, d) \in Nat
            BY <2>1, <2>4, <2>7, <2>8, DeadlineType
        <3>2. d + Hour \in Nat
            BY <2>1, StarvationAssumption
        <3> QED BY <3>1, <3>2
    <2>9. /\ Sound(Finished(e)) /\ Finished(e).status = Done(e)
          /\ Done(e) \in [Events -> Statuses] /\ dueAt \in [Events -> Nat]
          /\ \A x \in owed : x \in Works /\ Done(e)[x] # "none"
        <3>1. /\ Sound(Finished(e))
              /\ \A x \in Works : status[x] # "none" => Finished(e).status[x] # "none"
            BY <1>0, <2>1, FinishedStep DEF IInv
        <3>2. Finished(e).status = Done(e) /\ Finished(e).dueAt = dueAt
            BY DEF Finished, Stored
        <3> QED BY <1>0, <3>1, <3>2 DEF Sound, Plans, IInv, OwedWereScheduled, TypeOK
    <2>10. Fits(n, Finished(e), p)
        <3>1. p \in IF n >= 0 THEN {Disarmed(Done(e), dueAt)} ELSE Armed(next, Done(e), dueAt)
            OBVIOUS
        <3> HIDE DEF n, next, starving
        <3>2. CASE n >= 0
            BY <2>7, <2>9, <3>1, <3>2, DisarmStep
        <3>3. CASE n < 0
            BY <2>7, <2>8, <2>9, <3>1, <3>3, ArmStep
        <3> QED BY <2>7, <3>2, <3>3
    <2> HIDE DEF n, next, starving, plans
    <2>11. RestOK'
        BY <1>0, <2>1, <2>3, <2>4, <2>7 DEF TypeOK, RestOK
    <2>12. \A x \in owed' : p.status[x] # "none"
        BY <2>3, <2>9, <2>10 DEF Fits
    <2>13. TypeOK' /\ OwedWereScheduled' /\ DeficitIsWatched'
        BY <2>2, <2>7, <2>10, <2>11, <2>12, CommitStep DEF Fits
    <2>14. AwayIsMarching'
        BY <2>3, MarchingSame DEF IInv
    <2> QED BY <2>13, <2>14 DEF IInv
<1> QED BY <1>2, <1>3
------------------------------------------------------------------------------
\* The theorems.

\* A settlement that feeds itself, without events, notes no tick.
LEMMA InitInvariant == Init => IInv
<1> SUFFICES ASSUME Init PROVE IInv
    OBVIOUS
<1> USE StarvationAssumption
<1>1. TypeOK
    BY DEF Init, TypeOK, Never
<1>2. AwayIsMarching
    <2>1. Marching \in [Legs -> Int] /\ \A w \in Legs : Marching[w] = 0
        BY DEF Init, Marching
    <2> QED BY <2>1, TotalZero DEF Init, AwayIsMarching
<1>3. NetFood \in Int /\ NetFood >= 0
    BY DEF Init, NetFood, Net
<1>4. DeficitIsWatched /\ OwedWereScheduled
    BY <1>3 DEF Init, DeficitIsWatched, OwedWereScheduled
<1> QED BY <1>1, <1>2, <1>4 DEF IInv

LEMMA InvariantStep == IInv /\ [Next]_vars => IInv'
<1> SUFFICES ASSUME IInv, [Next]_vars PROVE IInv'
    OBVIOUS
<1>1. CASE GetSettlementState
    <2>1. \E t \in Instants : Command(t, 0, 0, None) /\ UNCHANGED party
        BY <1>1 DEF GetSettlementState
    <2>2. None \notin Legs
        BY StarvationAssumption DEF Legs, Works, Events
    <2> QED BY <2>1, <2>2, StayingStep
<1>2. CASE (\E w \in Builds : StartBuild(w)) \/ (\E w \in Trainings : TrainUnits(w))
    <2>1. PICK w \in Builds \cup Trainings : StartBuild(w) \/ TrainUnits(w)
        BY <1>2
    <2>2. \E t \in Instants : Command(t, Price, 0, w) /\ UNCHANGED party
        BY <2>1 DEF StartBuild, TrainUnits
    <2>3. w \in Works /\ w \notin Legs /\ Price \in Nat
        BY <2>1, StarvationAssumption DEF Works
    <2> QED BY <2>2, <2>3, StayingStep
<1>3. CASE UNCHANGED vars
    <2>1. UNCHANGED <<now, food, calcAt, gross, home, guests, away, abroad, party, lastTick,
                      pending, pendingDue, owed, status, dueAt, held, faults>>
        BY <1>3 DEF vars, stored, troops, marching, schedule
    <2>2. NetFood' = NetFood /\ Marching' = Marching
        BY <2>1 DEF NetFood, Net, Marching
    <2> QED BY <2>1, <2>2
            DEF IInv, TypeOK, AwayIsMarching, OwedWereScheduled, DeficitIsWatched
<1>4. CASE \E w \in Marches : SendMovement(w)
    BY <1>4, SendingStep
<1>5. CASE \E r \in Returns : RecallSupport(r) \/ SupportIsEvicted(r)
    BY <1>5, RecallStep
<1>6. CASE GuestsAreRecalled \/ EvictSupport
    BY <1>6, LeavingStep
<1>7. CASE \E w \in Supports \cup Attacks : OthersSend(w)
    BY <1>7, OthersStep
<1>8. CASE Elapse \/ (\E e \in Events : Claim(e))
    BY <1>8, OutsideStep
<1>9. ASSUME NEW d \in 0..MaxTime,
             \/ \E e \in Events : RecordFailure(e, d)
             \/ \E w \in Builds : BuildComplete(w, d)
             \/ \E w \in Trainings : TrainingComplete(w, d)
             \/ \E w \in Supports : SupportArrive(w, d)
             \/ \E w \in Attacks : AttackArrives(w, d)
             \/ \E w \in Marches : MarchArrives(w, d)
             \/ \E r \in Returns : MovementReturn(r, d)
             \/ \E e \in Ticks : StarvationTick(e, d)
      PROVE  IInv'
    <2>1. CASE \E e \in Events : RecordFailure(e, d)
        BY <2>1, OutsideStep
    <2>2. CASE \E w \in Builds : BuildComplete(w, d)
        BY <2>2, WorkStep
    <2>3. CASE \E w \in Trainings : TrainingComplete(w, d)
        BY <2>3, WorkStep
    <2>4. CASE \E w \in Supports : SupportArrive(w, d)
        BY <2>4, WorkStep
    <2>5. CASE \E w \in Attacks : AttackArrives(w, d)
        BY <2>5, AttackStep
    <2>6. CASE \E w \in Marches : MarchArrives(w, d)
        BY <2>6, MarchStep
    <2>7. CASE \E r \in Returns : MovementReturn(r, d)
        BY <2>7, ReturnStep
    <2>8. CASE \E e \in Ticks : StarvationTick(e, d)
        BY <2>8, TickStep
    <2> QED BY <1>9, <2>1, <2>2, <2>3, <2>4, <2>5, <2>6, <2>7, <2>8
<1> QED BY <1>1, <1>2, <1>3, <1>4, <1>5, <1>6, <1>7, <1>8, <1>9 DEF Next

\* The inductive invariant of one settlement's Food and its schedule
\* (settlements.service.ts and the handlers): types, who is away, the note.
THEOREM StarvationInductive == Spec => []IInv
BY InitInvariant, InvariantStep, PTL DEF Spec

\* Whoever changed upkeep or production last, whether or not it called
\* ensureStarvationSchedule, and however late or often its event was handled:
\* while net Food is negative, a tick that was not cancelled is noted.
THEOREM DeficitIsWatched_Always == Spec => []DeficitIsWatched
<1>1. IInv => DeficitIsWatched
    BY DEF IInv
<1> QED BY StarvationInductive, <1>1, PTL

\* Types, of all that the settlement and its schedule store.
THEOREM StarvationTypes == Spec => []TypeOK
<1>1. IInv => TypeOK
    BY DEF IInv
<1> QED BY StarvationInductive, <1>1, PTL

------------------------------------------------------------------------------
\* The hours of a settlement.

\* What one step may do to them.
Advances ==
    /\ calcAt' >= calcAt /\ lastTick' >= lastTick
    /\ Handled /\ owed' = owed /\ home' + guests' < home + guests => lastTick' > lastTick

\* A step that sets no stamp, and either is no event, or finishes a work, or
\* takes nobody.
LEMMA NobodyDies ==
    ASSUME TypeOK, calcAt' >= calcAt, UNCHANGED lastTick,
           ~Handled \/ owed' # owed \/ UNCHANGED <<home, guests>>
    PROVE  Advances
BY DEF TypeOK, Advances, Never

\* An event whose aggregate has moved on, or what is done outside.
LEMMA RestAdvances ==
    ASSUME TypeOK, UNCHANGED <<calcAt, home, guests, lastTick>>
    PROVE  Advances
BY NobodyDies DEF TypeOK

\* Settling goes to a later instant or nowhere, whenever the clock was read.
LEMMA CommandAdvances ==
    ASSUME TypeOK, NEW t \in Instants, calcAt' = Settled(t).at,
           UNCHANGED <<lastTick, held, faults>>
    PROVE  Advances
BY InstantStep, NobodyDies DEF Handled

\* A work settles at its due time, if at all, and is finished.
LEMMA WorkAdvances ==
    ASSUME TypeOK, NEW w \in owed, NEW d \in 0..MaxTime, w \notin owed',
           UNCHANGED lastTick, calcAt' = calcAt \/ calcAt' = Settled(d).at
    PROVE  Advances
<1>1. calcAt' >= calcAt
    BY SettledType, StarvationAssumption DEF TypeOK
<1> QED BY <1>1, NobodyDies

\* Deaths come with the stamp of a tick that is later than the last one.
LEMMA TickAdvances ==
    ASSUME TypeOK, NEW e \in Ticks, NEW d \in 0..MaxTime, StarvationTick(e, d)
    PROVE  Advances
<1>1. CASE lastTick >= d
    BY <1>1, RestAdvances DEF StarvationTick, Stale, stored, troops
<1>2. CASE ~(lastTick >= d)
    <2>1. calcAt' = Settled(d).at /\ lastTick' = d
        BY <1>2 DEF StarvationTick
    <2>2. calcAt' >= calcAt
        BY <2>1, SettledType
    <2>3. lastTick \in Int /\ d \in Int
        BY DEF TypeOK, Never
    <2> QED BY <1>2, <2>1, <2>2, <2>3 DEF Advances
<1> QED BY <1>1, <1>2

\* The handlers of works.
LEMMA HandlersAdvance ==
    ASSUME IInv, NEW w, NEW d \in 0..MaxTime,
           \/ w \in Builds /\ BuildComplete(w, d)
           \/ w \in Trainings /\ TrainingComplete(w, d)
           \/ w \in Supports /\ SupportArrive(w, d)
           \/ w \in Attacks /\ AttackArrives(w, d)
           \/ w \in Marches /\ MarchArrives(w, d)
           \/ w \in Returns /\ MovementReturn(w, d)
    PROVE  Advances
<1>0. TypeOK
    BY DEF IInv
<1>1. CASE w \notin owed
    <2>1. Stale(w)
        BY <1>1 DEF BuildComplete, TrainingComplete, SupportArrive, AttackArrives,
                    MarchArrives, MovementReturn
    <2> QED BY <1>0, <2>1, RestAdvances DEF Stale, stored, troops
<1>2. CASE w \in owed
    <2>1. ASSUME ~(w \in Marches /\ MarchArrives(w, d))
          PROVE  /\ UNCHANGED lastTick /\ w \notin owed'
                 /\ calcAt' = calcAt \/ calcAt' = Settled(d).at
        <3>1. Unsettled.at = calcAt
            BY DEF Unsettled
        <3>2. CASE BuildComplete(w, d)
            BY <1>2, <3>1, <3>2 DEF BuildComplete, Lands
        <3>3. CASE TrainingComplete(w, d)
            BY <1>2, <3>1, <3>3 DEF TrainingComplete, Lands
        <3>4. CASE SupportArrive(w, d)
            BY <1>2, <3>4 DEF SupportArrive, Lands
        <3>5. CASE AttackArrives(w, d)
            BY <1>2, <3>5 DEF AttackArrives, Lands
        <3>6. CASE MovementReturn(w, d)
            BY <1>2, <3>6 DEF MovementReturn, Lands
        <3> QED BY <2>1, <3>2, <3>3, <3>4, <3>5, <3>6
    <2>2. CASE w \in Marches /\ MarchArrives(w, d)
        <3>1. UNCHANGED <<calcAt, lastTick>>
            BY <1>2, <2>2 DEF MarchArrives, stored
        <3>2. w \notin owed'
            BY <1>2, <2>2
            DEF MarchArrives, MarchTurnsBack, MarchIsOver, IInv, OwedWereScheduled
        <3> QED BY <1>0, <1>2, <3>1, <3>2, WorkAdvances
    <2> QED BY <1>0, <1>2, <2>1, <2>2, WorkAdvances
<1> QED BY <1>1, <1>2

LEMMA HoursStep == IInv /\ [Next]_vars => [Advances]_vars
<1> SUFFICES ASSUME IInv, Next PROVE Advances
    OBVIOUS
<1>0. TypeOK
    BY DEF IInv
<1>1. CASE \/ GetSettlementState \/ GuestsAreRecalled \/ EvictSupport
           \/ \E w \in Builds : StartBuild(w)
           \/ \E w \in Trainings : TrainUnits(w)
           \/ \E w \in Marches : SendMovement(w)
           \/ \E r \in Returns : RecallSupport(r) \/ SupportIsEvicted(r)
    <2>1. \E t \in Instants : calcAt' = Settled(t).at /\ UNCHANGED <<lastTick, held, faults>>
        BY <1>1 DEF GetSettlementState, GuestsAreRecalled, EvictSupport, GuestsLeave,
                    StartBuild, TrainUnits, SendMovement, Command,
                    RecallSupport, SupportIsEvicted, SupportComesHome
    <2> QED BY <1>0, <2>1, CommandAdvances
<1>2. CASE \/ Elapse
           \/ \E w \in Supports \cup Attacks : OthersSend(w)
           \/ \E e \in Events : Claim(e)
           \/ \E d \in 0..MaxTime : \E e \in Events : RecordFailure(e, d)
    <2>1. UNCHANGED <<calcAt, home, guests, lastTick>>
        BY <1>2 DEF Elapse, OthersSend, Claim, RecordFailure, stored, troops
    <2> QED BY <1>0, <2>1, RestAdvances
<1>3. ASSUME NEW d \in 0..MaxTime,
             \/ \E w \in Builds : BuildComplete(w, d)
             \/ \E w \in Trainings : TrainingComplete(w, d)
             \/ \E w \in Supports : SupportArrive(w, d)
             \/ \E w \in Attacks : AttackArrives(w, d)
             \/ \E w \in Marches : MarchArrives(w, d)
             \/ \E r \in Returns : MovementReturn(r, d)
      PROVE  Advances
    BY <1>3, HandlersAdvance
<1>4. CASE \E d \in 0..MaxTime : \E e \in Ticks : StarvationTick(e, d)
    BY <1>0, <1>4, TickAdvances
<1> QED BY <1>1, <1>2, <1>3, <1>4 DEF Next

\* The clock a command read before it queued for the settlement, and an event
\* handled late or twice, never turn the settlement back; and nobody starves
\* twice of one hour (starvation-tick.handler.ts, its guard on
\* lastStarvationTickAt).
THEOREM HoursOnlyAdvance_Always == Spec => HoursOnlyAdvance
<1>1. [Advances]_vars =>
        [/\ calcAt' >= calcAt /\ lastTick' >= lastTick
         /\ Handled /\ owed' = owed /\ home' + guests' < home + guests
            => lastTick' > lastTick]_vars
    BY DEF Advances
<1> QED BY StarvationInductive, HoursStep, <1>1, PTL DEF Spec, HoursOnlyAdvance
==============================================================================
