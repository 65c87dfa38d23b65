---------------------------- MODULE MovementsProofs ----------------------------
(***************************************************************************)
(* What holds of the troop ledger for any number of settlements, movements *)
(* and tiles.  The two balances of Movements are sums over all settlements *)
(* or all movements.  Each action moves one or two values of a sum         *)
(* (TotalChange of SumsProofs), a battle those of one host's guests        *)
(* (GuestsFall).  The balances need each other in one place: a party's     *)
(* units are part of its origin's counter (CarriedIsAway), so the clamp of *)
(* subtractUnitCounts never bites, and nobody is lost in it.               *)
(***************************************************************************)
EXTENDS Movements, SumsProofs

\* Every march has the event that will end its leg, due or dead-lettered.
LegHasItsEvent ==
    \A m \in Movements :
        /\ status[m] = "outbound" => event[<<m, "arrive">>] \in {"due", "failed"}
        /\ status[m] = "returning" => event[<<m, "return">>] \in {"due", "failed"}

IInv == TypeOK /\ AwayTroopsMatch /\ EverybodyAccountedFor

------------------------------------------------------------------------------
\* The types.

LEMMA InitTypeOK == Init => TypeOK
BY MovementsAssumption DEF Init, TypeOK, Somewhere, Legs, MovementTypes

LEMMA LessIsNat ==
    ASSUME NEW n \in Nat, NEW k \in Nat
    PROVE  Less(n, k) \in Nat /\ (k <= n => Less(n, k) = n - k)
BY DEF Less

\* What the fates of a party do to the fields they write.
LEMMA MournedTypes ==
    ASSUME TypeOK, NEW m \in Movements, NEW k \in Nat, k <= units[m], Mourned(m, k)
    PROVE  awayTroops' \in [Settlements -> Nat]
<1>1. units[m] - k \in Nat /\ from[m] \in Settlements /\ awayTroops[from[m]] \in Nat
  BY DEF TypeOK
<1>2. Less(awayTroops[from[m]], units[m] - k) \in Nat
  BY <1>1, LessIsNat
<1>. QED
  BY <1>1, <1>2 DEF Mourned, TypeOK

LEMMA DoneTypes ==
    ASSUME TypeOK, NEW l \in Movements \X Legs
    PROVE  Done(l) \in [Movements \X Legs -> {"none", "due", "done", "deleted", "failed"}]
BY DEF Done, TypeOK

LEMMA EndsTypes ==
    ASSUME TypeOK, NEW m \in Movements, Ends(m)
    PROVE  /\ status' \in [Movements -> {"none", "outbound", "returning", "done"}]
           /\ event' \in [Movements \X Legs -> {"none", "due", "done", "deleted", "failed"}]
<1>1. <<m, "arrive">> \in Movements \X Legs
  BY DEF Legs
<1>. QED
  BY <1>1, DoneTypes DEF Ends, TypeOK

LEMMA TurnsBackTypes ==
    ASSUME TypeOK, NEW m \in Movements, NEW k \in Nat, TurnsBack(m, k)
    PROVE  /\ status' \in [Movements -> {"none", "outbound", "returning", "done"}]
           /\ survivors' \in [Movements -> Nat]
           /\ event' \in [Movements \X Legs -> {"none", "due", "done", "deleted", "failed"}]
<1>1. <<m, "arrive">> \in Movements \X Legs
  BY DEF Legs
<1>2. status' = [status EXCEPT ![m] = "returning"] /\ survivors' = [survivors EXCEPT ![m] = k]
  BY DEF TurnsBack
<1>3. event' = [Done(<<m, "arrive">>) EXCEPT ![<<m, "return">>] = "due"]
  BY DEF TurnsBack
<1>. QED
  BY <1>1, <1>2, <1>3, DoneTypes DEF TypeOK

\* A battle at h leaves kept[o] of every guest o in G, and g[o] of it fall.
Fall(S, st, st2, h, G, kept, g) ==
    /\ IsFiniteSet(S) /\ h \in S /\ G \in SUBSET S
    /\ st \in [S \X S -> Nat] /\ st2 \in [S \X S -> Nat]
    /\ kept \in [G -> Nat] /\ g \in [G -> Nat]
    /\ \A o \in G : g[o] = st[<<h, o>>] - kept[o]
    /\ \A p \in S \X S : st2[p] = IF p[1] = h /\ p[2] \in G THEN kept[p[2]] ELSE st[p]

LEMMA GuestsFall ==
    ASSUME NEW S, NEW st, NEW st2, NEW h, NEW G, NEW kept, NEW g,
           Fall(S, st, st2, h, G, kept, g)
    PROVE  /\ SumFunction(g) \in Nat
           /\ SumFunction(st) = SumFunction(st2) + SumFunction(g)
<1>. USE DEF Fall
<1>. DEFINE d == [p \in S \X S |-> IF p[1] = h /\ p[2] \in G THEN st[p] - kept[p[2]] ELSE 0]
            z == [o \in G |-> 0]
            R == {h} \X G
<1>1. IsFiniteSet(S \X S) /\ IsFiniteSet(G)
  BY FS_Product, FS_Subset
<1>3. \A p \in S \X S : p = <<p[1], p[2]>> /\ p[1] \in S /\ p[2] \in S
  OBVIOUS
<1>4. \A p \in S \X S : d[p] \in Int /\ st[p] = st2[p] + d[p]
  <2>. SUFFICES ASSUME NEW p \in S \X S
                PROVE  d[p] \in Int /\ st[p] = st2[p] + d[p]
    OBVIOUS
  <2>1. CASE p[1] = h /\ p[2] \in G
    BY <2>1, <1>3
  <2>2. CASE ~(p[1] = h /\ p[2] \in G)
    BY <2>2, <1>3
  <2>. QED
    BY <2>1, <2>2
<1>5. d \in [S \X S -> Int] /\ st \in [S \X S -> Int] /\ st2 \in [S \X S -> Int]
  BY <1>4
<1>6. SumFunction(st) = SumFunction(st2) + SumFunction(d)
  <2>. HIDE DEF d, Fall
  <2>1. AddsUp(S \X S, st2, d, st)
    BY <1>1, <1>4, <1>5 DEF AddsUp
  <2>. QED
    BY <2>1, TotalPlus
<1>7. g \in [G -> Nat] /\ g \in [G -> Int] /\ z \in [G -> Int]
  OBVIOUS
<1>8. \A o \in G : d[<<h, o>>] = g[o]
  OBVIOUS
<1>9. SumFunctionOnSet(d, S \X S) = SumFunctionOnSet(d, R)
  <2>1. R \in SUBSET (S \X S) /\ \A p \in (S \X S) \ R : d[p] = 0
    BY <1>3
  <2>2. \A p \in S \X S : d[p] \in Int
    BY <1>4
  <2>. HIDE DEF d, R, Fall
  <2>. QED
    BY <1>1, <2>1, <2>2, SumPart
<1>10. SumFunctionOnSet(d, R) = SumFunctionOnSet(g, G)
  <2>1. \A o \in G : g[o] \in Int /\ d[<<h, o>>] = g[o]
    BY <1>7, <1>8
  <2>0. h \in S
    OBVIOUS
  <2>2. R = {h} \X G
    OBVIOUS
  <2>. HIDE DEF d, R, Fall
  <2>3. ASSUME NEW a, NEW b, \A o \in G : b[o] \in Int /\ a[<<h, o>>] = b[o]
        PROVE  SumFunctionOnSet(a, R) = SumFunctionOnSet(b, G)
    BY <1>1, <2>0, <2>2, <2>3, SumRow
  <2>. QED
    BY <2>1, <2>3
<1>11. SumFunction(d) = SumFunction(g)
  <2>. HIDE DEF d, R, Fall
  <2>1. SumFunction(d) = SumFunctionOnSet(d, S \X S)
    BY <1>5, TotalIs
  <2>2. SumFunction(g) = SumFunctionOnSet(g, G)
    BY <1>7, TotalIs
  <2>. QED
    BY <1>9, <1>10, <2>1, <2>2
<1>12. SumFunction(g) \in Nat
  <2>1. SumFunction(z) = 0
    <3>. HIDE DEF z, Fall
    <3>. SUFFICES \A o \in G : z[o] = 0
      BY <1>1, <1>7, TotalZero
    <3>. QED BY DEF z
  <2>2. \A o \in G : z[o] <= g[o]
    OBVIOUS
  <2>3. SumFunction(z) <= SumFunction(g) /\ SumFunction(g) \in Int
    <3>. HIDE DEF z, Fall
    <3>. QED BY <1>1, <1>7, <2>2, TotalAtMost, TotalInt
  <2>. HIDE DEF z, Fall
  <2>. QED BY <2>1, <2>3
<1>. QED
  BY <1>6, <1>11, <1>12

\* A battle in numbers: k of the party survive, home of the host's units are
\* left, and fallen guests.
LEMMA BattleTally ==
    ASSUME TypeOK, NEW m \in Movements, BattleArrives(m)
    PROVE  \E k \in 0..units[m], home \in 0..troops[to[m]], fallen \in Nat :
             /\ Resolve(m, k)
             /\ troops' = [troops EXCEPT ![to[m]] = home]
             /\ stationed' \in [Settlements \X Settlements -> Nat]
             /\ SumFunction(stationed) = SumFunction(stationed') + fallen
             /\ dead' = dead + (units[m] - k) + (troops[to[m]] - home) + fallen
<1>. DEFINE h == to[m]
            Guests == {o \in Settlements : stationed[<<h, o>>] > 0}
            Fallen(kept) == [o \in Guests |-> stationed[<<h, o>>] - kept[o]]
<1>1. PICK k \in 0..units[m], home \in 0..troops[h],
           kept \in [Guests -> UNION {0..stationed[<<h, o>>] : o \in Guests}] :
        /\ \A o \in Guests : kept[o] <= stationed[<<h, o>>]
        /\ Resolve(m, k)
        /\ troops' = [troops EXCEPT ![h] = home]
        /\ stationed' = [p \in DOMAIN stationed |->
                           IF p[1] = h /\ p[2] \in Guests THEN kept[p[2]] ELSE stationed[p]]
        /\ dead' = dead + (units[m] - k) + (troops[h] - home) + SumFunction(Fallen(kept))
  BY DEF BattleArrives
<1>2. h \in Settlements /\ DOMAIN stationed = Settlements \X Settlements
  BY DEF TypeOK
<1>3. stationed' = [p \in Settlements \X Settlements |->
                      IF p[1] = h /\ p[2] \in Guests THEN kept[p[2]] ELSE stationed[p]]
  BY <1>1, <1>2
<1>4. ASSUME NEW o \in Guests PROVE kept[o] \in Nat
  <2>1. kept[o] \in UNION {0..stationed[<<h, q>>] : q \in Guests}
    <3>. HIDE DEF Guests
    <3>. QED BY <1>1
  <2>2. PICK q \in Guests : kept[o] \in 0..stationed[<<h, q>>]
    <3>. HIDE DEF Guests
    <3>. QED BY <2>1
  <2>. QED
    BY <2>2
<1>5. kept \in [Guests -> Nat]
  <2>. HIDE DEF Guests
  <2>. QED BY <1>1, <1>4
<1>6. \A o \in Guests : kept[o] <= stationed[<<h, o>>]
  BY <1>1
<1>7. Guests \in SUBSET Settlements
  OBVIOUS
<1>8. stationed \in [Settlements \X Settlements -> Nat]
  BY DEF TypeOK
<1>9. /\ stationed' \in [Settlements \X Settlements -> Nat]
      /\ SumFunction(Fallen(kept)) \in Nat
      /\ SumFunction(stationed) = SumFunction(stationed') + SumFunction(Fallen(kept))
  <2>. DEFINE g == Fallen(kept)
  <2>1. \A o \in Guests : stationed[<<h, o>>] - kept[o] \in Nat
    <3>. HIDE DEF Guests
    <3>. QED BY <1>2, <1>5, <1>6, <1>7, <1>8
  <2>2. g \in [Guests -> Nat] /\ \A o \in Guests : g[o] = stationed[<<h, o>>] - kept[o]
    <3>. HIDE DEF Guests
    <3>. QED BY <2>1
  <2>3. stationed' \in [Settlements \X Settlements -> Nat]
    <3>. HIDE DEF Guests
    <3>. QED BY <1>3, <1>5, <1>8
  <2>4. Fall(Settlements, stationed, stationed', h, Guests, kept, g)
    <3>. HIDE DEF g, Guests
    <3>. QED
      BY <1>2, <1>3, <1>5, <1>7, <1>8, <2>2, <2>3, MovementsAssumption DEF Fall
  <2>5. /\ SumFunction(g) \in Nat
        /\ SumFunction(stationed) = SumFunction(stationed') + SumFunction(g)
    <3>. HIDE DEF g, Guests
    <3>. QED
      BY <2>4, GuestsFall
  <2>. QED
    BY <2>3, <2>5
<1>. QED
  <2>. HIDE DEF Fallen, Guests
  <2>. QED BY <1>1, <1>9

\* The three arrivals at a settlement keep the types; each ends with Resolve,
\* Ends or TurnsBack.
LEMMA ArrivalTypes ==
    ASSUME TypeOK, NEW m \in Movements, Arrives(m)
    PROVE  TypeOK'
<1>. USE DEF TypeOK
<1>1. /\ units[m] \in Nat /\ from[m] \in Settlements /\ to[m] \in Settlements
      /\ tile[m] \in Tiles
      /\ \A k \in 0..units[m] : k \in Nat /\ k <= units[m] /\ units[m] - k \in Nat
  OBVIOUS
<1>2. ASSUME NEW k \in 0..units[m], Resolve(m, k)
      PROVE  /\ awayTroops' \in [Settlements -> Nat]
             /\ status' \in [Movements -> {"none", "outbound", "returning", "done"}]
             /\ survivors' \in [Movements -> Nat]
             /\ event' \in [Movements \X Legs -> {"none", "due", "done", "deleted", "failed"}]
  <2>1. awayTroops' \in [Settlements -> Nat]
    BY <1>1, <1>2, MournedTypes DEF Resolve
  <2>2. CASE Ends(m) /\ UNCHANGED survivors
    BY <2>1, <2>2, EndsTypes
  <2>3. CASE TurnsBack(m, k)
    BY <1>1, <2>1, <2>3, TurnsBackTypes
  <2>. QED
    BY <1>2, <2>2, <2>3 DEF Resolve
<1>3. CASE ScoutArrives(m)
  <2>1. PICK k \in 0..units[m] : Resolve(m, k) /\ dead' = dead + (units[m] - k)
    BY <1>3 DEF ScoutArrives
  <2>2. dead' \in Nat
    BY <1>1, <2>1
  <2>. QED
    BY <1>2, <1>3, <2>1, <2>2 DEF ScoutArrives, plan
<1>4. CASE BattleArrives(m)
  <2>1. PICK k \in 0..units[m], home \in 0..troops[to[m]], fallen \in Nat :
          /\ Resolve(m, k)
          /\ troops' = [troops EXCEPT ![to[m]] = home]
          /\ stationed' \in [Settlements \X Settlements -> Nat]
          /\ dead' = dead + (units[m] - k) + (troops[to[m]] - home) + fallen
    BY <1>4, BattleTally
  <2>2. troops' \in [Settlements -> Nat] /\ dead' \in Nat
    BY <1>1, <2>1
  <2>. QED
    BY <1>2, <1>4, <2>1, <2>2 DEF BattleArrives, plan
<1>5. CASE SupportArrives(m)
  <2>1. awayTroops' \in [Settlements -> Nat]
    BY <1>1, <1>5, MournedTypes DEF SupportArrives
  <2>2. /\ status' \in [Movements -> {"none", "outbound", "returning", "done"}]
        /\ event' \in [Movements \X Legs -> {"none", "due", "done", "deleted", "failed"}]
    BY <1>5, EndsTypes DEF SupportArrives
  <2>3. /\ stationed' \in [Settlements \X Settlements -> Nat]
        /\ survivors' \in [Movements -> Nat]
    BY <1>1, <1>5 DEF SupportArrives
  <2>. QED
    BY <1>5, <2>1, <2>2, <2>3 DEF SupportArrives, plan
<1>6. CASE SettlersArrive(m)
  <2>1. CASE TurnsBack(m, units[m]) /\ UNCHANGED <<awayTroops, founder, dead>>
    BY <1>1, <1>6, <2>1, TurnsBackTypes DEF SettlersArrive, plan
  <2>2. CASE /\ founder' = [founder EXCEPT ![tile[m]] = m]
             /\ dead' = dead + units[m]
             /\ Mourned(m, 0) /\ Ends(m)
             /\ UNCHANGED survivors
    <3>1. awayTroops' \in [Settlements -> Nat]
      BY <1>1, <2>2, MournedTypes
    <3>2. /\ status' \in [Movements -> {"none", "outbound", "returning", "done"}]
          /\ event' \in [Movements \X Legs -> {"none", "due", "done", "deleted", "failed"}]
      BY <2>2, EndsTypes
    <3>. QED
      BY <1>1, <1>6, <2>2, <3>1, <3>2 DEF SettlersArrive, plan
  <2>. QED
    BY <1>6, <2>1, <2>2 DEF SettlersArrive
<1>. QED
  BY <1>3, <1>4, <1>5, <1>6 DEF Arrives

LEMMA TypesKept ==
    ASSUME TypeOK, [Next]_vars
    PROVE  TypeOK'
<1>. USE DEF TypeOK
<1>1. ASSUME NEW m \in Movements, NEW s \in Settlements, NEW y \in Types, SendMovement(m, s, y)
      PROVE  TypeOK'
  <2>1. PICK n \in 1..(troops[s] + 1) :
          /\ MaySend(s, y, n)
          /\ troops' = [troops EXCEPT ![s] = @ - n]
          /\ awayTroops' = [awayTroops EXCEPT ![s] = @ + n]
          /\ units' = [units EXCEPT ![m] = n]
    BY <1>1 DEF SendMovement
  <2>2. n \in 1..troops[s] /\ troops[s] \in Nat /\ y \in MovementTypes
    BY <2>1, MovementsAssumption DEF MaySend
  <2>3. /\ troops' \in [Settlements -> Nat] /\ awayTroops' \in [Settlements -> Nat]
        /\ units' \in [Movements -> Nat]
    BY <2>1, <2>2
  <2>4. to' \in [Movements -> Settlements] /\ tile' \in [Movements -> Tiles]
    BY <1>1 DEF SendMovement
  <2>5. event' \in [Movements \X Legs -> {"none", "due", "done", "deleted", "failed"}]
    BY <1>1 DEF SendMovement
  <2>. QED
    BY <1>1, <2>2, <2>3, <2>4, <2>5 DEF SendMovement
<1>2. ASSUME NEW m \in Movements, NEW h \in Settlements, NEW o \in Settlements,
             ReturnStationedContingent(m, h, o)
      PROVE  TypeOK'
  <2>1. stationed[<<h, o>>] \in Nat
    OBVIOUS
  <2>2. /\ stationed' \in [Settlements \X Settlements -> Nat]
        /\ awayTroops' \in [Settlements -> Nat]
        /\ units' \in [Movements -> Nat] /\ survivors' \in [Movements -> Nat]
    BY <1>2, <2>1 DEF ReturnStationedContingent
  <2>3. event' \in [Movements \X Legs -> {"none", "due", "done", "deleted", "failed"}]
    BY <1>2 DEF ReturnStationedContingent
  <2>. QED
    BY <1>2, <2>2, <2>3 DEF ReturnStationedContingent, MovementTypes
<1>3. ASSUME NEW m \in Movements, CancelMovement(m)
      PROVE  TypeOK'
  BY <1>3 DEF CancelMovement, settlement, plan
<1>4. ASSUME NEW m \in Movements, MovementReturn(m)
      PROVE  TypeOK'
  <2>1. /\ from[m] \in Settlements /\ awayTroops[from[m]] \in Nat /\ survivors[m] \in Nat
        /\ <<m, "return">> \in Movements \X Legs
    BY DEF Legs
  <2>2. Less(awayTroops[from[m]], survivors[m]) \in Nat
    BY <2>1, LessIsNat
  <2>3. awayTroops' \in [Settlements -> Nat] /\ troops' \in [Settlements -> Nat]
    BY <1>4, <2>1, <2>2 DEF MovementReturn
  <2>4. event' \in [Movements \X Legs -> {"none", "due", "done", "deleted", "failed"}]
    BY <1>4, <2>1, DoneTypes DEF MovementReturn
  <2>. QED
    BY <1>4, <2>3, <2>4 DEF MovementReturn, plan
<1>5. ASSUME NEW m \in Movements, NEW leg \in Legs, StaleEvent(m, leg)
      PROVE  TypeOK'
  BY <1>5, DoneTypes DEF StaleEvent, settlement, plan
<1>6. ASSUME NEW l \in Movements \X Legs, RecordFailure(l)
      PROVE  TypeOK'
  BY <1>6 DEF RecordFailure, settlement, plan
<1>7. ASSUME NEW t \in Tiles, CreateSettlement(t)
      PROVE  TypeOK'
  BY <1>7 DEF CreateSettlement, plan
<1>8. ASSUME NEW s \in Settlements, StarvationTick(s)
      PROVE  TypeOK'
  <2>1. CASE \E o \in Settlements :
               /\ stationed[<<s, o>>] > 0
               /\ stationed' = [stationed EXCEPT ![<<s, o>>] = @ - 1]
               /\ UNCHANGED troops
               /\ dead' = dead + 1
               /\ UNCHANGED <<awayTroops, founder, status, plan, survivors, event>>
    BY <2>1 DEF plan
  <2>2. CASE /\ troops[s] > 0
             /\ troops' = [troops EXCEPT ![s] = @ - 1]
             /\ dead' = dead + 1
             /\ UNCHANGED <<awayTroops, stationed, founder, status, plan, survivors, event>>
    BY <2>2 DEF plan
  <2>. QED
    BY <1>8, <2>1, <2>2 DEF StarvationTick
<1>9. CASE UNCHANGED vars
  BY <1>9 DEF vars, settlement, plan
<1>. QED
  BY <1>1, <1>2, <1>3, <1>4, <1>5, <1>6, <1>7, <1>8, <1>9, ArrivalTypes DEF Next

\* Every field of the ledger keeps its range: no count of units goes below zero.
THEOREM MovementTypes_Always == Spec => []TypeOK
<1>1. TypeOK /\ [Next]_vars => TypeOK'
  BY TypesKept
<1>. QED
  BY InitTypeOK, <1>1, PTL DEF Spec

------------------------------------------------------------------------------
\* The balances.

LEMMA LoadsType ==
    ASSUME TypeOK, NEW s \in Settlements
    PROVE  Loads(s) \in [Movements -> Nat]
BY DEF TypeOK, Loads, Carried

\* A party's units are part of its origin's counter, which is therefore never
\* too small for what a handler takes off it.
LEMMA CarriedIsAway ==
    ASSUME TypeOK, AwayTroopsMatch, NEW m \in Movements
    PROVE  Carried(m) \in Nat /\ Carried(m) <= awayTroops[from[m]]
<1>. DEFINE s == from[m]
<1>1. s \in Settlements
  BY DEF TypeOK
<1>2. Loads(s) \in [Movements -> Nat]
  BY <1>1, LoadsType
<1>3. Loads(s)[m] = Carried(m)
  BY DEF Loads
<1>4. Loads(s)[m] <= SumFunction(Loads(s))
  BY <1>2, TotalCovers, MovementsAssumption
<1>. QED
  BY <1>1, <1>2, <1>3, <1>4 DEF AwayTroopsMatch

\* Every action concerns at most one movement.
OthersMarchOn(m) ==
    \A y \in Movements : y # m =>
        /\ status'[y] = status[y] /\ from'[y] = from[y]
        /\ units'[y] = units[y] /\ survivors'[y] = survivors[y]

\* If an action changes the counters by what it changes of m's load, they match
\* again.
LEMMA CountersFollow ==
    ASSUME TypeOK, TypeOK', AwayTroopsMatch, NEW m \in Movements, OthersMarchOn(m),
           \A s \in Settlements : awayTroops'[s] = awayTroops[s] + Loads(s)'[m] - Loads(s)[m]
    PROVE  AwayTroopsMatch'
<1>1. ASSUME NEW s \in Settlements
      PROVE  DifferAt(Movements, Loads(s), Loads(s)', m)
  <2>1. Loads(s) \in [Movements -> Nat]
    BY LoadsType
  <2>2. Loads(s)' \in [Movements -> Nat]
    BY DEF TypeOK, Loads, Carried
  <2>3. \A y \in Movements : y # m => Loads(s)'[y] = Loads(s)[y]
    BY DEF OthersMarchOn, Loads, Carried
  <2>. QED
    BY <2>1, <2>2, <2>3, MovementsAssumption DEF DifferAt
<1>2. ASSUME NEW s \in Settlements
      PROVE  awayTroops'[s] = SumFunction(Loads(s)')
  <2>1. SumFunction(Loads(s)') = SumFunction(Loads(s)) + Loads(s)'[m] - Loads(s)[m]
    BY <1>1, TotalMoves
  <2>. QED
    BY <2>1 DEF AwayTroopsMatch
<1>. QED
  BY <1>2 DEF AwayTroopsMatch

\* The three sums of the second balance.
LEMMA SumTypes ==
    ASSUME TypeOK
    PROVE  /\ SumFunction(troops) \in Int /\ SumFunction(awayTroops) \in Int
           /\ SumFunction(stationed) \in Int
<1>1. /\ troops \in [Settlements -> Int] /\ awayTroops \in [Settlements -> Int]
      /\ stationed \in [Settlements \X Settlements -> Int]
  BY DEF TypeOK
<1>2. IsFiniteSet(Settlements) /\ IsFiniteSet(Settlements \X Settlements)
  BY FS_Product, MovementsAssumption
<1>3. SumFunction(troops) \in Int
  BY <1>1, <1>2, TotalInt
<1>4. SumFunction(awayTroops) \in Int
  BY <1>1, <1>2, TotalInt
<1>5. SumFunction(stationed) \in Int
  BY <1>1, <1>2, TotalInt
<1>. QED
  BY <1>3, <1>4, <1>5

\* What one value of each ledger moves, moves its sum.
LEMMA LedgerMoves ==
    ASSUME TypeOK, TypeOK', NEW s \in Settlements
    PROVE  /\ (\A x \in Settlements : x # s => troops'[x] = troops[x])
              => SumFunction(troops') = SumFunction(troops) + troops'[s] - troops[s]
           /\ (\A x \in Settlements : x # s => awayTroops'[x] = awayTroops[x])
              => SumFunction(awayTroops')
                 = SumFunction(awayTroops) + awayTroops'[s] - awayTroops[s]
<1>1. ASSUME \A x \in Settlements : x # s => troops'[x] = troops[x]
      PROVE  SumFunction(troops') = SumFunction(troops) + troops'[s] - troops[s]
  <2>1. DifferAt(Settlements, troops, troops', s)
    BY <1>1, MovementsAssumption DEF DifferAt, TypeOK
  <2>. QED
    BY <2>1, TotalMoves
<1>2. ASSUME \A x \in Settlements : x # s => awayTroops'[x] = awayTroops[x]
      PROVE  SumFunction(awayTroops') = SumFunction(awayTroops) + awayTroops'[s] - awayTroops[s]
  <2>1. DifferAt(Settlements, awayTroops, awayTroops', s)
    BY <1>2, MovementsAssumption DEF DifferAt, TypeOK
  <2>. QED
    BY <2>1, TotalMoves
<1>. QED
  BY <1>1, <1>2

LEMMA ContingentMoves ==
    ASSUME TypeOK, TypeOK', NEW p \in Settlements \X Settlements,
           \A x \in Settlements \X Settlements : x # p => stationed'[x] = stationed[x]
    PROVE  SumFunction(stationed') = SumFunction(stationed) + stationed'[p] - stationed[p]
<1>1. IsFiniteSet(Settlements \X Settlements)
  BY FS_Product, MovementsAssumption
<1>2. DifferAt(Settlements \X Settlements, stationed, stationed', p)
  BY <1>1 DEF DifferAt, TypeOK
<1>. QED
  BY <1>2, TotalMoves

\* What the step lemmas below conclude: a step keeps both balances.
BalancesKept == AwayTroopsMatch' /\ EverybodyAccountedFor'

LEMMA SendBalances ==
    ASSUME IInv, TypeOK', NEW m \in Movements, NEW s \in Settlements, NEW y \in Types,
           SendMovement(m, s, y)
    PROVE  BalancesKept
<1>. USE DEF IInv
<1>1. PICK n \in 1..troops[s] :
        /\ troops' = [troops EXCEPT ![s] = @ - n]
        /\ awayTroops' = [awayTroops EXCEPT ![s] = @ + n]
        /\ units' = [units EXCEPT ![m] = n]
  BY DEF SendMovement, MaySend
<1>2. /\ status[m] = "none" /\ status' = [status EXCEPT ![m] = "outbound"]
      /\ from' = [from EXCEPT ![m] = s] /\ UNCHANGED <<stationed, dead, survivors>>
  BY DEF SendMovement
<1>3. n \in Nat /\ troops[s] \in Nat /\ awayTroops[s] \in Nat
  BY DEF TypeOK
<1>4. troops'[s] = troops[s] - n /\ awayTroops'[s] = awayTroops[s] + n
  BY <1>1 DEF TypeOK
<1>5. /\ \A x \in Settlements : x # s => troops'[x] = troops[x]
      /\ \A x \in Settlements : x # s => awayTroops'[x] = awayTroops[x]
  BY <1>1 DEF TypeOK
<1>6. OthersMarchOn(m)
  BY <1>1, <1>2 DEF OthersMarchOn, TypeOK
<1>7. ASSUME NEW x \in Settlements
      PROVE  awayTroops'[x] = awayTroops[x] + Loads(x)'[m] - Loads(x)[m]
  <2>1. Loads(x)[m] = 0
    BY <1>2 DEF Loads, Carried
  <2>2. Loads(x)'[m] = IF x = s THEN n ELSE 0
    BY <1>1, <1>2 DEF Loads, Carried, TypeOK
  <2>3. awayTroops[x] \in Nat
    BY DEF TypeOK
  <2>. QED
    BY <1>3, <1>4, <1>5, <2>1, <2>2, <2>3
<1>8. AwayTroopsMatch'
  BY <1>6, <1>7, CountersFollow
<1>9. EverybodyAccountedFor'
  BY <1>2, <1>3, <1>4, <1>5, LedgerMoves, SumTypes DEF EverybodyAccountedFor, TypeOK
<1>. QED
  BY <1>8, <1>9 DEF BalancesKept

\* A command or a failure that moves no unit: what is outbound turns around
\* whole.
LEMMA CancelBalances ==
    ASSUME IInv, TypeOK', NEW m \in Movements, CancelMovement(m)
    PROVE  BalancesKept
<1>. USE DEF IInv
<1>1. /\ status[m] = "outbound" /\ status' = [status EXCEPT ![m] = "returning"]
      /\ survivors' = [survivors EXCEPT ![m] = units[m]]
      /\ UNCHANGED <<troops, awayTroops, stationed, dead, from, units>>
  BY DEF CancelMovement, settlement, plan
<1>2. OthersMarchOn(m)
  BY <1>1 DEF OthersMarchOn, TypeOK
<1>3. ASSUME NEW x \in Settlements
      PROVE  awayTroops'[x] = awayTroops[x] + Loads(x)'[m] - Loads(x)[m]
  <2>1. Loads(x)'[m] = Loads(x)[m] /\ Loads(x)[m] \in Nat
    BY <1>1 DEF Loads, Carried, TypeOK
  <2>2. awayTroops[x] \in Nat
    BY DEF TypeOK
  <2>. QED
    BY <1>1, <2>1, <2>2
<1>4. AwayTroopsMatch'
  BY <1>2, <1>3, CountersFollow
<1>5. EverybodyAccountedFor'
  BY <1>1 DEF EverybodyAccountedFor
<1>. QED
  BY <1>4, <1>5 DEF BalancesKept

LEMMA ReturnContingentBalances ==
    ASSUME IInv, TypeOK', NEW m \in Movements, NEW h \in Settlements, NEW o \in Settlements,
           ReturnStationedContingent(m, h, o)
    PROVE  BalancesKept
<1>. USE DEF IInv
<1>. DEFINE n == stationed[<<h, o>>]
<1>1. /\ status[m] = "none" /\ status' = [status EXCEPT ![m] = "returning"]
      /\ stationed' = [stationed EXCEPT ![<<h, o>>] = 0]
      /\ awayTroops' = [awayTroops EXCEPT ![o] = @ + n]
      /\ from' = [from EXCEPT ![m] = o]
      /\ units' = [units EXCEPT ![m] = n] /\ survivors' = [survivors EXCEPT ![m] = n]
      /\ UNCHANGED <<troops, dead>>
  BY DEF ReturnStationedContingent
<1>2. n \in Nat /\ awayTroops[o] \in Nat
  BY DEF TypeOK
<1>3. /\ awayTroops'[o] = awayTroops[o] + n
      /\ \A x \in Settlements : x # o => awayTroops'[x] = awayTroops[x]
  BY <1>1 DEF TypeOK
<1>4. /\ <<h, o>> \in Settlements \X Settlements /\ stationed'[<<h, o>>] = 0
      /\ \A p \in Settlements \X Settlements : p # <<h, o>> => stationed'[p] = stationed[p]
  BY <1>1 DEF TypeOK
<1>5. OthersMarchOn(m)
  BY <1>1 DEF OthersMarchOn, TypeOK
<1>6. ASSUME NEW x \in Settlements
      PROVE  awayTroops'[x] = awayTroops[x] + Loads(x)'[m] - Loads(x)[m]
  <2>1. Loads(x)[m] = 0
    BY <1>1 DEF Loads, Carried
  <2>2. Loads(x)'[m] = IF x = o THEN n ELSE 0
    BY <1>1 DEF Loads, Carried, TypeOK
  <2>3. awayTroops[x] \in Nat
    BY DEF TypeOK
  <2>. QED
    BY <1>2, <1>3, <2>1, <2>2, <2>3
<1>7. AwayTroopsMatch'
  BY <1>5, <1>6, CountersFollow
<1>8. EverybodyAccountedFor'
  <2>1. SumFunction(stationed') = SumFunction(stationed) + 0 - n
    BY <1>4, ContingentMoves
  <2>2. SumFunction(awayTroops') = SumFunction(awayTroops) + n
    BY <1>2, <1>3, LedgerMoves, SumTypes
  <2>3. dead \in Nat /\ troops' = troops /\ dead' = dead
    BY <1>1 DEF TypeOK
  <2>. HIDE DEF n
  <2>. QED
    BY <1>2, <2>1, <2>2, <2>3, SumTypes DEF EverybodyAccountedFor
<1>. QED
  BY <1>7, <1>8 DEF BalancesKept

LEMMA ReturnBalances ==
    ASSUME IInv, TypeOK', NEW m \in Movements, MovementReturn(m)
    PROVE  BalancesKept
<1>. USE DEF IInv
<1>. DEFINE s == from[m]
            n == survivors[m]
<1>1. /\ status[m] = "returning" /\ status' = [status EXCEPT ![m] = "done"]
      /\ troops' = [troops EXCEPT ![s] = @ + n]
      /\ awayTroops' = [awayTroops EXCEPT ![s] = Less(@, n)]
      /\ UNCHANGED <<stationed, dead, from, units, survivors>>
  BY DEF MovementReturn, plan
<1>2. s \in Settlements /\ n \in Nat /\ troops[s] \in Nat /\ awayTroops[s] \in Nat
  BY DEF TypeOK
<1>3. Carried(m) = n
  BY <1>1 DEF Carried
<1>4. Less(awayTroops[s], n) = awayTroops[s] - n
  BY <1>2, <1>3, CarriedIsAway, LessIsNat
<1>5. /\ troops'[s] = troops[s] + n /\ awayTroops'[s] = awayTroops[s] - n
      /\ \A x \in Settlements : x # s => troops'[x] = troops[x]
      /\ \A x \in Settlements : x # s => awayTroops'[x] = awayTroops[x]
  BY <1>1, <1>2, <1>4 DEF TypeOK
<1>6. OthersMarchOn(m)
  BY <1>1 DEF OthersMarchOn, TypeOK
<1>7. ASSUME NEW x \in Settlements
      PROVE  awayTroops'[x] = awayTroops[x] + Loads(x)'[m] - Loads(x)[m]
  <2>1. Loads(x)[m] = IF x = s THEN n ELSE 0
    BY <1>3 DEF Loads
  <2>2. Loads(x)'[m] = 0
    BY <1>1 DEF Loads, Carried, TypeOK
  <2>3. awayTroops[x] \in Nat
    BY DEF TypeOK
  <2>. HIDE DEF n, s
  <2>. QED
    BY <1>2, <1>5, <2>1, <2>2, <2>3
<1>8. AwayTroopsMatch'
  BY <1>6, <1>7, CountersFollow
<1>9. EverybodyAccountedFor'
  <2>1. SumFunction(troops') = SumFunction(troops) + n
    BY <1>2, <1>5, LedgerMoves, SumTypes
  <2>2. SumFunction(awayTroops') = SumFunction(awayTroops) - n
    BY <1>2, <1>5, LedgerMoves, SumTypes
  <2>3. dead \in Nat /\ stationed' = stationed /\ dead' = dead
    BY <1>1 DEF TypeOK
  <2>. HIDE DEF n
  <2>. QED
    BY <1>2, <2>1, <2>2, <2>3, SumTypes DEF EverybodyAccountedFor
<1>. QED
  BY <1>8, <1>9 DEF BalancesKept

\* A party that arrives and k of which march on: the rest leaves the counter.
LEMMA PartyShrinks ==
    ASSUME IInv, TypeOK', NEW m \in Movements, NEW k \in 0..units[m],
           status[m] = "outbound", Mourned(m, k), UNCHANGED plan,
           OthersMarchOn(m), Carried(m)' = k
    PROVE  /\ AwayTroopsMatch'
           /\ SumFunction(awayTroops') = SumFunction(awayTroops) - (units[m] - k)
<1>. USE DEF IInv
<1>. DEFINE s == from[m]
            n == units[m]
<1>1. s \in Settlements /\ n \in Nat /\ k \in Nat /\ k <= n /\ awayTroops[s] \in Nat
  BY DEF TypeOK
<1>2. Carried(m) = n
  BY DEF Carried
<1>3. Less(awayTroops[s], n - k) = awayTroops[s] - (n - k)
  <2>1. n <= awayTroops[s]
    BY <1>2, CarriedIsAway
  <2>2. n - k \in Nat /\ n - k <= awayTroops[s]
    BY <1>1, <2>1
  <2>. QED
    BY <1>1, <2>2, LessIsNat
<1>4. /\ awayTroops'[s] = awayTroops[s] - (n - k)
      /\ \A x \in Settlements : x # s => awayTroops'[x] = awayTroops[x]
  BY <1>1, <1>3 DEF Mourned, TypeOK
<1>5. ASSUME NEW x \in Settlements
      PROVE  awayTroops'[x] = awayTroops[x] + Loads(x)'[m] - Loads(x)[m]
  <2>1. Loads(x)[m] = IF x = s THEN n ELSE 0
    BY <1>2 DEF Loads
  <2>2. Loads(x)'[m] = IF x = s THEN k ELSE 0
    BY DEF Loads, plan
  <2>3. awayTroops[x] \in Nat
    BY DEF TypeOK
  <2>. HIDE DEF n, s
  <2>. QED
    BY <1>1, <1>4, <2>1, <2>2, <2>3
<1>6. AwayTroopsMatch'
  BY <1>5, CountersFollow
<1>7. SumFunction(awayTroops') = SumFunction(awayTroops) - (n - k)
  BY <1>1, <1>4, LedgerMoves, SumTypes
<1>. QED
  BY <1>6, <1>7

LEMMA ResolveLeaves ==
    ASSUME TypeOK, NEW m \in Movements, NEW k \in 0..units[m], Resolve(m, k), UNCHANGED plan
    PROVE  OthersMarchOn(m) /\ Carried(m)' = k /\ Mourned(m, k)
<1>1. CASE k = 0 /\ Ends(m) /\ UNCHANGED survivors
  BY <1>1 DEF Resolve, Ends, OthersMarchOn, Carried, TypeOK, plan
<1>2. CASE TurnsBack(m, k)
  BY <1>2 DEF Resolve, TurnsBack, OthersMarchOn, Carried, TypeOK, plan
<1>. QED
  BY <1>1, <1>2 DEF Resolve

LEMMA ScoutBalances ==
    ASSUME IInv, TypeOK', NEW m \in Movements, ScoutArrives(m)
    PROVE  BalancesKept
<1>. USE DEF IInv
<1>1. PICK k \in 0..units[m] : Resolve(m, k) /\ dead' = dead + (units[m] - k)
  BY DEF ScoutArrives
<1>2. status[m] = "outbound" /\ UNCHANGED <<troops, stationed, founder, plan>>
  BY DEF ScoutArrives, Arriving
<1>3. OthersMarchOn(m) /\ Carried(m)' = k /\ Mourned(m, k)
  BY <1>1, <1>2, ResolveLeaves
<1>4. /\ AwayTroopsMatch'
      /\ SumFunction(awayTroops') = SumFunction(awayTroops) - (units[m] - k)
  BY <1>2, <1>3, PartyShrinks
<1>5. units[m] \in Nat /\ dead \in Nat
  BY DEF TypeOK
<1>6. EverybodyAccountedFor'
  BY <1>1, <1>2, <1>4, <1>5, SumTypes DEF EverybodyAccountedFor
<1>. QED
  BY <1>4, <1>6 DEF BalancesKept

LEMMA BattleBalances ==
    ASSUME IInv, TypeOK', NEW m \in Movements, BattleArrives(m)
    PROVE  BalancesKept
<1>. USE DEF IInv
<1>. DEFINE h == to[m]
<1>1. PICK k \in 0..units[m], home \in 0..troops[h], fallen \in Nat :
        /\ Resolve(m, k)
        /\ troops' = [troops EXCEPT ![h] = home]
        /\ SumFunction(stationed) = SumFunction(stationed') + fallen
        /\ dead' = dead + (units[m] - k) + (troops[h] - home) + fallen
  BY BattleTally
<1>2. status[m] = "outbound" /\ UNCHANGED plan
  BY DEF BattleArrives, Arriving
<1>3. OthersMarchOn(m) /\ Carried(m)' = k /\ Mourned(m, k)
  BY <1>1, <1>2, ResolveLeaves
<1>4. /\ AwayTroopsMatch'
      /\ SumFunction(awayTroops') = SumFunction(awayTroops) - (units[m] - k)
  BY <1>2, <1>3, PartyShrinks
<1>5. h \in Settlements /\ units[m] \in Nat /\ troops[h] \in Nat /\ dead \in Nat
  BY DEF TypeOK
<1>6. troops'[h] = home /\ \A x \in Settlements : x # h => troops'[x] = troops[x]
  BY <1>1, <1>5 DEF TypeOK
<1>7. SumFunction(troops') = SumFunction(troops) + home - troops[h]
  BY <1>5, <1>6, LedgerMoves
<1>8. EverybodyAccountedFor'
  <2>1. /\ SumFunction(troops) \in Int /\ SumFunction(awayTroops) \in Int
        /\ SumFunction(stationed) \in Int /\ SumFunction(stationed') \in Int
    <3>1. stationed' \in [Settlements \X Settlements -> Int]
      BY DEF TypeOK
    <3>2. IsFiniteSet(Settlements \X Settlements)
      BY FS_Product, MovementsAssumption
    <3>. QED
      BY <3>1, <3>2, SumTypes, TotalInt
  <2>. HIDE DEF h
  <2>. QED
    BY <1>1, <1>4, <1>5, <1>7, <2>1 DEF EverybodyAccountedFor
<1>. QED
  BY <1>4, <1>8 DEF BalancesKept

LEMMA SupportBalances ==
    ASSUME IInv, TypeOK', NEW m \in Movements, SupportArrives(m)
    PROVE  BalancesKept
<1>. USE DEF IInv
<1>. DEFINE p == <<to[m], from[m]>>
<1>1. /\ status[m] = "outbound" /\ Mourned(m, 0) /\ Ends(m)
      /\ stationed' = [stationed EXCEPT ![p] = @ + units[m]]
      /\ survivors' = [survivors EXCEPT ![m] = units[m]]
      /\ UNCHANGED <<troops, founder, dead, plan>>
  BY DEF SupportArrives, Arriving
<1>2. /\ p \in Settlements \X Settlements /\ units[m] \in Nat /\ stationed[p] \in Nat
      /\ 0 \in 0..units[m] /\ dead \in Nat
  BY DEF TypeOK
<1>3. OthersMarchOn(m) /\ Carried(m)' = 0
  BY <1>1 DEF Ends, OthersMarchOn, Carried, TypeOK, plan
<1>4. /\ AwayTroopsMatch'
      /\ SumFunction(awayTroops') = SumFunction(awayTroops) - (units[m] - 0)
  BY <1>1, <1>2, <1>3, PartyShrinks
<1>5. /\ stationed'[p] = stationed[p] + units[m]
      /\ \A x \in Settlements \X Settlements : x # p => stationed'[x] = stationed[x]
  BY <1>1, <1>2 DEF TypeOK
<1>6. SumFunction(stationed') = SumFunction(stationed) + stationed'[p] - stationed[p]
  BY <1>2, <1>5, ContingentMoves
<1>7. EverybodyAccountedFor'
  <2>. HIDE DEF p
  <2>. QED
    BY <1>1, <1>2, <1>4, <1>5, <1>6, SumTypes DEF EverybodyAccountedFor
<1>. QED
  BY <1>4, <1>7 DEF BalancesKept

LEMMA SettlersBalances ==
    ASSUME IInv, TypeOK', NEW m \in Movements, SettlersArrive(m)
    PROVE  BalancesKept
<1>. USE DEF IInv
<1>1. /\ status[m] = "outbound" /\ UNCHANGED <<troops, stationed, plan>>
      /\ units[m] \in Nat /\ 0 \in 0..units[m] /\ dead \in Nat
  BY DEF SettlersArrive, Arriving, TypeOK
<1>2. CASE dead' = dead + units[m] /\ Mourned(m, 0) /\ Ends(m) /\ UNCHANGED survivors
  <2>1. OthersMarchOn(m) /\ Carried(m)' = 0
    BY <1>1, <1>2 DEF Ends, OthersMarchOn, Carried, TypeOK, plan
  <2>2. /\ AwayTroopsMatch'
        /\ SumFunction(awayTroops') = SumFunction(awayTroops) - (units[m] - 0)
    BY <1>1, <1>2, <2>1, PartyShrinks
  <2>3. EverybodyAccountedFor'
    BY <1>1, <1>2, <2>2, SumTypes DEF EverybodyAccountedFor
  <2>. QED
    BY <2>2, <2>3 DEF BalancesKept
<1>3. CASE TurnsBack(m, units[m]) /\ UNCHANGED <<awayTroops, founder, dead>>
  <2>1. OthersMarchOn(m)
    BY <1>1, <1>3 DEF TurnsBack, OthersMarchOn, TypeOK, plan
  <2>2. ASSUME NEW x \in Settlements
        PROVE  awayTroops'[x] = awayTroops[x] + Loads(x)'[m] - Loads(x)[m]
    <3>1. Loads(x)'[m] = Loads(x)[m] /\ Loads(x)[m] \in Nat /\ awayTroops[x] \in Nat
      BY <1>1, <1>3 DEF TurnsBack, Loads, Carried, TypeOK, plan
    <3>. QED
      BY <1>3, <3>1
  <2>3. AwayTroopsMatch'
    BY <2>1, <2>2, CountersFollow
  <2>4. EverybodyAccountedFor'
    BY <1>1, <1>3 DEF EverybodyAccountedFor
  <2>. QED
    BY <2>3, <2>4 DEF BalancesKept
<1>. QED
  BY <1>2, <1>3 DEF SettlersArrive

LEMMA StarvationBalances ==
    ASSUME IInv, TypeOK', NEW s \in Settlements, StarvationTick(s)
    PROVE  BalancesKept
<1>. USE DEF IInv
<1>1. UNCHANGED <<awayTroops, status, plan, survivors>> /\ dead' = dead + 1 /\ dead \in Nat
  BY DEF StarvationTick, TypeOK
<1>2. AwayTroopsMatch'
  <2>1. \A x \in Settlements : Loads(x)' = Loads(x)
    BY <1>1 DEF Loads, Carried, plan
  <2>. QED
    BY <1>1, <2>1 DEF AwayTroopsMatch
<1>3. CASE /\ UNCHANGED troops
           /\ \E o \in Settlements : /\ stationed[<<s, o>>] > 0
                                     /\ stationed' = [stationed EXCEPT ![<<s, o>>] = @ - 1]
  <2>1. PICK o \in Settlements : stationed' = [stationed EXCEPT ![<<s, o>>] = @ - 1]
    BY <1>3
  <2>. DEFINE p == <<s, o>>
  <2>2. p \in Settlements \X Settlements /\ stationed[p] \in Nat
    BY DEF TypeOK
  <2>3. /\ stationed'[p] = stationed[p] - 1
        /\ \A x \in Settlements \X Settlements : x # p => stationed'[x] = stationed[x]
    BY <2>1, <2>2 DEF TypeOK
  <2>4. SumFunction(stationed') = SumFunction(stationed) + stationed'[p] - stationed[p]
    BY <2>2, <2>3, ContingentMoves
  <2>5. EverybodyAccountedFor'
    <3>. HIDE DEF p
    <3>. QED
      BY <1>1, <1>3, <2>2, <2>3, <2>4, SumTypes DEF EverybodyAccountedFor
  <2>. QED
    BY <1>2, <2>5 DEF BalancesKept
<1>4. CASE troops[s] > 0 /\ troops' = [troops EXCEPT ![s] = @ - 1] /\ UNCHANGED stationed
  <2>1. /\ troops[s] \in Nat /\ troops'[s] = troops[s] - 1
        /\ \A x \in Settlements : x # s => troops'[x] = troops[x]
    BY <1>4 DEF TypeOK
  <2>2. SumFunction(troops') = SumFunction(troops) + troops'[s] - troops[s]
    BY <2>1, LedgerMoves
  <2>3. EverybodyAccountedFor'
    BY <1>1, <1>4, <2>1, <2>2, SumTypes DEF EverybodyAccountedFor
  <2>. QED
    BY <1>2, <2>3 DEF BalancesKept
<1>. QED
  BY <1>3, <1>4 DEF StarvationTick

\* The steps that move no unit.
LEMMA QuietBalances ==
    ASSUME IInv, UNCHANGED <<troops, awayTroops, stationed, dead, status, from, units, survivors>>
    PROVE  BalancesKept
<1>1. \A x \in Settlements : Loads(x)' = Loads(x)
  BY DEF Loads, Carried
<1>2. AwayTroopsMatch'
  BY <1>1 DEF AwayTroopsMatch, IInv
<1>3. EverybodyAccountedFor'
  BY DEF EverybodyAccountedFor, IInv
<1>. QED
  BY <1>2, <1>3 DEF BalancesKept

LEMMA InitIInv == Init => IInv
<1>. SUFFICES ASSUME Init PROVE IInv
  OBVIOUS
<1>1. TypeOK
  BY InitTypeOK
<1>2. AwayTroopsMatch
  <2>1. ASSUME NEW s \in Settlements
        PROVE  SumFunction(Loads(s)) = 0
    <3>1. Loads(s) \in [Movements -> Int] /\ \A m \in Movements : Loads(s)[m] = 0
      BY DEF Init, Loads, Carried
    <3>. QED
      BY <3>1, TotalZero, MovementsAssumption
  <2>. QED
    BY <2>1 DEF Init, AwayTroopsMatch
<1>3. EverybodyAccountedFor
  <2>1. SumFunction(awayTroops) = 0
    <3>1. awayTroops \in [Settlements -> Int] /\ \A s \in Settlements : awayTroops[s] = 0
      BY DEF Init
    <3>. QED
      BY <3>1, TotalZero, MovementsAssumption
  <2>2. SumFunction(stationed) = 0
    <3>1. /\ stationed \in [Settlements \X Settlements -> Int]
          /\ \A p \in Settlements \X Settlements : stationed[p] = 0
      BY DEF Init
    <3>2. IsFiniteSet(Settlements \X Settlements)
      BY FS_Product, MovementsAssumption
    <3>. QED
      BY <3>1, <3>2, TotalZero
  <2>3. troops = Garrison /\ dead = 0 /\ SumFunction(troops) \in Int
    BY <1>1, SumTypes DEF Init
  <2>. QED
    BY <2>1, <2>2, <2>3 DEF EverybodyAccountedFor
<1>. QED
  BY <1>1, <1>2, <1>3 DEF IInv

LEMMA IInvKept ==
    ASSUME IInv, [Next]_vars
    PROVE  IInv'
<1>1. TypeOK'
  BY TypesKept DEF IInv
<1>2. ASSUME NEW m \in Movements, Arrives(m)
      PROVE  BalancesKept
  BY <1>1, <1>2, ScoutBalances, BattleBalances, SupportBalances, SettlersBalances
     DEF Arrives
<1>3. ASSUME NEW m \in Movements, NEW leg \in Legs, StaleEvent(m, leg)
      PROVE  BalancesKept
  BY <1>3, QuietBalances DEF StaleEvent, settlement, plan
<1>4. ASSUME NEW l, RecordFailure(l)
      PROVE  BalancesKept
  BY <1>4, QuietBalances DEF RecordFailure, settlement, plan
<1>5. ASSUME NEW t \in Tiles, CreateSettlement(t)
      PROVE  BalancesKept
  BY <1>5, QuietBalances DEF CreateSettlement, plan
<1>6. ASSUME UNCHANGED vars
      PROVE  BalancesKept
  BY <1>6, QuietBalances DEF vars, settlement, plan
<1>7. BalancesKept
  BY <1>1, <1>2, <1>3, <1>4, <1>5, <1>6, SendBalances, CancelBalances,
     ReturnContingentBalances, ReturnBalances, StarvationBalances DEF Next
<1>. QED
  BY <1>1, <1>7 DEF IInv, BalancesKept

\* The ledger's inductive invariant, which each balance below is a part of.
LEMMA LedgerInvariant == Spec => []IInv
<1>1. IInv /\ [Next]_vars => IInv'
  BY IInvKept
<1>. QED
  BY InitIInv, <1>1, PTL DEF Spec

\* The counter awayTroops, which sendMovement, the resolvers and the returns
\* all adjust by differences, is at all times what the movements carry.
THEOREM AwayTroopsMatch_Always == Spec => []AwayTroopsMatch
<1>1. IInv => AwayTroopsMatch
  BY DEF IInv
<1>. QED
  BY LedgerInvariant, <1>1, PTL

\* Sending, cancelling, fighting, supporting, founding, starving and returning
\* neither lose nor duplicate a unit.
THEOREM EverybodyAccountedFor_Always == Spec => []EverybodyAccountedFor
<1>1. IInv => EverybodyAccountedFor
  BY DEF IInv
<1>. QED
  BY LedgerInvariant, <1>1, PTL

\* A handler never meets the shortfall that subtractUnitCounts logs and clamps.
THEOREM NeverClamped ==
    Spec => [](\A m \in Movements : Carried(m) <= awayTroops[from[m]])
<1>1. IInv => \A m \in Movements : Carried(m) <= awayTroops[from[m]]
  BY CarriedIsAway DEF IInv
<1>. QED
  BY LedgerInvariant, <1>1, PTL

------------------------------------------------------------------------------
\* Legs and tiles.

MarchInv == TypeOK /\ LegHasItsEvent

\* A step writes m's status and events so that its leg has its event again.
StatusMoves(m, st) ==
    /\ status' = [status EXCEPT ![m] = st]
    /\ \A y \in Movements, leg \in Legs : y # m => event'[<<y, leg>>] = event[<<y, leg>>]
    /\ st = "outbound" => event'[<<m, "arrive">>] = "due"
    /\ st = "returning" => event'[<<m, "return">>] = "due"

LEMMA LegsFollow ==
    ASSUME MarchInv, NEW m \in Movements, NEW st, StatusMoves(m, st)
    PROVE  LegHasItsEvent'
BY DEF MarchInv, LegHasItsEvent, StatusMoves, TypeOK, Legs

\* No movement is stranded: on whichever leg it is, the event that ends the leg
\* is due, or dead-lettered for an operator to see.
THEOREM LegHasItsEvent_Always == Spec => []LegHasItsEvent
<1>1. Init => MarchInv
  BY InitTypeOK DEF Init, MarchInv, LegHasItsEvent
<1>2. ASSUME MarchInv, [Next]_vars
      PROVE  MarchInv'
  <2>. USE DEF MarchInv
  <2>1. TypeOK'
    BY <1>2, TypesKept
  <2>. DEFINE Fine(m) == /\ status[m] = "outbound" => event[<<m, "arrive">>] \in {"due", "failed"}
                         /\ status[m] = "returning" => event[<<m, "return">>] \in {"due", "failed"}
  <2>2. \A m \in Movements : Fine(m)
    BY <1>2 DEF LegHasItsEvent
  <2>3. ASSUME NEW m \in Movements, NEW st, StatusMoves(m, st)
        PROVE  LegHasItsEvent'
    BY <1>2, <2>3, LegsFollow
  <2>4. ASSUME NEW m \in Movements, NEW s \in Settlements, NEW y \in Types,
               SendMovement(m, s, y)
        PROVE  LegHasItsEvent'
    <3>1. StatusMoves(m, "outbound")
      BY <1>2, <2>4 DEF StatusMoves, SendMovement, TypeOK, Legs
    <3>. QED
      BY <2>3, <3>1
  <2>5. ASSUME NEW m \in Movements, NEW h \in Settlements, NEW o \in Settlements,
               ReturnStationedContingent(m, h, o)
        PROVE  LegHasItsEvent'
    <3>1. StatusMoves(m, "returning")
      BY <1>2, <2>5 DEF StatusMoves, ReturnStationedContingent, TypeOK, Legs
    <3>. QED
      BY <2>3, <3>1
  <2>6. ASSUME NEW m \in Movements, CancelMovement(m)
        PROVE  LegHasItsEvent'
    <3>1. StatusMoves(m, "returning")
      BY <1>2, <2>6 DEF StatusMoves, CancelMovement, TypeOK, Legs
    <3>. QED
      BY <2>3, <3>1
  <2>7. ASSUME NEW m \in Movements, MovementReturn(m)
        PROVE  LegHasItsEvent'
    <3>1. StatusMoves(m, "done")
      BY <1>2, <2>7 DEF StatusMoves, MovementReturn, Done, TypeOK, Legs
    <3>. QED
      BY <2>3, <3>1
  <2>8. ASSUME NEW m \in Movements, Ends(m)
        PROVE  LegHasItsEvent'
    <3>1. StatusMoves(m, "done")
      BY <1>2, <2>8 DEF StatusMoves, Ends, Done, TypeOK, Legs
    <3>. QED
      BY <2>3, <3>1
  <2>9. ASSUME NEW m \in Movements, NEW k \in Nat, TurnsBack(m, k)
        PROVE  LegHasItsEvent'
    <3>1. StatusMoves(m, "returning")
      BY <1>2, <2>9 DEF StatusMoves, TurnsBack, Done, TypeOK, Legs
    <3>. QED
      BY <2>3, <3>1
  <2>10. ASSUME NEW m \in Movements, Arrives(m)
         PROVE  LegHasItsEvent'
    <3>1. ASSUME NEW k \in 0..units[m], Resolve(m, k)
          PROVE  LegHasItsEvent'
      BY <1>2, <2>8, <2>9, <3>1 DEF Resolve, TypeOK
    <3>2. CASE ScoutArrives(m)
      BY <3>1, <3>2 DEF ScoutArrives
    <3>3. CASE BattleArrives(m)
      BY <3>1, <3>3 DEF BattleArrives
    <3>4. CASE SupportArrives(m)
      BY <2>8, <3>4 DEF SupportArrives
    <3>5. CASE SettlersArrive(m)
      BY <1>2, <2>8, <2>9, <3>5 DEF SettlersArrive, TypeOK
    <3>. QED
      BY <2>10, <3>2, <3>3, <3>4, <3>5 DEF Arrives
  <2>11. ASSUME NEW m \in Movements, NEW leg \in Legs, StaleEvent(m, leg)
         PROVE  LegHasItsEvent'
    BY <1>2, <2>11 DEF LegHasItsEvent, StaleEvent, Awaited, Done, TypeOK, Legs
  <2>12. ASSUME NEW m \in Movements, NEW leg \in Legs, RecordFailure(<<m, leg>>)
         PROVE  LegHasItsEvent'
    BY <1>2, <2>12 DEF LegHasItsEvent, RecordFailure, TypeOK, Legs
  <2>13. ASSUME UNCHANGED <<status, event>>
         PROVE  LegHasItsEvent'
    BY <1>2, <2>13 DEF LegHasItsEvent
  <2>14. ASSUME \/ \E t \in Tiles : CreateSettlement(t)
                \/ \E s \in Settlements : StarvationTick(s)
                \/ UNCHANGED vars
         PROVE  LegHasItsEvent'
    BY <2>13, <2>14 DEF CreateSettlement, StarvationTick, vars
  <2>15. LegHasItsEvent'
    BY <1>2, <2>4, <2>5, <2>6, <2>7, <2>10, <2>11, <2>12, <2>14 DEF Next
  <2>. QED
    BY <2>1, <2>15
<1>3. MarchInv => LegHasItsEvent
  BY DEF MarchInv
<1>. QED
  BY <1>1, <1>2, <1>3, PTL DEF Spec

\* Whoever races for a tile, settlers or the placement of a new account, one of
\* them founds it and nothing ever founds it again.
THEOREM TileFoundedOnce_Always == Spec => TileFoundedOnce
<1>1. ASSUME TypeOK, [Next]_vars
      PROVE  [\A t \in Tiles : founder[t] # "nobody" => founder'[t] = founder[t]]_vars
  <2>1. ASSUME NEW m \in Movements, SettlersArrive(m)
        PROVE  \A t \in Tiles : founder[t] # "nobody" => founder'[t] = founder[t]
    BY <1>1, <2>1 DEF SettlersArrive, TypeOK
  <2>2. ASSUME NEW t \in Tiles, CreateSettlement(t)
        PROVE  \A u \in Tiles : founder[u] # "nobody" => founder'[u] = founder[u]
    BY <1>1, <2>2 DEF CreateSettlement, TypeOK
  <2>3. ASSUME UNCHANGED founder
        PROVE  \A t \in Tiles : founder[t] # "nobody" => founder'[t] = founder[t]
    BY <2>3
  <2>4. ASSUME NEW m \in Movements,
               \/ \E s \in Settlements, y \in Types : SendMovement(m, s, y)
               \/ \E h, o \in Settlements : ReturnStationedContingent(m, h, o)
               \/ CancelMovement(m) \/ ScoutArrives(m) \/ BattleArrives(m)
               \/ SupportArrives(m) \/ MovementReturn(m)
               \/ \E leg \in Legs : StaleEvent(m, leg) \/ RecordFailure(<<m, leg>>)
        PROVE  UNCHANGED founder
    BY <2>4 DEF SendMovement, ReturnStationedContingent, CancelMovement, ScoutArrives,
       BattleArrives, SupportArrives, MovementReturn, StaleEvent, RecordFailure, settlement
  <2>5. ASSUME NEW s \in Settlements, StarvationTick(s)
        PROVE  UNCHANGED founder
    BY <2>5 DEF StarvationTick
  <2>6. CASE Next
    BY <2>1, <2>2, <2>3, <2>4, <2>5, <2>6 DEF Next, Arrives
  <2>. QED
    BY <1>1, <2>6
<1>. QED
  BY <1>1, MovementTypes_Always, PTL DEF Spec, TileFoundedOnce
==============================================================================
