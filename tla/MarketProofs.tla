------------------------------ MODULE MarketProofs ------------------------------
(***************************************************************************)
(* Safety of the market for any settlements, offers, exchanges, prices and *)
(* productions: types, storage never above its cap or below zero, the      *)
(* reports of a trade, the count of busy merchants, the books of the goods *)
(* in flight, and the value of what exchanges have taken and given.        *)
(***************************************************************************)
EXTENDS Market, SumsProofs

LEMMA NothingType == Nothing \in Side /\ Somewhere \in Settlements
<1>1. PICK k \in Kinds, n \in Amounts : TRUE
  BY MarketAssumption
<1>2. [kind |-> k, amount |-> n] \in Side
  BY DEF Side
<1>. QED
  BY <1>2, MarketAssumption DEF Nothing, Somewhere

LEMMA SideType ==
    ASSUME NEW side \in Side
    PROVE  side.kind \in Kinds /\ side.amount \in Nat \ {0}
BY MarketAssumption DEF Side

LEMMA BundleType ==
    ASSUME NEW side, side.amount \in Nat
    PROVE  Bundle(side) \in [Kinds -> Nat]
BY DEF Bundle

LEMMA CapType ==
    ASSUME NEW s \in Settlements
    PROVE  Cap[s] \in Nat /\ Capacity[s] \in Nat \ {0} /\ Owner[s] \in Accounts
BY MarketAssumption

\* A load takes a natural number of merchants.
LEMMA NeededType ==
    ASSUME NEW s \in Settlements, NEW n \in Nat
    PROVE  Needed(s, n) \in Nat
<1>1. PICK c \in Nat \ {0} : Capacity[s] = c
  BY CapType
<1>2. (n + c - 1) \in Nat
  BY <1>1
<1>3. \A m \in Nat : m \div c \in Nat
  BY <1>1
<1>. QED
  BY <1>1, <1>2, <1>3 DEF Needed

LEMMA OutputType ==
    ASSUME NEW from \in Kinds, NEW to \in Kinds, NEW n \in Nat
    PROVE  Output(from, to, n) \in Nat
<1>1. PICK w \in Nat \ {0}, v \in Nat \ {0}, p \in 0..99 :
        Weight[from] = w /\ Weight[to] = v /\ SpreadPercent = p
  BY MarketAssumption
<1>2. n * w \in Nat
  BY <1>1
<1>3. \A a, b \in Nat : a * b \in Nat
  OBVIOUS
<1>4. (n * w) * (100 - p) \in Nat
  BY <1>1, <1>2, <1>3
<1>5. 100 * v \in Nat \ {0}
  BY <1>1
<1>6. \A a \in Nat, b \in Nat \ {0} : a \div b \in Nat
  OBVIOUS
<1>. QED
  BY <1>1, <1>4, <1>5, <1>6 DEF Output

LEMMA SettledType ==
    ASSUME Stocked, NEW s \in Settlements, NEW g \in Gains
    PROVE  /\ Settled(s, g) \in [Kinds -> Nat]
           /\ \A k \in Kinds : Settled(s, g)[k] <= Cap[s]
           /\ Grown(s, g) \in [Kinds -> Int]
<1>1. g \in [Kinds -> Int]
  BY MarketAssumption
<1>2. \A k \in Kinds : Settled(s, g)[k] \in Nat /\ Settled(s, g)[k] <= Cap[s]
  BY <1>1, CapType DEF Settled, AtMost, Stocked
<1>3. Settled(s, g) \in [Kinds -> Nat]
  BY <1>2 DEF Settled
<1>4. \A k \in Kinds : Settled(s, g)[k] - stock[s][k] \in Int
  BY <1>2 DEF Stocked
<1>. QED
  BY <1>2, <1>3, <1>4 DEF Grown, Minus

\* What a settlement pays it has, and what stays is within its cap.
LEMMA LeftType ==
    ASSUME Stocked, NEW s \in Settlements, NEW g \in Gains, NEW side \in Side,
           Affords(s, g, side)
    PROVE  /\ Left(s, g, side) \in [Kinds -> Nat]
           /\ \A k \in Kinds : Left(s, g, side)[k] <= Cap[s]
<1>1. \A k \in Kinds : Settled(s, g)[k] \in Nat /\ Settled(s, g)[k] <= Cap[s]
  BY SettledType
<1>2. side.kind \in Kinds /\ side.amount \in Nat
  BY SideType
<1>3. Settled(s, g)[side.kind] >= side.amount
  BY DEF Affords
<1>4. \A k \in Kinds : Left(s, g, side)[k]
          = Settled(s, g)[k] - (IF k = side.kind THEN side.amount ELSE 0)
  BY DEF Left, Minus, Bundle
<1>5. \A k \in Kinds : Left(s, g, side)[k] \in Nat /\ Left(s, g, side)[k] <= Cap[s]
  BY <1>1, <1>2, <1>3, <1>4, CapType
<1>. QED
  BY <1>5 DEF Left, Minus

LEMMA PlusType ==
    ASSUME NEW a \in [Kinds -> Int], NEW b \in [Kinds -> Int]
    PROVE  Plus(a, b) \in [Kinds -> Int] /\ Minus(a, b) \in [Kinds -> Int]
BY DEF Plus, Minus

LEMMA PayStocked ==
    ASSUME Stocked, NEW s \in Settlements, NEW g \in Gains, NEW side \in Side,
           Pay(s, g, side)
    PROVE  Stocked'
<1>1. /\ Left(s, g, side) \in [Kinds -> Nat]
      /\ \A k \in Kinds : Left(s, g, side)[k] <= Cap[s]
  BY LeftType DEF Pay
<1>2. Plus(ledger, Grown(s, g)) \in [Kinds -> Int]
  BY SettledType, PlusType DEF Stocked
<1>. QED
  BY <1>1, <1>2 DEF Stocked, Pay

\* A credit stays within the cap, whatever it brings.
LEMMA CreditStocked ==
    ASSUME Stocked, NEW s \in Settlements, NEW g \in Gains,
           NEW b \in [Kinds -> Nat], Credit(s, g, b)
    PROVE  Stocked'
<1>. DEFINE after == Clamped(s, Plus(Settled(s, g), b))
<1>1. \A k \in Kinds : Settled(s, g)[k] \in Nat
  BY SettledType
<1>2. \A k \in Kinds : after[k] \in Nat /\ after[k] <= Cap[s]
  BY <1>1, CapType DEF Clamped, Plus, AtMost
<1>3. after \in [Kinds -> Nat]
  BY <1>2 DEF Clamped
<1>4. stock[s] \in [Kinds -> Int] /\ b \in [Kinds -> Int] /\ after \in [Kinds -> Int]
      /\ ledger \in [Kinds -> Int]
  BY <1>3 DEF Stocked
<1>5. Plus(ledger, Minus(after, Plus(stock[s], b))) \in [Kinds -> Int]
  BY <1>4, PlusType
<1>6. /\ stock' = [stock EXCEPT ![s] = after]
      /\ ledger' = Plus(ledger, Minus(after, Plus(stock[s], b)))
  BY DEF Credit
<1>. HIDE DEF after
<1>. QED
  BY <1>2, <1>3, <1>5, <1>6 DEF Stocked

LEMMA OfferType ==
    ASSUME Papers, NEW o \in Offers
    PROVE  /\ offer[o].home \in Settlements /\ offer[o].taker \in Settlements
           /\ offer[o].give \in Side /\ offer[o].want \in Side
BY DEF Papers, TradeOffer

LEMMA LegType ==
    ASSUME Papers, NEW l \in Legs
    PROVE  /\ l[1] \in Offers /\ l[2] \in Sides /\ l = <<l[1], l[2]>>
           /\ Sender(l) \in Settlements /\ Receiver(l) \in Settlements
           /\ Load(l) \in Side /\ Bundle(Load(l)) \in [Kinds -> Nat]
           /\ Merchants(l) \in Nat
<1>1. l[1] \in Offers /\ l[2] \in Sides /\ l = <<l[1], l[2]>>
  BY DEF Legs
<1>2. Sender(l) \in Settlements /\ Receiver(l) \in Settlements
  BY <1>1, OfferType DEF Sender, Receiver
<1>3. Load(l) \in Side
  <2>1. CASE l[2] = "give"
    BY <1>1, <2>1, OfferType DEF Load
  <2>2. CASE l[2] = "want"
    BY <1>1, <2>2, OfferType DEF Load
  <2>. QED
    BY <1>1, <2>1, <2>2 DEF Sides
<1>4. Load(l).amount \in Nat
  BY <1>3, SideType
<1>. QED
  BY <1>1, <1>2, <1>3, <1>4, BundleType, NeededType DEF Merchants

LEMMA ExchangeType ==
    ASSUME Papers, NEW x \in Exchanges
    PROVE  /\ exchange[x].home \in Settlements
           /\ exchange[x].from.amount \in Nat
           /\ Bundle(Bought(x)) \in [Kinds -> Nat]
<1>1. /\ exchange[x].home \in Settlements /\ exchange[x].to \in Kinds
      /\ exchange[x].from \in Side
  BY DEF Papers, MarketExchange
<1>2. exchange[x].from.kind \in Kinds /\ exchange[x].from.amount \in Nat
  BY <1>1, SideType
<1>3. Bought(x).amount \in Nat
  BY <1>1, <1>2, OutputType DEF Bought
<1>. QED
  BY <1>1, <1>2, <1>3, BundleType

LEMMA BackType ==
    ASSUME busy \in [Settlements -> Nat], NEW s \in Settlements, NEW n \in Nat, Back(s, n)
    PROVE  busy' \in [Settlements -> Nat]
BY DEF Back

LEMMA EventTypes ==
    ASSUME NEW f \in [Events -> EventStatus], NEW e
    PROVE  /\ Schedule(f, e) \in [Events -> EventStatus]
           /\ Delete(f, e) \in [Events -> EventStatus]
           /\ Done(f, e) \in [Events -> EventStatus]
BY DEF Schedule, Delete, Done, EventStatus

LEMMA TellType ==
    ASSUME Papers, NEW a \in Accounts, NEW o \in Offers, NEW what \in {"delivered", "freed"},
           Tell(a, o, what)
    PROVE  /\ docs' \in [Accounts \X Offers -> Nat]
           /\ told' \in [Accounts \X Offers -> SUBSET {"delivered", "freed"}]
BY DEF Tell, Papers

LEMMA InitType == Init => TypeOK
<1>. SUFFICES ASSUME Init PROVE Stocked /\ Papers
  BY DEF TypeOK
<1>1. stock \in [Settlements -> [Kinds -> Nat]]
      /\ \A s \in Settlements, k \in Kinds : stock[s][k] <= Cap[s]
  BY MarketAssumption DEF Init
<1>2. ledger \in [Kinds -> Int]
  BY DEF Init, Zero
<1>3. /\ busy \in [Settlements -> Nat] /\ level \in [Settlements -> 0..MaxLevel]
  BY MarketAssumption DEF Init
<1>4. offer \in [Offers -> TradeOffer] /\ exchange \in [Exchanges -> MarketExchange]
  BY NothingType, SideType DEF Init, TradeOffer, MarketExchange
<1>. QED
  BY <1>1, <1>2, <1>3, <1>4 DEF Init, Stocked, Papers, EventStatus

\* One lemma per action.
LEMMA CreateOfferType ==
    ASSUME TypeOK, NEW o \in Offers, NEW s \in Settlements, CreateOffer(o, s)
    PROVE  TypeOK'
<1>1. PICK give \in Side, want \in Side, g \in Gains :
        /\ Pay(s, g, give)
        /\ offer' = [offer EXCEPT ![o] = [status |-> "open", home |-> s, taker |-> s,
                                          give |-> give, want |-> want]]
  BY DEF CreateOffer
<1>2. Stocked'
  BY <1>1, PayStocked DEF TypeOK
<1>3. event' \in [Events -> EventStatus]
  BY EventTypes DEF CreateOffer, Papers, TypeOK
<1>4. offer' \in [Offers -> TradeOffer]
  <2>1. [status |-> "open", home |-> s, taker |-> s, give |-> give, want |-> want]
          \in TradeOffer
    BY DEF TradeOffer
  <2>. QED
    BY <1>1, <2>1 DEF TypeOK, Papers
<1>5. Papers'
  BY <1>3, <1>4 DEF CreateOffer, Papers, TypeOK
<1>. QED
  BY <1>2, <1>5 DEF TypeOK

LEMMA RefundType ==
    ASSUME TypeOK, NEW o \in Offers, NEW g \in Gains, NEW status \in {"cancelled", "expired"},
           Refund(o, g, status),
           event' \in [Events -> EventStatus]
    PROVE  TypeOK'
<1>1. Stocked /\ Papers
  BY DEF TypeOK
<1>2. offer[o].home \in Settlements /\ Bundle(offer[o].give) \in [Kinds -> Nat]
  BY <1>1, OfferType, SideType, BundleType
<1>3. Stocked'
  BY <1>1, <1>2, CreditStocked DEF Refund
<1>4. offer' \in [Offers -> TradeOffer]
  <2>1. offer' = [offer EXCEPT ![o] = [offer[o] EXCEPT !.status = status]]
    BY DEF Refund
  <2>2. [offer[o] EXCEPT !.status = status] \in TradeOffer
    BY <1>1 DEF Papers, TradeOffer
  <2>. QED
    BY <1>1, <2>1, <2>2 DEF Papers
<1>5. Papers'
  BY <1>1, <1>4 DEF Refund, Papers
<1>. QED
  BY <1>3, <1>5 DEF TypeOK

LEMMA AcceptOfferType ==
    ASSUME TypeOK, NEW o \in Offers, NEW s \in Settlements, AcceptOffer(o, s)
    PROVE  TypeOK'
<1>. DEFINE home == offer[o].home
            give == offer[o].give
            want == offer[o].want
<1>1. Stocked /\ Papers
  BY DEF TypeOK
<1>2. home \in Settlements /\ give \in Side /\ want \in Side
  BY <1>1, OfferType
<1>3. PICK g \in Gains, h \in Gains :
        /\ Affords(s, g, want)
        /\ stock' = [stock EXCEPT ![s] = Left(s, g, want), ![home] = Settled(home, h)]
        /\ ledger' = Plus(ledger, Plus(Grown(s, g), Grown(home, h)))
  BY DEF AcceptOffer
<1>4. ledger' \in [Kinds -> Int]
  <2>1. Grown(s, g) \in [Kinds -> Int] /\ Grown(home, h) \in [Kinds -> Int]
    BY <1>1, <1>2, SettledType
  <2>2. Plus(Grown(s, g), Grown(home, h)) \in [Kinds -> Int]
    BY <2>1, PlusType
  <2>. QED
    BY <1>1, <1>3, <2>2, PlusType DEF Stocked
<1>5. Stocked'
  <2>1. /\ Left(s, g, want) \in [Kinds -> Nat] /\ Settled(home, h) \in [Kinds -> Nat]
        /\ \A k \in Kinds : Left(s, g, want)[k] <= Cap[s] /\ Settled(home, h)[k] <= Cap[home]
    BY <1>1, <1>2, <1>3, LeftType, SettledType
  <2>. QED
    BY <1>1, <1>2, <1>3, <1>4, <2>1 DEF Stocked
<1>6. busy' \in [Settlements -> Nat]
  <2>1. PICK m \in Nat, n \in Nat :
          m = Needed(s, want.amount) /\ n = Needed(home, give.amount)
    BY <1>2, SideType, NeededType
  <2>2. busy' = [busy EXCEPT ![s] = @ + m, ![home] = @ + n]
    BY <2>1 DEF AcceptOffer
  <2>. QED
    BY <1>1, <1>2, <2>2 DEF Papers
<1>7. event' \in [Events -> EventStatus]
  <2>1. Delete(event, <<"expire", o>>) \in [Events -> EventStatus]
    BY <1>1, EventTypes DEF Papers
  <2>. QED
    BY <2>1 DEF AcceptOffer, EventStatus
<1>8. /\ leg' \in [Legs -> {"none", "outbound", "returning", "done"}]
      /\ loaded' \in [Legs -> BOOLEAN]
  BY <1>1 DEF AcceptOffer, Papers
<1>9. offer' \in [Offers -> TradeOffer]
  <2>. DEFINE doc == [offer[o] EXCEPT !.status = "accepted", !.taker = s]
  <2>1. offer' = [offer EXCEPT ![o] = doc]
    BY <1>1 DEF AcceptOffer, Papers, TradeOffer
  <2>2. doc \in TradeOffer
    BY <1>1 DEF Papers, TradeOffer
  <2>. HIDE DEF doc
  <2>. QED
    BY <1>1, <2>1, <2>2 DEF Papers
<1>10. Papers'
  BY <1>1, <1>6, <1>7, <1>8, <1>9 DEF AcceptOffer, Papers
<1>. QED
  BY <1>5, <1>10 DEF TypeOK

LEMMA CancelLegType ==
    ASSUME TypeOK, NEW l \in Legs, CancelLeg(l)
    PROVE  TypeOK'
<1>1. Stocked /\ Papers
  BY DEF TypeOK
<1>2. event' \in [Events -> EventStatus]
  BY <1>1, EventTypes DEF CancelLeg, Papers
<1>3. Stocked' /\ Papers'
  BY <1>1, <1>2 DEF CancelLeg, Stocked, Papers
<1>. QED
  BY <1>3 DEF TypeOK

LEMMA StartExchangeType ==
    ASSUME TypeOK, NEW x \in Exchanges, NEW s \in Settlements, StartExchange(x, s)
    PROVE  TypeOK'
<1>1. Stocked /\ Papers
  BY DEF TypeOK
<1>2. PICK from \in Side, to \in Kinds, g \in Gains :
        /\ Pay(s, g, from)
        /\ busy' = [busy EXCEPT ![s] = @ + Needed(s, from.amount)]
        /\ exchange' = [exchange EXCEPT ![x] = [status |-> "pending", home |-> s,
                                                from |-> from, to |-> to]]
  BY DEF StartExchange
<1>3. Needed(s, from.amount) \in Nat
  BY SideType, NeededType
<1>4. event' \in [Events -> EventStatus]
  BY <1>1, EventTypes DEF StartExchange, Papers
<1>5. exchange' \in [Exchanges -> MarketExchange]
  <2>1. [status |-> "pending", home |-> s, from |-> from, to |-> to] \in MarketExchange
    BY DEF MarketExchange
  <2>. QED
    BY <1>1, <1>2, <2>1 DEF Papers
<1>6. busy' \in [Settlements -> Nat]
  BY <1>1, <1>2, <1>3 DEF Papers
<1>7. Papers'
  BY <1>1, <1>4, <1>5, <1>6 DEF StartExchange, Papers
<1>8. Stocked'
  BY <1>1, <1>2, PayStocked
<1>. QED
  BY <1>7, <1>8 DEF TypeOK

LEMMA ArriveType ==
    ASSUME TypeOK, NEW l \in Legs, Arrive(l)
    PROVE  TypeOK'
<1>1. Stocked /\ Papers
  BY DEF TypeOK
<1>2. Stocked'
  BY <1>1, LegType, CreditStocked DEF Arrive
<1>3. /\ docs' \in [Accounts \X Offers -> Nat]
      /\ told' \in [Accounts \X Offers -> SUBSET {"delivered", "freed"}]
  BY <1>1, LegType, CapType, TellType DEF Arrive
<1>4. event' \in [Events -> EventStatus]
  BY <1>1, EventTypes DEF Arrive, Papers
<1>5. Papers'
  BY <1>1, <1>3, <1>4 DEF Arrive, Papers
<1>. QED
  BY <1>2, <1>5 DEF TypeOK

LEMMA ReturnType ==
    ASSUME TypeOK, NEW l \in Legs, Return(l)
    PROVE  TypeOK'
<1>1. Stocked /\ Papers
  BY DEF TypeOK
<1>. DEFINE kept == IF loaded[l] THEN Bundle(Load(l)) ELSE Zero
<1>2. kept \in [Kinds -> Nat]
  BY <1>1, LegType DEF Zero
<1>3. PICK g \in Gains : Credit(Sender(l), g, kept)
  BY DEF Return
<1>. HIDE DEF kept
<1>4. Stocked'
  BY <1>1, <1>2, <1>3, LegType, CreditStocked
<1>5. /\ docs' \in [Accounts \X Offers -> Nat]
      /\ told' \in [Accounts \X Offers -> SUBSET {"delivered", "freed"}]
  BY <1>1, LegType, CapType, TellType DEF Return
<1>6. event' \in [Events -> EventStatus]
  BY <1>1, EventTypes DEF Return, Papers
<1>7. busy' \in [Settlements -> Nat]
  BY <1>1, LegType, BackType DEF Return, Papers
<1>8. Papers'
  BY <1>1, <1>5, <1>6, <1>7 DEF Return, Papers
<1>. QED
  BY <1>4, <1>8 DEF TypeOK

LEMMA CompleteExchangeType ==
    ASSUME TypeOK, NEW x \in Exchanges, CompleteExchange(x)
    PROVE  TypeOK'
<1>1. Stocked /\ Papers
  BY DEF TypeOK
<1>2. Stocked'
  BY <1>1, ExchangeType, CreditStocked DEF CompleteExchange
<1>3. busy' \in [Settlements -> Nat]
  BY <1>1, ExchangeType, NeededType, BackType DEF CompleteExchange, Papers
<1>4. event' \in [Events -> EventStatus]
  BY <1>1, EventTypes DEF CompleteExchange, Papers
<1>5. exchange' \in [Exchanges -> MarketExchange]
  <2>1. exchange' = [exchange EXCEPT ![x] = [exchange[x] EXCEPT !.status = "completed"]]
    BY DEF CompleteExchange
  <2>2. [exchange[x] EXCEPT !.status = "completed"] \in MarketExchange
    BY <1>1 DEF Papers, MarketExchange
  <2>. QED
    BY <1>1, <2>1, <2>2 DEF Papers
<1>6. Papers'
  BY <1>1, <1>3, <1>4, <1>5 DEF CompleteExchange, Papers
<1>. QED
  BY <1>2, <1>6 DEF TypeOK

LEMMA TypeStep == TypeOK /\ [Next]_vars => TypeOK'
<1>. SUFFICES ASSUME TypeOK, [Next]_vars PROVE TypeOK'
  OBVIOUS
<1>1. Stocked /\ Papers
  BY DEF TypeOK
<1>2. ASSUME NEW o \in Offers, CancelOffer(o) \/ Expire(o) PROVE TypeOK'
  <2>1. event' \in [Events -> EventStatus]
    BY <1>1, <1>2, EventTypes DEF CancelOffer, Expire, Papers
  <2>. QED
    BY <1>2, <2>1, RefundType DEF CancelOffer, Expire
<1>3. ASSUME NEW s \in Settlements, MarketLevelChanges(s) PROVE TypeOK'
  <2>1. level' \in [Settlements -> 0..MaxLevel]
    BY <1>1, <1>3, MarketAssumption DEF MarketLevelChanges, Papers
  <2>. QED
    BY <1>1, <1>3, <2>1 DEF MarketLevelChanges, Stocked, Papers, TypeOK
<1>4. ASSUME NEW e \in Events, StaleEvent(e) \/ RecordFailure(e) PROVE TypeOK'
  <2>1. event' \in [Events -> EventStatus]
    <3>1. CASE StaleEvent(e)
      BY <1>1, <3>1, EventTypes DEF StaleEvent, Papers
    <3>2. CASE RecordFailure(e)
      BY <1>1, <3>2 DEF RecordFailure, Papers, EventStatus
    <3>. QED
      BY <1>4, <3>1, <3>2
  <2>2. /\ UNCHANGED <<stock, level, busy, offer, leg, loaded, exchange, docs, told, ledger>>
    BY <1>4 DEF StaleEvent, RecordFailure
  <2>. QED
    BY <1>1, <2>1, <2>2 DEF Stocked, Papers, TypeOK
<1>5. CASE UNCHANGED vars
  BY <1>1, <1>5 DEF vars, Stocked, Papers, TypeOK
<1>. QED
  BY <1>2, <1>3, <1>4, <1>5, CreateOfferType, AcceptOfferType, CancelLegType,
     StartExchangeType, ArriveType, ReturnType, CompleteExchangeType DEF Next

\* Whatever is traded, storage never exceeds its cap or falls below zero, and
\* merchants are never counted below none.
THEOREM MarketTypeCorrect == Spec => []TypeOK
  BY InitType, TypeStep, PTL DEF Spec

------------------------------------------------------------------------------
\* What the documents of one trade say of each other: an offer not accepted has
\* no legs and no reports, an accepted one has two parties of different
\* accounts, its legs have set out, and cargo is set until it is delivered.
Consistent(o) ==
    /\ offer[o].status = "accepted" =>
         /\ Owner[offer[o].taker] # Owner[offer[o].home]
         /\ \A d \in Sides : /\ leg[<<o, d>>] # "none"
                             /\ leg[<<o, d>>] = "outbound" => loaded[<<o, d>>]
    /\ offer[o].status # "accepted" =>
         /\ \A d \in Sides : leg[<<o, d>>] = "none"
         /\ \A a \in Accounts : told[<<a, o>>] = {}
    /\ \A a \in Accounts : docs[<<a, o>>] = IF told[<<a, o>>] = {} THEN 0 ELSE 1

Reported(l) ==
    offer[l[1]].status = "accepted" =>
        /\ leg[l] = "done" <=> "freed" \in told[<<Owner[Sender(l)], l[1]>>]
        /\ ~loaded[l] <=> "delivered" \in told[<<Owner[Receiver(l)], l[1]>>]

RInv ==
    /\ TypeOK
    /\ \A o \in Offers : Consistent(o)
    /\ \A l \in Legs : Reported(l)

LEMMA ReportedImplies == RInv => TradeReported
<1>. SUFFICES ASSUME RInv, NEW l \in Legs
              PROVE  /\ leg[l] = "done" => docs[<<Owner[Sender(l)], l[1]>>] = 1
                     /\ Reported(l)
  BY DEF TradeReported, Reported
<1>1. Reported(l) /\ Consistent(l[1]) /\ Papers
  BY LegType DEF RInv, TypeOK
<1>2. l[1] \in Offers /\ l[2] \in Sides /\ l = <<l[1], l[2]>>
      /\ Owner[Sender(l)] \in Accounts
  BY <1>1, LegType, CapType
<1>3. leg[l] = "done" => offer[l[1]].status = "accepted"
  BY <1>1, <1>2 DEF Consistent
<1>. QED
  BY <1>1, <1>2, <1>3 DEF Consistent, Reported

\* A step that leaves a trade's own documents alone keeps what they say.
LEMMA Untouched ==
    ASSUME RInv, NEW o \in Offers, TypeOK',
           (offer[o].status = "accepted" \/ offer'[o].status = "accepted")
               => offer'[o] = offer[o],
           \A d \in Sides : leg'[<<o, d>>] = leg[<<o, d>>] /\ loaded'[<<o, d>>] = loaded[<<o, d>>],
           \A a \in Accounts : docs'[<<a, o>>] = docs[<<a, o>>] /\ told'[<<a, o>>] = told[<<a, o>>]
    PROVE  Consistent(o)' /\ \A d \in Sides : Reported(<<o, d>>)'
<1>1. Consistent(o) /\ \A d \in Sides : Reported(<<o, d>>)
  BY DEF RInv, Legs
<1>2. Consistent(o)'
  BY <1>1 DEF Consistent
<1>3. ASSUME NEW d \in Sides, offer'[o].status = "accepted" PROVE Reported(<<o, d>>)'
  <2>1. offer'[o] = offer[o] /\ Sender(<<o, d>>)' = Sender(<<o, d>>)
        /\ Receiver(<<o, d>>)' = Receiver(<<o, d>>)
    BY <1>3 DEF Sender, Receiver
  <2>2. Papers /\ <<o, d>> \in Legs
    BY DEF RInv, TypeOK, Legs
  <2>3. Owner[Sender(<<o, d>>)] \in Accounts /\ Owner[Receiver(<<o, d>>)] \in Accounts
    BY <2>2, LegType, CapType
  <2>. QED
    BY <1>1, <1>3, <2>1, <2>3 DEF Reported
<1>4. ASSUME NEW d \in Sides, offer'[o].status # "accepted" PROVE Reported(<<o, d>>)'
  BY <1>4 DEF Reported
<1>. QED
  BY <1>2, <1>3, <1>4

\* It is enough to look at the offers one by one.
LEMMA ByOffer ==
    ASSUME TypeOK', \A o \in Offers : Consistent(o)' /\ \A d \in Sides : Reported(<<o, d>>)'
    PROVE  RInv'
<1>1. \A l \in Legs : l = <<l[1], l[2]>> /\ l[1] \in Offers /\ l[2] \in Sides
  BY DEF Legs
<1>2. ASSUME NEW l \in Legs PROVE Reported(l)'
  BY <1>1, <1>2
<1>. QED
  BY <1>2 DEF RInv

LEMMA AcceptOfferReports ==
    ASSUME RInv, TypeOK', NEW o \in Offers, NEW s \in Settlements, AcceptOffer(o, s)
    PROVE  RInv'
<1>1. Papers /\ Papers' /\ Consistent(o)
  BY DEF RInv, TypeOK
<1>2. /\ offer'[o].status = "accepted" /\ offer'[o].taker = s
      /\ offer'[o].home = offer[o].home
      /\ \A q \in Offers : q # o => offer'[q] = offer[q]
  BY <1>1 DEF AcceptOffer, Papers, TradeOffer
<1>3. \A q \in Offers, d \in Sides :
        /\ leg'[<<q, d>>] = IF q = o THEN "outbound" ELSE leg[<<q, d>>]
        /\ loaded'[<<q, d>>] = (q = o \/ loaded[<<q, d>>])
  BY DEF AcceptOffer, Legs
<1>4. docs' = docs /\ told' = told /\ offer[o].status = "open"
      /\ Owner[s] # Owner[offer[o].home]
  BY DEF AcceptOffer
<1>5. Consistent(o)'
  BY <1>1, <1>2, <1>3, <1>4 DEF Consistent
<1>6. ASSUME NEW d \in Sides PROVE Reported(<<o, d>>)'
  <2>1. <<o, d>> \in Legs
    BY DEF Legs
  <2>2. Owner[Sender(<<o, d>>)'] \in Accounts /\ Owner[Receiver(<<o, d>>)'] \in Accounts
    BY <1>2, <1>1, OfferType, CapType DEF Sender, Receiver
  <2>3. /\ told'[<<Owner[Sender(<<o, d>>)'], o>>] = {}
        /\ told'[<<Owner[Receiver(<<o, d>>)'], o>>] = {}
    BY <1>1, <1>4, <2>2 DEF Consistent
  <2>. QED
    BY <1>3, <2>3 DEF Reported
<1>7. ASSUME NEW q \in Offers, q # o
      PROVE  Consistent(q)' /\ \A d \in Sides : Reported(<<q, d>>)'
  <2>1. \A d \in Sides : leg'[<<q, d>>] = leg[<<q, d>>] /\ loaded'[<<q, d>>] = loaded[<<q, d>>]
    BY <1>1, <1>3, <1>7 DEF Papers, Legs
  <2>. QED
    BY <1>2, <1>4, <1>7, <2>1, Untouched
<1>. QED
  BY <1>5, <1>6, <1>7, ByOffer

\* The two legs of an accepted trade, and who they tell.
LEMMA Parties ==
    ASSUME RInv, NEW o \in Offers, offer[o].status = "accepted", NEW d \in Sides
    PROVE  /\ <<o, d>> \in Legs
           /\ Owner[Sender(<<o, d>>)] \in Accounts /\ Owner[Receiver(<<o, d>>)] \in Accounts
           /\ Owner[Sender(<<o, d>>)] # Owner[Receiver(<<o, d>>)]
           /\ \A c \in Sides : c # d => /\ Sender(<<o, c>>) = Receiver(<<o, d>>)
                                        /\ Receiver(<<o, c>>) = Sender(<<o, d>>)
<1>1. <<o, d>> \in Legs /\ Papers /\ Consistent(o)
  BY DEF Legs, RInv, TypeOK
<1>2. Sender(<<o, d>>) \in Settlements /\ Receiver(<<o, d>>) \in Settlements
  BY <1>1, LegType
<1>3. Owner[Sender(<<o, d>>)] # Owner[Receiver(<<o, d>>)]
  BY <1>1 DEF Consistent, Sender, Receiver
<1>4. \A c \in Sides : c # d => /\ Sender(<<o, c>>) = Receiver(<<o, d>>)
                                /\ Receiver(<<o, c>>) = Sender(<<o, d>>)
  BY DEF Sides, Sender, Receiver
<1>. QED
  BY <1>1, <1>2, <1>3, <1>4, CapType

LEMMA ArriveReports ==
    ASSUME RInv, TypeOK', NEW o \in Offers, NEW d \in Sides, Arrive(<<o, d>>)
    PROVE  RInv'
<1>. DEFINE l == <<o, d>>
            who == Owner[Receiver(l)]
<1>1. Papers /\ Consistent(o) /\ l \in Legs /\ Reported(l)
  BY DEF RInv, TypeOK, Legs
<1>2. leg[l] = "outbound" /\ offer' = offer
  BY DEF Arrive
<1>3. offer[o].status = "accepted" /\ loaded[l]
  BY <1>1, <1>2 DEF Consistent
<1>4. /\ leg' = [leg EXCEPT ![l] = "returning"]
      /\ loaded' = [loaded EXCEPT ![l] = FALSE]
      /\ docs' = [docs EXCEPT ![<<who, o>>] = IF @ = 0 THEN 1 ELSE @]
      /\ told' = [told EXCEPT ![<<who, o>>] = @ \cup {"delivered"}]
  BY DEF Arrive, Tell
<1>5. \A q \in Offers, c \in Sides :
        /\ leg'[<<q, c>>] = IF q = o /\ c = d THEN "returning" ELSE leg[<<q, c>>]
        /\ loaded'[<<q, c>>] = IF q = o /\ c = d THEN FALSE ELSE loaded[<<q, c>>]
  BY <1>1, <1>4 DEF Papers, Legs
<1>6. \A q \in Offers, a \in Accounts :
        /\ docs'[<<a, q>>] = IF a = who /\ q = o /\ docs[<<a, q>>] = 0 THEN 1
                             ELSE docs[<<a, q>>]
        /\ told'[<<a, q>>] = IF a = who /\ q = o THEN told[<<a, q>>] \cup {"delivered"}
                             ELSE told[<<a, q>>]
  BY <1>1, <1>4 DEF Papers
<1>. HIDE DEF who
<1>7. Consistent(o)'
  <2>1. \A a \in Accounts : docs'[<<a, o>>] = IF told'[<<a, o>>] = {} THEN 0 ELSE 1
    BY <1>1, <1>6 DEF Consistent
  <2>2. \A c \in Sides : /\ leg'[<<o, c>>] # "none"
                         /\ leg'[<<o, c>>] = "outbound" => loaded'[<<o, c>>]
    BY <1>1, <1>2, <1>3, <1>5 DEF Consistent
  <2>. QED
    BY <1>1, <1>2, <1>3, <2>1, <2>2 DEF Consistent
<1>8. ASSUME NEW c \in Sides PROVE Reported(<<o, c>>)'
  <2>. DEFINE m == <<o, c>>
             said == Owner[Sender(m)]
             heard == Owner[Receiver(m)]
  <2>1. Sender(m)' = Sender(m) /\ Receiver(m)' = Receiver(m)
    BY <1>2 DEF Sender, Receiver
  <2>2. Reported(m)
    BY DEF RInv, Legs
  <2>3. said \in Accounts /\ heard \in Accounts /\ said # heard
    BY <1>3, Parties
  <2>4. who = IF c = d THEN heard ELSE said
    BY <1>3, Parties DEF who
  <2>5. /\ "freed" \in told'[<<said, o>>] <=> "freed" \in told[<<said, o>>]
        /\ "delivered" \in told'[<<heard, o>>] <=> (c = d \/ "delivered" \in told[<<heard, o>>])
    <3>. HIDE DEF said, heard
    <3>1. /\ told'[<<said, o>>] = IF said = who THEN told[<<said, o>>] \cup {"delivered"}
                                  ELSE told[<<said, o>>]
          /\ told'[<<heard, o>>] = IF heard = who THEN told[<<heard, o>>] \cup {"delivered"}
                                   ELSE told[<<heard, o>>]
      BY <1>6, <2>3
    <3>. QED
      BY <2>3, <2>4, <3>1
  <2>6. /\ leg[m] = "done" <=> "freed" \in told[<<said, o>>]
        /\ ~loaded[m] <=> "delivered" \in told[<<heard, o>>]
    BY <1>3, <2>2 DEF Reported
  <2>7. /\ leg'[m] = "done" <=> "freed" \in told'[<<said, o>>]
        /\ ~loaded'[m] <=> "delivered" \in told'[<<heard, o>>]
    BY <1>2, <1>3, <1>5, <2>5, <2>6
  <2>. QED
    BY <2>1, <2>7 DEF Reported
<1>9. ASSUME NEW q \in Offers, q # o
      PROVE  Consistent(q)' /\ \A c \in Sides : Reported(<<q, c>>)'
  BY <1>2, <1>5, <1>6, <1>9, Untouched
<1>. QED
  BY <1>7, <1>8, <1>9, ByOffer

LEMMA ReturnReports ==
    ASSUME RInv, TypeOK', NEW o \in Offers, NEW d \in Sides, Return(<<o, d>>)
    PROVE  RInv'
<1>. DEFINE l == <<o, d>>
            who == Owner[Sender(l)]
<1>1. Papers /\ Consistent(o) /\ l \in Legs /\ Reported(l)
  BY DEF RInv, TypeOK, Legs
<1>2. leg[l] = "returning" /\ offer' = offer
  BY DEF Return
<1>3. offer[o].status = "accepted"
  BY <1>1, <1>2 DEF Consistent
<1>4. /\ leg' = [leg EXCEPT ![l] = "done"] /\ loaded' = loaded
      /\ docs' = [docs EXCEPT ![<<who, o>>] = IF @ = 0 THEN 1 ELSE @]
      /\ told' = [told EXCEPT ![<<who, o>>] = @ \cup {"freed"}]
  BY DEF Return, Tell
<1>5. \A q \in Offers, c \in Sides :
        leg'[<<q, c>>] = IF q = o /\ c = d THEN "done" ELSE leg[<<q, c>>]
  BY <1>1, <1>4 DEF Papers, Legs
<1>6. \A q \in Offers, a \in Accounts :
        /\ docs'[<<a, q>>] = IF a = who /\ q = o /\ docs[<<a, q>>] = 0 THEN 1
                             ELSE docs[<<a, q>>]
        /\ told'[<<a, q>>] = IF a = who /\ q = o THEN told[<<a, q>>] \cup {"freed"}
                             ELSE told[<<a, q>>]
  BY <1>1, <1>4 DEF Papers
<1>. HIDE DEF who
<1>7. Consistent(o)'
  <2>1. \A a \in Accounts : docs'[<<a, o>>] = IF told'[<<a, o>>] = {} THEN 0 ELSE 1
    BY <1>1, <1>6 DEF Consistent
  <2>2. \A c \in Sides : /\ leg'[<<o, c>>] # "none"
                         /\ leg'[<<o, c>>] = "outbound" => loaded'[<<o, c>>]
    BY <1>1, <1>2, <1>3, <1>4, <1>5 DEF Consistent
  <2>. QED
    BY <1>1, <1>2, <1>3, <2>1, <2>2 DEF Consistent
<1>8. ASSUME NEW c \in Sides PROVE Reported(<<o, c>>)'
  <2>. DEFINE m == <<o, c>>
             said == Owner[Sender(m)]
             heard == Owner[Receiver(m)]
  <2>1. Sender(m)' = Sender(m) /\ Receiver(m)' = Receiver(m)
    BY <1>2 DEF Sender, Receiver
  <2>2. Reported(m)
    BY DEF RInv, Legs
  <2>3. said \in Accounts /\ heard \in Accounts /\ said # heard
    BY <1>3, Parties
  <2>4. who = IF c = d THEN said ELSE heard
    BY <1>3, Parties DEF who
  <2>5. /\ "freed" \in told'[<<said, o>>] <=> (c = d \/ "freed" \in told[<<said, o>>])
        /\ "delivered" \in told'[<<heard, o>>] <=> "delivered" \in told[<<heard, o>>]
    <3>. HIDE DEF said, heard
    <3>1. /\ told'[<<said, o>>] = IF said = who THEN told[<<said, o>>] \cup {"freed"}
                                  ELSE told[<<said, o>>]
          /\ told'[<<heard, o>>] = IF heard = who THEN told[<<heard, o>>] \cup {"freed"}
                                   ELSE told[<<heard, o>>]
      BY <1>6, <2>3
    <3>. QED
      BY <2>3, <2>4, <3>1
  <2>6. /\ leg[m] = "done" <=> "freed" \in told[<<said, o>>]
        /\ ~loaded[m] <=> "delivered" \in told[<<heard, o>>]
    BY <1>3, <2>2 DEF Reported
  <2>7. /\ leg'[m] = "done" <=> "freed" \in told'[<<said, o>>]
        /\ ~loaded'[m] <=> "delivered" \in told'[<<heard, o>>]
    BY <1>2, <1>3, <1>4, <1>5, <2>5, <2>6
  <2>. QED
    BY <2>1, <2>7 DEF Reported
<1>9. ASSUME NEW q \in Offers, q # o
      PROVE  Consistent(q)' /\ \A c \in Sides : Reported(<<q, c>>)'
  BY <1>2, <1>4, <1>5, <1>6, <1>9, Untouched
<1>. QED
  BY <1>7, <1>8, <1>9, ByOffer

LEMMA CancelLegReports ==
    ASSUME RInv, TypeOK', NEW o \in Offers, NEW d \in Sides, CancelLeg(<<o, d>>)
    PROVE  RInv'
<1>1. Papers /\ <<o, d>> \in Legs
  BY DEF RInv, TypeOK, Legs
<1>2. /\ leg[<<o, d>>] = "outbound"
      /\ offer' = offer /\ loaded' = loaded /\ docs' = docs /\ told' = told
  BY DEF CancelLeg
<1>3. \A q \in Offers, c \in Sides :
        leg'[<<q, c>>] = IF q = o /\ c = d THEN "returning" ELSE leg[<<q, c>>]
  BY <1>1 DEF CancelLeg, Papers, Legs
<1>4. ASSUME NEW q \in Offers PROVE Consistent(q)'
  <2>1. Consistent(q)
    BY DEF RInv
  <2>. QED
    BY <1>2, <1>3, <2>1 DEF Consistent
<1>5. ASSUME NEW q \in Offers, NEW c \in Sides PROVE Reported(<<q, c>>)'
  <2>1. Reported(<<q, c>>)
    BY DEF RInv, Legs
  <2>2. /\ Sender(<<q, c>>)' = Sender(<<q, c>>) /\ Receiver(<<q, c>>)' = Receiver(<<q, c>>)
    BY <1>2 DEF Sender, Receiver
  <2>. QED
    BY <1>2, <1>3, <2>1, <2>2 DEF Reported
<1>. QED
  BY <1>4, <1>5, ByOffer

LEMMA ReportsStep == RInv /\ [Next]_vars => RInv'
<1>. SUFFICES ASSUME RInv, [Next]_vars PROVE RInv'
  OBVIOUS
<1>1. TypeOK' /\ Papers
  BY TypeStep DEF RInv, TypeOK
<1>2. \A l \in Legs : \E o \in Offers, d \in Sides : l = <<o, d>>
  BY DEF Legs
<1>3. ASSUME UNCHANGED <<leg, loaded, docs, told>>,
             \A o \in Offers : (offer[o].status = "accepted" \/ offer'[o].status = "accepted")
                                   => offer'[o] = offer[o]
      PROVE  RInv'
  BY <1>1, <1>3, Untouched, ByOffer
<1>4. ASSUME NEW o \in Offers, NEW s \in Settlements, CreateOffer(o, s) PROVE RInv'
  <2>1. PICK status \in {"open"}, doc \in TradeOffer :
          /\ offer' = [offer EXCEPT ![o] = doc] /\ doc.status = status
    <3>1. \A give, want \in Side : [status |-> "open", home |-> s, taker |-> s,
                                    give |-> give, want |-> want] \in TradeOffer
      BY DEF TradeOffer
    <3>. QED
      BY <1>4, <3>1 DEF CreateOffer
  <2>. QED
    BY <1>1, <1>3, <1>4, <2>1 DEF CreateOffer, Papers
<1>5. ASSUME NEW o \in Offers, CancelOffer(o) \/ Expire(o) PROVE RInv'
  <2>1. PICK g \in Gains, status \in {"cancelled", "expired"} : Refund(o, g, status)
    BY <1>5 DEF CancelOffer, Expire
  <2>2. offer[o].status = "open"
    BY <1>5 DEF CancelOffer, Expire
  <2>. QED
    BY <1>1, <1>3, <2>1, <2>2 DEF Refund, Papers, TradeOffer
<1>6. ASSUME NEW x \in Exchanges, (\E s \in Settlements : StartExchange(x, s))
                                  \/ CompleteExchange(x)
      PROVE  RInv'
  BY <1>3, <1>6 DEF StartExchange, CompleteExchange
<1>7. ASSUME \/ \E s \in Settlements : MarketLevelChanges(s)
             \/ \E e \in Events : StaleEvent(e) \/ RecordFailure(e)
             \/ UNCHANGED vars
      PROVE  RInv'
  BY <1>3, <1>7 DEF MarketLevelChanges, StaleEvent, RecordFailure, vars
<1>. QED
  BY <1>1, <1>2, <1>4, <1>5, <1>6, <1>7, AcceptOfferReports, ArriveReports,
     ReturnReports, CancelLegReports DEF Next

LEMMA InitReports == Init => RInv
<1>. SUFFICES ASSUME Init PROVE RInv
  OBVIOUS
<1>1. TypeOK
  BY InitType
<1>2. \A o \in Offers : Consistent(o)
  BY DEF Init, Consistent, Legs
<1>3. \A l \in Legs : Reported(l)
  BY DEF Init, Reported, Legs
<1>. QED
  BY <1>1, <1>2, <1>3 DEF RInv

\* Each party of a trade has one report, which tells its own side of it.
THEOREM TradesReported == Spec => []TradeReported
  BY InitReports, ReportsStep, ReportedImplies, PTL DEF Spec

------------------------------------------------------------------------------
\* Merchants.

\* The parts of the trade invariant that the ledgers need.
TInv ==
    /\ TypeOK
    /\ \A o \in Offers : Consistent(o)

LEMMA RInvTInv == RInv => TInv
BY DEF RInv, TInv

LEMMA LegsFinite == IsFiniteSet(Legs)
<1>1. Sides = {"give"} \cup {"want"}
  BY DEF Sides
<1>2. IsFiniteSet(Sides)
  BY <1>1, FS_Singleton, FS_Union
<1>. QED
  BY <1>2, FS_Product, MarketAssumption DEF Legs

\* The columns of the books are functions into numbers.
Columns ==
    TypeOK =>
      /\ \A s \in Settlements :
           Hauling(s) \in [Legs -> Nat] /\ Trading(s) \in [Exchanges -> Nat]
      /\ \A k \in Kinds :
           /\ Stored(k) \in [Settlements -> Nat] /\ Posted(k) \in [Offers -> Nat]
           /\ OnTheRoad(k) \in [Legs -> Nat] /\ Ordered(k) \in [Exchanges -> Nat]
           /\ Exchanged(k) \in [Exchanges -> Int]

LEMMA ColumnTypes == Columns
<1>. SUFFICES ASSUME Stocked, Papers
              PROVE  /\ \A s \in Settlements :
                          Hauling(s) \in [Legs -> Nat] /\ Trading(s) \in [Exchanges -> Nat]
                     /\ \A k \in Kinds :
                          /\ Stored(k) \in [Settlements -> Nat] /\ Posted(k) \in [Offers -> Nat]
                          /\ OnTheRoad(k) \in [Legs -> Nat] /\ Ordered(k) \in [Exchanges -> Nat]
                          /\ Exchanged(k) \in [Exchanges -> Int]
  BY DEF Columns, TypeOK
<1>1. ASSUME NEW s \in Settlements
      PROVE  Hauling(s) \in [Legs -> Nat] /\ Trading(s) \in [Exchanges -> Nat]
  <2>1. \A l \in Legs : Merchants(l) \in Nat
    BY LegType
  <2>2. \A x \in Exchanges : Needed(s, exchange[x].from.amount) \in Nat
    BY ExchangeType, NeededType
  <2>. QED
    BY <2>1, <2>2 DEF Hauling, Trading
<1>2. ASSUME NEW k \in Kinds
      PROVE  /\ Stored(k) \in [Settlements -> Nat] /\ Posted(k) \in [Offers -> Nat]
             /\ OnTheRoad(k) \in [Legs -> Nat] /\ Ordered(k) \in [Exchanges -> Nat]
             /\ Exchanged(k) \in [Exchanges -> Int]
  <2>1. \A o \in Offers : Bundle(offer[o].give)[k] \in Nat
    BY OfferType, SideType, BundleType
  <2>2. \A l \in Legs : Bundle(Load(l))[k] \in Nat
    BY LegType
  <2>3. \A x \in Exchanges : Bundle(Bought(x))[k] \in Nat /\ Bundle(exchange[x].from)[k] \in Nat
    BY ExchangeType, BundleType
  <2>4. Stored(k) \in [Settlements -> Nat]
    BY DEF Stored, Stocked
  <2>. QED
    BY <2>1, <2>2, <2>3, <2>4 DEF Posted, OnTheRoad, Ordered, Exchanged
<1>. QED
  BY <1>1, <1>2

LEMMA ColumnTypesNext == Columns'
BY ColumnTypes, PTL

LEMMA MerchantTypes ==
    ASSUME TypeOK, TypeOK', NEW s \in Settlements
    PROVE  /\ Hauling(s) \in [Legs -> Nat] /\ Trading(s) \in [Exchanges -> Nat]
           /\ Hauling(s)' \in [Legs -> Nat] /\ Trading(s)' \in [Exchanges -> Nat]
BY ColumnTypes, ColumnTypesNext DEF Columns

\* The counter of s follows what one leg and one exchange occupy.
LEMMA MerchantsFollow ==
    ASSUME TypeOK, TypeOK', MerchantsAccounted,
           \A s \in Settlements :
             /\ SumFunction(Hauling(s)') - SumFunction(Hauling(s))
                + SumFunction(Trading(s)') - SumFunction(Trading(s))
                = busy'[s] - busy[s]
    PROVE  MerchantsAccounted'
<1>1. ASSUME NEW s \in Settlements
      PROVE  busy'[s] = SumFunction(Hauling(s)') + SumFunction(Trading(s)')
  <2>1. /\ Hauling(s) \in [Legs -> Int] /\ Trading(s) \in [Exchanges -> Int]
        /\ Hauling(s)' \in [Legs -> Int] /\ Trading(s)' \in [Exchanges -> Int]
    BY MerchantTypes
  <2>2. /\ SumFunction(Hauling(s)) \in Int /\ SumFunction(Hauling(s)') \in Int
        /\ SumFunction(Trading(s)) \in Int /\ SumFunction(Trading(s)') \in Int
    BY <2>1, LegsFinite, TotalInt, MarketAssumption
  <2>3. busy[s] = SumFunction(Hauling(s)) + SumFunction(Trading(s))
    BY DEF MerchantsAccounted
  <2>4. busy'[s] \in Int /\ busy[s] \in Int
    BY DEF TypeOK, Papers
  <2>5. SumFunction(Hauling(s)') - SumFunction(Hauling(s))
        + SumFunction(Trading(s)') - SumFunction(Trading(s)) = busy'[s] - busy[s]
    OBVIOUS
  <2>. DEFINE a == SumFunction(Hauling(s))
              b == SumFunction(Hauling(s)')
              c == SumFunction(Trading(s))
              d == SumFunction(Trading(s)')
  <2>6. a \in Int /\ b \in Int /\ c \in Int /\ d \in Int /\ busy[s] = a + c
        /\ b - a + d - c = busy'[s] - busy[s]
    BY <2>2, <2>3, <2>5
  <2>. HIDE DEF a, b, c, d
  <2>7. busy'[s] = b + d
    BY <2>4, <2>6
  <2>. QED
    BY <2>7 DEF b, d
<1>. QED
  BY <1>1 DEF MerchantsAccounted

\* Steps that neither send nor free merchants.
LEMMA QuietMerchants ==
    ASSUME TypeOK, TypeOK', MerchantsAccounted, UNCHANGED <<busy, exchange>>,
           \A l \in Legs : /\ InTransit(l)' <=> InTransit(l)
                           /\ InTransit(l) => /\ Sender(l)' = Sender(l)
                                              /\ Merchants(l)' = Merchants(l)
    PROVE  MerchantsAccounted'
<1>1. ASSUME NEW s \in Settlements
      PROVE  Hauling(s)' = Hauling(s) /\ Trading(s)' = Trading(s)
  BY DEF Hauling, Trading
<1>2. \A s \in Settlements : busy'[s] = busy[s]
  OBVIOUS
<1>. QED
  BY <1>1, <1>2 DEF MerchantsAccounted

\* Merchants on the road or at the exchange are part of the counter, which is
\* therefore never too small for what a return takes off it.
LEMMA BusyCovers ==
    ASSUME TypeOK, TypeOK', MerchantsAccounted
    PROVE  /\ \A l \in Legs : InTransit(l) =>
                /\ Merchants(l) \in Nat /\ Sender(l) \in Settlements
                /\ Merchants(l) <= busy[Sender(l)]
           /\ \A x \in Exchanges : exchange[x].status = "pending" =>
                Needed(exchange[x].home, exchange[x].from.amount) <= busy[exchange[x].home]
<1>0. \A s \in Settlements :
        /\ SumFunction(Hauling(s)) \in Int /\ SumFunction(Trading(s)) \in Int
        /\ \A l \in Legs : Hauling(s)[l] <= SumFunction(Hauling(s))
        /\ \A x \in Exchanges : Trading(s)[x] <= SumFunction(Trading(s))
        /\ \A l \in Legs : Hauling(s)[l] \in Nat
        /\ \A x \in Exchanges : Trading(s)[x] \in Nat
        /\ SumFunction(Hauling(s)) >= 0 /\ SumFunction(Trading(s)) >= 0
  <2>. SUFFICES ASSUME NEW s \in Settlements
                PROVE  /\ SumFunction(Hauling(s)) \in Int /\ SumFunction(Trading(s)) \in Int
                       /\ \A l \in Legs : Hauling(s)[l] <= SumFunction(Hauling(s))
                       /\ \A x \in Exchanges : Trading(s)[x] <= SumFunction(Trading(s))
                       /\ \A l \in Legs : Hauling(s)[l] \in Nat
                       /\ \A x \in Exchanges : Trading(s)[x] \in Nat
                       /\ SumFunction(Hauling(s)) >= 0 /\ SumFunction(Trading(s)) >= 0
    OBVIOUS
  <2>1. Hauling(s) \in [Legs -> Nat] /\ Trading(s) \in [Exchanges -> Nat]
    BY MerchantTypes
  <2>2. IsFiniteSet(Legs) /\ IsFiniteSet(Exchanges)
    BY LegsFinite, MarketAssumption
  <2>3. SumFunction(Hauling(s)) \in Nat
    BY <2>1, <2>2, TotalNat
  <2>4. SumFunction(Trading(s)) \in Nat
    BY <2>1, <2>2, TotalNat
  <2>5. \A l \in Legs : Hauling(s)[l] <= SumFunction(Hauling(s))
    BY <2>1, <2>2, TotalCovers
  <2>6. \A x \in Exchanges : Trading(s)[x] <= SumFunction(Trading(s))
    BY <2>1, <2>2, TotalCovers
  <2>7. (\A l \in Legs : Hauling(s)[l] \in Nat) /\ (\A x \in Exchanges : Trading(s)[x] \in Nat)
    BY <2>1
  <2>. QED
    BY <2>3, <2>4, <2>5, <2>6, <2>7
<1>1. ASSUME NEW l \in Legs, InTransit(l)
      PROVE  /\ Merchants(l) \in Nat /\ Sender(l) \in Settlements
             /\ Merchants(l) <= busy[Sender(l)]
  <2>1. Merchants(l) \in Nat /\ Sender(l) \in Settlements
    BY LegType DEF TypeOK
  <2>2. Hauling(Sender(l))[l] = Merchants(l)
    BY <1>1 DEF Hauling
  <2>3. busy[Sender(l)] = SumFunction(Hauling(Sender(l))) + SumFunction(Trading(Sender(l)))
    BY <2>1 DEF MerchantsAccounted
  <2>. QED
    BY <1>0, <2>1, <2>2, <2>3
<1>2. ASSUME NEW x \in Exchanges, exchange[x].status = "pending"
      PROVE  Needed(exchange[x].home, exchange[x].from.amount) <= busy[exchange[x].home]
  <2>. DEFINE s == exchange[x].home
  <2>1. s \in Settlements
    BY ExchangeType DEF TypeOK
  <2>2. Trading(s)[x] = Needed(s, exchange[x].from.amount)
    BY <1>2 DEF Trading
  <2>3. busy[s] = SumFunction(Hauling(s)) + SumFunction(Trading(s))
    BY <2>1 DEF MerchantsAccounted
  <2>. HIDE DEF s
  <2>4. Trading(s)[x] <= busy[s]
    BY <1>0, <2>1, <2>3
  <2>. QED
    BY <2>2, <2>4 DEF s
<1>. QED
  BY <1>1, <1>2

\* A returned leg frees what it occupied.
LEMMA ReturnMerchants ==
    ASSUME TypeOK, TypeOK', MerchantsAccounted, NEW l \in Legs, Return(l)
    PROVE  MerchantsAccounted'
<1>1. /\ leg[l] = "returning" /\ leg' = [leg EXCEPT ![l] = "done"]
      /\ offer' = offer /\ exchange' = exchange
      /\ Back(Sender(l), Merchants(l))
  BY DEF Return
<1>2. InTransit(l) /\ ~InTransit(l)' /\ \A m \in Legs : m # l => (InTransit(m)' <=> InTransit(m))
  BY <1>1 DEF InTransit, TypeOK, Papers
<1>3. \A m \in Legs : Sender(m)' = Sender(m) /\ Merchants(m)' = Merchants(m)
  BY <1>1 DEF Sender, Merchants, Load
<1>4. /\ Merchants(l) \in Nat /\ Sender(l) \in Settlements /\ Merchants(l) <= busy[Sender(l)]
  BY <1>2, BusyCovers
<1>5. ASSUME NEW s \in Settlements
      PROVE  SumFunction(Hauling(s)') - SumFunction(Hauling(s))
             + SumFunction(Trading(s)') - SumFunction(Trading(s)) = busy'[s] - busy[s]
  <2>1. /\ Hauling(s)[l] = IF Sender(l) = s THEN Merchants(l) ELSE 0
        /\ Hauling(s)'[l] = 0
    BY <1>2 DEF Hauling
  <2>2. DifferAt(Legs, Hauling(s), Hauling(s)', l)
    <3>1. \A m \in Legs : m # l => Hauling(s)'[m] = Hauling(s)[m]
      BY <1>2, <1>3 DEF Hauling
    <3>. QED
      BY <3>1, LegsFinite, MerchantTypes DEF DifferAt
  <2>3. /\ SumFunction(Hauling(s)) \in Int /\ SumFunction(Hauling(s)') \in Int
        /\ SumFunction(Hauling(s)') = SumFunction(Hauling(s)) + Hauling(s)'[l] - Hauling(s)[l]
    BY <2>2, TotalMoves
  <2>4. Trading(s)' = Trading(s) /\ SumFunction(Trading(s)) \in Int
    <3>1. Trading(s) \in [Exchanges -> Int]
      BY MerchantTypes
    <3>. QED
      BY <1>1, <3>1, TotalInt, MarketAssumption DEF Trading
  <2>5. busy[s] \in Nat /\ busy'[s] = IF Sender(l) = s THEN busy[s] - Merchants(l) ELSE busy[s]
    BY <1>1, <1>4 DEF Back, TypeOK, Papers
  <2>. QED
    BY <1>4, <2>1, <2>3, <2>4, <2>5
<1>. QED
  BY <1>5, MerchantsFollow

\* A completed exchange frees what it occupied.
LEMMA CompleteMerchants ==
    ASSUME TypeOK, TypeOK', MerchantsAccounted, NEW x \in Exchanges, CompleteExchange(x)
    PROVE  MerchantsAccounted'
<1>. DEFINE home == exchange[x].home
            n == Needed(home, exchange[x].from.amount)
<1>1. /\ exchange[x].status = "pending"
      /\ exchange' = [exchange EXCEPT ![x].status = "completed"]
      /\ offer' = offer /\ leg' = leg
      /\ Back(home, n)
  BY DEF CompleteExchange
<1>2. home \in Settlements /\ n \in Nat /\ n <= busy[home]
  BY <1>1, BusyCovers, ExchangeType, NeededType DEF TypeOK
<1>3. /\ exchange'[x].status = "completed"
      /\ \A y \in Exchanges : y # x => exchange'[y] = exchange[y]
  BY <1>1 DEF TypeOK, Papers, MarketExchange
<1>4. ASSUME NEW s \in Settlements
      PROVE  SumFunction(Hauling(s)') - SumFunction(Hauling(s))
             + SumFunction(Trading(s)') - SumFunction(Trading(s)) = busy'[s] - busy[s]
  <2>1. /\ Trading(s)[x] = IF home = s THEN n ELSE 0
        /\ Trading(s)'[x] = 0
    BY <1>1, <1>3 DEF Trading
  <2>2. DifferAt(Exchanges, Trading(s), Trading(s)', x)
    <3>1. \A y \in Exchanges : y # x => Trading(s)'[y] = Trading(s)[y]
      BY <1>3 DEF Trading
    <3>. QED
      BY <3>1, MarketAssumption, MerchantTypes DEF DifferAt
  <2>3. /\ SumFunction(Trading(s)) \in Int /\ SumFunction(Trading(s)') \in Int
        /\ SumFunction(Trading(s)') = SumFunction(Trading(s)) + Trading(s)'[x] - Trading(s)[x]
    BY <2>2, TotalMoves
  <2>4. Hauling(s)' = Hauling(s) /\ SumFunction(Hauling(s)) \in Int
    <3>1. Hauling(s) \in [Legs -> Int]
      BY MerchantTypes
    <3>. QED
      BY <1>1, <3>1, TotalInt, LegsFinite DEF Hauling, InTransit, Sender, Merchants, Load
  <2>5. busy[s] \in Nat /\ busy'[s] = IF home = s THEN busy[s] - n ELSE busy[s]
    <3>1. Back(home, n)
      BY <1>1
    <3>. HIDE DEF home, n
    <3>. QED
      BY <1>2, <3>1 DEF Back, TypeOK, Papers
  <2>. HIDE DEF home, n
  <2>. QED
    BY <1>2, <2>1, <2>3, <2>4, <2>5
<1>. QED
  BY <1>4, MerchantsFollow

\* An exchange that starts occupies what it reserves.
LEMMA StartMerchants ==
    ASSUME TypeOK, TypeOK', MerchantsAccounted, NEW x \in Exchanges,
           NEW home \in Settlements, StartExchange(x, home)
    PROVE  MerchantsAccounted'
<1>1. PICK from \in Side, to \in Kinds :
        /\ busy' = [busy EXCEPT ![home] = @ + Needed(home, from.amount)]
        /\ exchange' = [exchange EXCEPT ![x] = [status |-> "pending", home |-> home,
                                                from |-> from, to |-> to]]
  BY DEF StartExchange
<1>. DEFINE n == Needed(home, from.amount)
<1>2. exchange[x].status = "none" /\ offer' = offer /\ leg' = leg
  BY DEF StartExchange
<1>3. n \in Nat
  BY SideType, NeededType
<1>4. /\ exchange'[x].status = "pending" /\ exchange'[x].home = home
      /\ exchange'[x].from = from
      /\ \A y \in Exchanges : y # x => exchange'[y] = exchange[y]
  BY <1>1 DEF TypeOK, Papers
<1>5. ASSUME NEW s \in Settlements
      PROVE  SumFunction(Hauling(s)') - SumFunction(Hauling(s))
             + SumFunction(Trading(s)') - SumFunction(Trading(s)) = busy'[s] - busy[s]
  <2>1. /\ Trading(s)[x] = 0
        /\ Trading(s)'[x] = IF home = s THEN n ELSE 0
    BY <1>2, <1>4 DEF Trading
  <2>2. DifferAt(Exchanges, Trading(s), Trading(s)', x)
    <3>1. \A y \in Exchanges : y # x => Trading(s)'[y] = Trading(s)[y]
      BY <1>4 DEF Trading
    <3>. QED
      BY <3>1, MarketAssumption, MerchantTypes DEF DifferAt
  <2>3. /\ SumFunction(Trading(s)) \in Int /\ SumFunction(Trading(s)') \in Int
        /\ SumFunction(Trading(s)') = SumFunction(Trading(s)) + Trading(s)'[x] - Trading(s)[x]
    BY <2>2, TotalMoves
  <2>4. Hauling(s)' = Hauling(s) /\ SumFunction(Hauling(s)) \in Int
    <3>1. Hauling(s) \in [Legs -> Int]
      BY MerchantTypes
    <3>. QED
      BY <1>2, <3>1, TotalInt, LegsFinite DEF Hauling, InTransit, Sender, Merchants, Load
  <2>5. busy[s] \in Nat /\ busy'[s] = IF home = s THEN busy[s] + n ELSE busy[s]
    BY <1>1 DEF TypeOK, Papers
  <2>. HIDE DEF n
  <2>. QED
    BY <1>3, <2>1, <2>3, <2>4, <2>5
<1>. QED
  BY <1>5, MerchantsFollow

\* An accepted offer occupies merchants of its two parties, which differ: they
\* are of different accounts.
LEMMA AcceptMerchants ==
    ASSUME TInv, TypeOK', MerchantsAccounted, NEW o \in Offers,
           NEW taker \in Settlements, AcceptOffer(o, taker)
    PROVE  MerchantsAccounted'
<1>. DEFINE home == offer[o].home
            out == Needed(home, offer[o].give.amount)
            back == Needed(taker, offer[o].want.amount)
            there == <<o, "give">>
            here == <<o, "want">>
<1>1. TypeOK /\ Papers /\ Consistent(o)
  BY DEF TInv, TypeOK
<1>2. /\ home \in Settlements /\ home # taker /\ out \in Nat /\ back \in Nat
      /\ there \in Legs /\ here \in Legs /\ there # here
  BY <1>1, OfferType, SideType, NeededType DEF AcceptOffer, Legs, Sides
<1>3. /\ offer[o].status = "open" /\ exchange' = exchange
      /\ busy' = [busy EXCEPT ![taker] = @ + back, ![home] = @ + out]
      /\ leg' = [l \in Legs |-> IF l[1] = o THEN "outbound" ELSE leg[l]]
      /\ offer' = [offer EXCEPT ![o].status = "accepted", ![o].taker = taker]
  BY DEF AcceptOffer
<1>4. /\ ~InTransit(there) /\ ~InTransit(here) /\ InTransit(there)' /\ InTransit(here)'
      /\ \A l \in Legs : l # there /\ l # here =>
           l[1] # o /\ (InTransit(l)' <=> InTransit(l))
  <2>1. leg[there] = "none" /\ leg[here] = "none"
    BY <1>1, <1>3 DEF Consistent, Sides
  <2>2. \A l \in Legs : l = <<l[1], l[2]>> /\ l[2] \in {"give", "want"}
    BY DEF Legs, Sides
  <2>. QED
    BY <1>2, <1>3, <2>1, <2>2 DEF InTransit
<1>5. /\ offer'[o].home = home /\ offer'[o].taker = taker
      /\ offer'[o].give = offer[o].give /\ offer'[o].want = offer[o].want
      /\ \A p \in Offers : p # o => offer'[p] = offer[p]
  BY <1>1, <1>3 DEF Papers, TradeOffer
<1>6. /\ Sender(there)' = home /\ Merchants(there)' = out
      /\ Sender(here)' = taker /\ Merchants(here)' = back
  BY <1>5 DEF Sender, Merchants, Load
<1>7. \A l \in Legs : l # there /\ l # here =>
        Sender(l)' = Sender(l) /\ Merchants(l)' = Merchants(l)
  BY <1>4, <1>5, LegType, <1>1 DEF Sender, Merchants, Load
<1>. HIDE DEF there, here, home
<1>8. ASSUME NEW s \in Settlements
      PROVE  SumFunction(Hauling(s)') - SumFunction(Hauling(s))
             + SumFunction(Trading(s)') - SumFunction(Trading(s)) = busy'[s] - busy[s]
  <2>1. /\ Hauling(s)[there] = 0 /\ Hauling(s)[here] = 0
        /\ Hauling(s)'[there] = IF home = s THEN out ELSE 0
        /\ Hauling(s)'[here] = IF taker = s THEN back ELSE 0
    BY <1>2, <1>4, <1>6 DEF Hauling
  <2>2. DifferAtTwo(Legs, Hauling(s), Hauling(s)', there, here)
    <3>1. \A l \in Legs : l # there /\ l # here => Hauling(s)'[l] = Hauling(s)[l]
      BY <1>4, <1>7 DEF Hauling
    <3>. QED
      BY <1>1, <1>2, <3>1, LegsFinite, MerchantTypes DEF DifferAtTwo
  <2>3. /\ SumFunction(Hauling(s)) \in Int /\ SumFunction(Hauling(s)') \in Int
        /\ SumFunction(Hauling(s)') = SumFunction(Hauling(s))
             + (Hauling(s)'[there] - Hauling(s)[there]) + (Hauling(s)'[here] - Hauling(s)[here])
    BY <2>2, TotalMovesTwice
  <2>4. Trading(s)' = Trading(s) /\ SumFunction(Trading(s)) \in Int
    <3>1. Trading(s) \in [Exchanges -> Int]
      BY <1>1, MerchantTypes
    <3>. QED
      BY <1>3, <3>1, TotalInt, MarketAssumption DEF Trading
  <2>. HIDE DEF out, back
  <2>5. busy[s] \in Nat /\ busy'[s] = IF home = s THEN busy[s] + out
                                      ELSE IF taker = s THEN busy[s] + back ELSE busy[s]
    BY <1>1, <1>2, <1>3 DEF Papers
  <2>. QED
    BY <1>2, <2>1, <2>3, <2>4, <2>5
<1>. QED
  BY <1>1, <1>8, MerchantsFollow

\* What the other steps write is of no leg under way.
LEMMA MerchantsStep == RInv /\ MerchantsAccounted /\ [Next]_vars => MerchantsAccounted'
<1>. SUFFICES ASSUME RInv, MerchantsAccounted, [Next]_vars PROVE MerchantsAccounted'
  OBVIOUS
<1>1. TInv /\ TypeOK /\ Papers /\ TypeOK' /\ Papers'
  BY RInvTInv, TypeStep DEF TInv, TypeOK
<1>2. ASSUME UNCHANGED <<busy, exchange, leg>>, NEW o \in Offers,
             offer[o].status # "accepted",
             \A p \in Offers : p # o => offer'[p] = offer[p]
      PROVE  MerchantsAccounted'
  <2>1. \A l \in Legs : InTransit(l)' <=> InTransit(l)
    BY <1>2 DEF InTransit
  <2>2. \A l \in Legs : InTransit(l) => l[1] # o /\ l[1] \in Offers
    BY <1>1, <1>2, LegType DEF TInv, Consistent, InTransit
  <2>3. \A l \in Legs : InTransit(l) => Sender(l)' = Sender(l) /\ Merchants(l)' = Merchants(l)
    BY <1>2, <2>2 DEF Sender, Merchants, Load
  <2>. QED
    BY <1>1, <1>2, <2>1, <2>3, QuietMerchants
<1>3. ASSUME UNCHANGED <<busy, exchange, offer>>,
             \A l \in Legs : InTransit(l)' <=> InTransit(l)
      PROVE  MerchantsAccounted'
  <2>1. \A l \in Legs : Sender(l)' = Sender(l) /\ Merchants(l)' = Merchants(l)
    BY <1>3 DEF Sender, Merchants, Load
  <2>. QED
    BY <1>1, <1>3, <2>1, QuietMerchants
<1>4. ASSUME NEW o \in Offers, NEW s \in Settlements, CreateOffer(o, s)
      PROVE  MerchantsAccounted'
  BY <1>1, <1>2, <1>4 DEF CreateOffer, Papers
<1>5. ASSUME NEW o \in Offers, CancelOffer(o) \/ Expire(o) PROVE MerchantsAccounted'
  <2>1. PICK g \in Gains, status \in {"cancelled", "expired"} : Refund(o, g, status)
    BY <1>5 DEF CancelOffer, Expire
  <2>2. offer[o].status = "open"
    BY <1>5 DEF CancelOffer, Expire
  <2>. QED
    BY <1>1, <1>2, <2>1, <2>2 DEF Refund, Papers
<1>6. ASSUME NEW l \in Legs, CancelLeg(l) \/ Arrive(l) PROVE MerchantsAccounted'
  <2>1. /\ leg[l] = "outbound" /\ leg' = [leg EXCEPT ![l] = "returning"]
        /\ UNCHANGED <<busy, exchange, offer>>
    BY <1>6 DEF CancelLeg, Arrive
  <2>2. \A m \in Legs : InTransit(m)' <=> InTransit(m)
    BY <1>1, <2>1 DEF InTransit, Papers
  <2>. QED
    BY <1>3, <2>1, <2>2
<1>7. ASSUME \/ \E s \in Settlements : MarketLevelChanges(s)
             \/ \E e \in Events : StaleEvent(e) \/ RecordFailure(e)
             \/ UNCHANGED vars
      PROVE  MerchantsAccounted'
  BY <1>3, <1>7 DEF MarketLevelChanges, StaleEvent, RecordFailure, vars, InTransit
<1>. QED
  BY <1>1, <1>4, <1>5, <1>6, <1>7, ReturnMerchants, CompleteMerchants, StartMerchants,
     AcceptMerchants DEF Next

\* Whatever is cancelled, repeated or torn down, the busy merchants of a
\* settlement are those its legs and exchanges occupy, none more and none less.
THEOREM Merchants_Always == Spec => []MerchantsAccounted
<1>1. Init => RInv /\ MerchantsAccounted
  <2>. SUFFICES ASSUME Init PROVE RInv /\ MerchantsAccounted
    OBVIOUS
  <2>1. RInv
    BY InitReports
  <2>2. ASSUME NEW s \in Settlements
        PROVE  busy[s] = SumFunction(Hauling(s)) + SumFunction(Trading(s))
    <3>1. Hauling(s) \in [Legs -> Int] /\ Trading(s) \in [Exchanges -> Int]
      BY <2>1, ColumnTypes DEF RInv, Columns
    <3>2. /\ \A l \in Legs : Hauling(s)[l] = 0
          /\ \A x \in Exchanges : Trading(s)[x] = 0
      BY DEF Init, Hauling, Trading, InTransit
    <3>3. SumFunction(Hauling(s)) = 0
      BY <3>1, <3>2, LegsFinite, TotalZero
    <3>4. SumFunction(Trading(s)) = 0
      BY <3>1, <3>2, MarketAssumption, TotalZero
    <3>. QED
      BY <3>3, <3>4 DEF Init
  <2>. QED
    BY <2>1, <2>2 DEF MerchantsAccounted
<1>. QED
  BY <1>1, ReportsStep, MerchantsStep, PTL DEF Spec

------------------------------------------------------------------------------
\* The books.

LEMMA BookTypes ==
    ASSUME TypeOK, TypeOK', NEW k \in Kinds
    PROVE  /\ Stored(k) \in [Settlements -> Int] /\ Stored(k)' \in [Settlements -> Int]
           /\ Posted(k) \in [Offers -> Int] /\ Posted(k)' \in [Offers -> Int]
           /\ OnTheRoad(k) \in [Legs -> Int] /\ OnTheRoad(k)' \in [Legs -> Int]
           /\ Ordered(k) \in [Exchanges -> Int] /\ Ordered(k)' \in [Exchanges -> Int]
           /\ Exchanged(k) \in [Exchanges -> Int] /\ Exchanged(k)' \in [Exchanges -> Int]
BY ColumnTypes, ColumnTypesNext DEF Columns

\* Their totals are integers.
LEMMA TotalTypes ==
    ASSUME TypeOK, TypeOK', NEW k \in Kinds
    PROVE  /\ SumFunction(Stored(k)) \in Int /\ SumFunction(Stored(k)') \in Int
           /\ SumFunction(Posted(k)) \in Int /\ SumFunction(Posted(k)') \in Int
           /\ SumFunction(OnTheRoad(k)) \in Int /\ SumFunction(OnTheRoad(k)') \in Int
           /\ SumFunction(Ordered(k)) \in Int /\ SumFunction(Ordered(k)') \in Int
           /\ SumFunction(Exchanged(k)) \in Int /\ SumFunction(Exchanged(k)') \in Int
           /\ SumFunction([s \in Settlements |-> Start[s][k]]) \in Int
           /\ ledger[k] \in Int /\ ledger'[k] \in Int
<1>1. /\ SumFunction(Stored(k)) \in Int /\ SumFunction(Stored(k)') \in Int
  BY BookTypes, MarketAssumption, TotalInt
<1>2. /\ SumFunction(Posted(k)) \in Int /\ SumFunction(Posted(k)') \in Int
  BY BookTypes, MarketAssumption, TotalInt
<1>3. /\ SumFunction(OnTheRoad(k)) \in Int /\ SumFunction(OnTheRoad(k)') \in Int
  BY BookTypes, LegsFinite, TotalInt
<1>4. /\ SumFunction(Ordered(k)) \in Int /\ SumFunction(Ordered(k)') \in Int
      /\ SumFunction(Exchanged(k)) \in Int /\ SumFunction(Exchanged(k)') \in Int
  BY BookTypes, MarketAssumption, TotalInt
<1>5. SumFunction([s \in Settlements |-> Start[s][k]]) \in Int
  <2>1. [s \in Settlements |-> Start[s][k]] \in [Settlements -> Int]
    BY MarketAssumption
  <2>. QED
    BY <2>1, MarketAssumption, TotalInt
<1>6. ledger[k] \in Int /\ ledger'[k] \in Int
  BY DEF TypeOK, Stocked
<1>. QED
  BY <1>1, <1>2, <1>3, <1>4, <1>5, <1>6

\* What storage gains beyond the ledger, the board, the roads and the exchanges
\* lose: a step that moves m keeps the books.
LEMMA BooksFollow ==
    ASSUME TypeOK, TypeOK', BooksBalance, NEW m \in [Kinds -> Int],
           \A k \in Kinds : SumFunction(Stored(k)') - SumFunction(Stored(k))
                            = ledger'[k] - ledger[k] + m[k],
           \A k \in Kinds : (SumFunction(Posted(k)') - SumFunction(Posted(k)))
                            + (SumFunction(OnTheRoad(k)') - SumFunction(OnTheRoad(k)))
                            + (SumFunction(Ordered(k)') - SumFunction(Ordered(k)))
                            - (SumFunction(Exchanged(k)') - SumFunction(Exchanged(k)))
                            = 0 - m[k]
    PROVE  BooksBalance'
<1>1. ASSUME NEW k \in Kinds
      PROVE  SumFunction(Stored(k)') + SumFunction(Posted(k)') + SumFunction(OnTheRoad(k)')
             + SumFunction(Ordered(k)')
             = SumFunction([s \in Settlements |-> Start[s][k]]) + ledger'[k]
               + SumFunction(Exchanged(k)')
  <2>. DEFINE a == SumFunction(Stored(k))     A == SumFunction(Stored(k)')
              b == SumFunction(Posted(k))     B == SumFunction(Posted(k)')
              c == SumFunction(OnTheRoad(k))  C == SumFunction(OnTheRoad(k)')
              d == SumFunction(Ordered(k))    D == SumFunction(Ordered(k)')
              e == SumFunction(Exchanged(k))  E == SumFunction(Exchanged(k)')
              f == SumFunction([s \in Settlements |-> Start[s][k]])
  <2>1. /\ a \in Int /\ A \in Int /\ b \in Int /\ B \in Int /\ c \in Int /\ C \in Int
        /\ d \in Int /\ D \in Int /\ e \in Int /\ E \in Int /\ f \in Int
        /\ ledger[k] \in Int /\ ledger'[k] \in Int
    BY TotalTypes
  <2>2. a + b + c + d = f + ledger[k] + e
    BY DEF BooksBalance, Owned, Given
  <2>3. A - a = ledger'[k] - ledger[k] + m[k]
    OBVIOUS
  <2>4. (B - b) + (C - c) + (D - d) - (E - e) = 0 - m[k]
    OBVIOUS
  <2>5. m[k] \in Int
    OBVIOUS
  <2>. HIDE DEF a, A, b, B, c, C, d, D, e, E, f
  <2>6. A + B + C + D = f + ledger'[k] + E
    BY <2>1, <2>2, <2>3, <2>4, <2>5
  <2>. QED
    BY <2>6 DEF A, B, C, D, E, f
<1>. QED
  BY <1>1 DEF BooksBalance, Owned, Given

\* A credit enters storage and, for what overflows, the ledger.
LEMMA CreditBooks ==
    ASSUME TypeOK, TypeOK', NEW s \in Settlements, NEW g \in Gains,
           NEW b \in [Kinds -> Nat], Credit(s, g, b), NEW k \in Kinds
    PROVE  SumFunction(Stored(k)') - SumFunction(Stored(k)) = ledger'[k] - ledger[k] + b[k]
<1>. DEFINE after == Clamped(s, Plus(Settled(s, g), b))
<1>1. /\ stock' = [stock EXCEPT ![s] = after]
      /\ ledger' = Plus(ledger, Minus(after, Plus(stock[s], b)))
  BY DEF Credit
<1>2. ledger'[k] = ledger[k] + (after[k] - (stock[s][k] + b[k]))
  BY <1>1 DEF Plus, Minus
<1>. HIDE DEF after
<1>3. /\ stock'[s] = after /\ \A t \in Settlements : t # s => stock'[t] = stock[t]
      /\ stock[s][k] \in Int /\ stock'[s][k] \in Int /\ ledger[k] \in Int /\ b[k] \in Int
  BY <1>1 DEF TypeOK, Stocked
<1>4. DifferAt(Settlements, Stored(k), Stored(k)', s)
  <2>1. \A t \in Settlements : t # s => Stored(k)'[t] = Stored(k)[t]
    BY <1>3 DEF Stored
  <2>. QED
    BY <2>1, BookTypes, MarketAssumption DEF DifferAt
<1>5. Stored(k)[s] = stock[s][k] /\ Stored(k)'[s] = after[k]
  BY <1>3 DEF Stored
<1>. QED
  BY <1>2, <1>3, <1>4, <1>5, TotalMoves

\* A price leaves it.
LEMMA PayBooks ==
    ASSUME TypeOK, TypeOK', NEW s \in Settlements, NEW g \in Gains, NEW side \in Side,
           Pay(s, g, side), NEW k \in Kinds
    PROVE  SumFunction(Stored(k)') - SumFunction(Stored(k))
           = ledger'[k] - ledger[k] + (0 - Bundle(side)[k])
<1>1. /\ stock' = [stock EXCEPT ![s] = Left(s, g, side)]
      /\ ledger' = Plus(ledger, Grown(s, g))
  BY DEF Pay
<1>2. /\ ledger'[k] = ledger[k] + (Settled(s, g)[k] - stock[s][k])
      /\ Left(s, g, side)[k] = Settled(s, g)[k] - Bundle(side)[k]
  BY <1>1 DEF Plus, Minus, Grown, Left
<1>3. /\ stock'[s] = Left(s, g, side) /\ \A t \in Settlements : t # s => stock'[t] = stock[t]
      /\ stock[s][k] \in Int /\ stock'[s][k] \in Int /\ ledger[k] \in Int
  BY <1>1 DEF TypeOK, Stocked
<1>4. Settled(s, g)[k] \in Int /\ Bundle(side)[k] \in Int
  BY SettledType, SideType, BundleType DEF TypeOK
<1>5. DifferAt(Settlements, Stored(k), Stored(k)', s)
  <2>1. \A t \in Settlements : t # s => Stored(k)'[t] = Stored(k)[t]
    BY <1>3 DEF Stored
  <2>. QED
    BY <2>1, BookTypes, MarketAssumption DEF DifferAt
<1>6. Stored(k)[s] = stock[s][k] /\ Stored(k)'[s] = Left(s, g, side)[k]
  BY <1>3 DEF Stored
<1>. QED
  BY <1>2, <1>3, <1>4, <1>5, <1>6, TotalMoves

\* Offers that are not accepted have no load on the road.
LEMMA RoadUnchanged ==
    ASSUME TInv, NEW k \in Kinds, leg' = leg, loaded' = loaded, NEW o \in Offers,
           offer[o].status # "accepted", \A p \in Offers : p # o => offer'[p] = offer[p]
    PROVE  OnTheRoad(k)' = OnTheRoad(k)
<1>1. \A l \in Legs : InTransit(l) => l[1] # o /\ l[1] \in Offers
  BY LegType DEF TInv, TypeOK, Consistent, InTransit
<1>2. \A l \in Legs : InTransit(l) => Load(l)' = Load(l)
  BY <1>1 DEF Load
<1>3. \A l \in Legs : InTransit(l)' <=> InTransit(l)
  BY DEF InTransit
<1>. QED
  BY <1>2, <1>3 DEF OnTheRoad, Bundle

\* An exchange left alone has the same entries in the books.
LEMMA ExchangesUnchanged ==
    ASSUME NEW k \in Kinds, exchange' = exchange
    PROVE  Ordered(k)' = Ordered(k) /\ Exchanged(k)' = Exchanged(k)
BY DEF Ordered, Exchanged, Bought

\* When only the column of an offer changes.
LEMMA PostedMoves ==
    ASSUME TypeOK, TypeOK', NEW k \in Kinds, NEW o \in Offers,
           \A p \in Offers : p # o => offer'[p] = offer[p]
    PROVE  SumFunction(Posted(k)') - SumFunction(Posted(k)) = Posted(k)'[o] - Posted(k)[o]
<1>1. DifferAt(Offers, Posted(k), Posted(k)', o)
  <2>1. \A p \in Offers : p # o => Posted(k)'[p] = Posted(k)[p]
    BY DEF Posted, Bundle
  <2>. QED
    BY <2>1, BookTypes, MarketAssumption DEF DifferAt
<1>2. Posted(k)[o] \in Int /\ Posted(k)'[o] \in Int
  BY BookTypes
<1>. QED
  BY <1>1, <1>2, TotalMoves

\* When only one leg changes.
LEMMA RoadMoves ==
    ASSUME TypeOK, TypeOK', NEW k \in Kinds, NEW l \in Legs, offer' = offer,
           \A m \in Legs : m # l => leg'[m] = leg[m] /\ loaded'[m] = loaded[m]
    PROVE  SumFunction(OnTheRoad(k)') - SumFunction(OnTheRoad(k))
           = OnTheRoad(k)'[l] - OnTheRoad(k)[l]
<1>1. DifferAt(Legs, OnTheRoad(k), OnTheRoad(k)', l)
  <2>1. \A m \in Legs : m # l => OnTheRoad(k)'[m] = OnTheRoad(k)[m]
    BY DEF OnTheRoad, InTransit, Load, Bundle
  <2>. QED
    BY <2>1, BookTypes, LegsFinite DEF DifferAt
<1>2. OnTheRoad(k)[l] \in Int /\ OnTheRoad(k)'[l] \in Int
  BY BookTypes
<1>. QED
  BY <1>1, <1>2, TotalMoves

\* When only one exchange changes.
LEMMA ExchangeMoves ==
    ASSUME TypeOK, TypeOK', NEW k \in Kinds, NEW x \in Exchanges,
           \A y \in Exchanges : y # x => exchange'[y] = exchange[y]
    PROVE  /\ SumFunction(Ordered(k)') - SumFunction(Ordered(k))
              = Ordered(k)'[x] - Ordered(k)[x]
           /\ SumFunction(Exchanged(k)') - SumFunction(Exchanged(k))
              = Exchanged(k)'[x] - Exchanged(k)[x]
<1>1. \A y \in Exchanges : y # x => Bought(y)' = Bought(y)
  BY DEF Bought
<1>2. DifferAt(Exchanges, Ordered(k), Ordered(k)', x)
  <2>1. \A y \in Exchanges : y # x => Ordered(k)'[y] = Ordered(k)[y]
    BY <1>1 DEF Ordered, Bundle
  <2>. QED
    BY <2>1, BookTypes, MarketAssumption DEF DifferAt
<1>3. DifferAt(Exchanges, Exchanged(k), Exchanged(k)', x)
  <2>1. \A y \in Exchanges : y # x => Exchanged(k)'[y] = Exchanged(k)[y]
    BY <1>1 DEF Exchanged, Bundle
  <2>. QED
    BY <2>1, BookTypes, MarketAssumption DEF DifferAt
<1>4. /\ Ordered(k)[x] \in Int /\ Ordered(k)'[x] \in Int
      /\ Exchanged(k)[x] \in Int /\ Exchanged(k)'[x] \in Int
  BY BookTypes
<1>. QED
  BY <1>2, <1>3, <1>4, TotalMoves

\* A column that stays the same moves nothing.
LEMMA NothingMoves ==
    ASSUME TypeOK, TypeOK', NEW k \in Kinds
    PROVE  /\ Stored(k)' = Stored(k) => SumFunction(Stored(k)') - SumFunction(Stored(k)) = 0
           /\ Posted(k)' = Posted(k) => SumFunction(Posted(k)') - SumFunction(Posted(k)) = 0
           /\ OnTheRoad(k)' = OnTheRoad(k) =>
                SumFunction(OnTheRoad(k)') - SumFunction(OnTheRoad(k)) = 0
           /\ Ordered(k)' = Ordered(k) => SumFunction(Ordered(k)') - SumFunction(Ordered(k)) = 0
           /\ Exchanged(k)' = Exchanged(k) =>
                SumFunction(Exchanged(k)') - SumFunction(Exchanged(k)) = 0
<1>1. \A n \in Int : n - n = 0
  OBVIOUS
<1>. QED
  BY <1>1, TotalTypes

\* Goods are taken from storage when an offer is posted.
LEMMA CreateOfferBooks ==
    ASSUME TInv, TypeOK', BooksBalance, NEW o \in Offers, NEW s \in Settlements,
           CreateOffer(o, s)
    PROVE  BooksBalance'
<1>1. PICK give \in Side, want \in Side, g \in Gains :
        /\ Pay(s, g, give)
        /\ offer' = [offer EXCEPT ![o] = [status |-> "open", home |-> s, taker |-> s,
                                          give |-> give, want |-> want]]
  BY DEF CreateOffer
<1>2. TypeOK /\ offer[o].status = "none" /\ UNCHANGED <<leg, loaded, exchange>>
  BY DEF TInv, CreateOffer
<1>3. /\ offer'[o].status = "open" /\ offer'[o].give = give
      /\ \A p \in Offers : p # o => offer'[p] = offer[p]
  BY <1>1, <1>2 DEF TypeOK, Papers
<1>. DEFINE m == [k \in Kinds |-> 0 - Bundle(give)[k]]
<1>4. \A k \in Kinds : Bundle(give)[k] \in Nat
  BY SideType, BundleType
<1>5. m \in [Kinds -> Int]
  BY <1>4
<1>6. ASSUME NEW k \in Kinds
      PROVE  (SumFunction(Posted(k)') - SumFunction(Posted(k)))
             + (SumFunction(OnTheRoad(k)') - SumFunction(OnTheRoad(k)))
             + (SumFunction(Ordered(k)') - SumFunction(Ordered(k)))
             - (SumFunction(Exchanged(k)') - SumFunction(Exchanged(k))) = 0 - m[k]
  <2>1. Posted(k)[o] = 0 /\ Posted(k)'[o] = Bundle(give)[k]
    BY <1>2, <1>3 DEF Posted, Bundle
  <2>2. SumFunction(Posted(k)') - SumFunction(Posted(k)) = Bundle(give)[k]
    BY <1>2, <1>3, <1>4, <2>1, PostedMoves
  <2>3. OnTheRoad(k)' = OnTheRoad(k)
    BY <1>2, <1>3, RoadUnchanged
  <2>4. Ordered(k)' = Ordered(k) /\ Exchanged(k)' = Exchanged(k)
    BY <1>2, ExchangesUnchanged
  <2>5. /\ SumFunction(OnTheRoad(k)') - SumFunction(OnTheRoad(k)) = 0
        /\ SumFunction(Ordered(k)') - SumFunction(Ordered(k)) = 0
        /\ SumFunction(Exchanged(k)') - SumFunction(Exchanged(k)) = 0
    BY <1>2, <2>3, <2>4, NothingMoves
  <2>. QED
    BY <1>4, <2>2, <2>5
<1>7. ASSUME NEW k \in Kinds
      PROVE  SumFunction(Stored(k)') - SumFunction(Stored(k)) = ledger'[k] - ledger[k] + m[k]
  BY <1>1, <1>2, PayBooks
<1>. HIDE DEF m
<1>. QED
  BY <1>2, <1>5, <1>6, <1>7, BooksFollow

\* They come back when it is withdrawn or expires.
LEMMA RefundBooks ==
    ASSUME TInv, TypeOK', BooksBalance, NEW o \in Offers, NEW g \in Gains,
           NEW status \in {"cancelled", "expired"}, Refund(o, g, status),
           offer[o].status = "open"
    PROVE  BooksBalance'
<1>1. /\ TypeOK /\ UNCHANGED <<leg, loaded, exchange>>
      /\ Credit(offer[o].home, g, Bundle(offer[o].give))
      /\ offer' = [offer EXCEPT ![o].status = status]
  BY DEF TInv, Refund
<1>. DEFINE m == Bundle(offer[o].give)
<1>2. m \in [Kinds -> Nat] /\ offer[o].home \in Settlements
  BY <1>1, OfferType, SideType, BundleType DEF TypeOK
<1>3. /\ offer'[o].status = status /\ \A p \in Offers : p # o => offer'[p] = offer[p]
  BY <1>1 DEF TypeOK, Papers, TradeOffer
<1>4. ASSUME NEW k \in Kinds
      PROVE  (SumFunction(Posted(k)') - SumFunction(Posted(k)))
             + (SumFunction(OnTheRoad(k)') - SumFunction(OnTheRoad(k)))
             + (SumFunction(Ordered(k)') - SumFunction(Ordered(k)))
             - (SumFunction(Exchanged(k)') - SumFunction(Exchanged(k))) = 0 - m[k]
  <2>1. Posted(k)[o] = m[k] /\ Posted(k)'[o] = 0 /\ m[k] \in Nat
    BY <1>2, <1>3 DEF Posted
  <2>2. SumFunction(Posted(k)') - SumFunction(Posted(k)) = 0 - m[k]
    BY <1>1, <1>3, <2>1, PostedMoves
  <2>3. OnTheRoad(k)' = OnTheRoad(k)
    BY <1>1, <1>3, RoadUnchanged
  <2>4. Ordered(k)' = Ordered(k) /\ Exchanged(k)' = Exchanged(k)
    BY <1>1, ExchangesUnchanged
  <2>5. /\ SumFunction(OnTheRoad(k)') - SumFunction(OnTheRoad(k)) = 0
        /\ SumFunction(Ordered(k)') - SumFunction(Ordered(k)) = 0
        /\ SumFunction(Exchanged(k)') - SumFunction(Exchanged(k)) = 0
    BY <1>1, <2>3, <2>4, NothingMoves
  <2>. HIDE DEF m
  <2>. QED
    BY <2>1, <2>2, <2>5
<1>5. ASSUME NEW k \in Kinds
      PROVE  SumFunction(Stored(k)') - SumFunction(Stored(k)) = ledger'[k] - ledger[k] + m[k]
  BY <1>1, <1>2, CreditBooks
<1>6. m \in [Kinds -> Int]
  BY <1>2
<1>. HIDE DEF m
<1>. QED
  BY <1>1, <1>4, <1>5, <1>6, BooksFollow

\* A leg that ends, or turns back, delivers what it has on board.
LEMMA UnloadBooks ==
    ASSUME TInv, TypeOK', BooksBalance, NEW l \in Legs, InTransit(l),
           NEW b \in [Kinds -> Nat], b = IF loaded[l] THEN Bundle(Load(l)) ELSE Zero,
           NEW s \in Settlements, NEW g \in Gains, Credit(s, g, b),
           ~(InTransit(l)' /\ loaded'[l]), offer' = offer, exchange' = exchange,
           \A m \in Legs : m # l => leg'[m] = leg[m] /\ loaded'[m] = loaded[m]
    PROVE  BooksBalance'
<1>1. TypeOK
  BY DEF TInv
<1>2. ASSUME NEW k \in Kinds
      PROVE  (SumFunction(Posted(k)') - SumFunction(Posted(k)))
             + (SumFunction(OnTheRoad(k)') - SumFunction(OnTheRoad(k)))
             + (SumFunction(Ordered(k)') - SumFunction(Ordered(k)))
             - (SumFunction(Exchanged(k)') - SumFunction(Exchanged(k))) = 0 - b[k]
  <2>1. OnTheRoad(k)[l] = b[k] /\ OnTheRoad(k)'[l] = 0 /\ b[k] \in Nat
    BY DEF OnTheRoad, Zero
  <2>2. SumFunction(OnTheRoad(k)') - SumFunction(OnTheRoad(k)) = 0 - b[k]
    BY <1>1, <2>1, RoadMoves
  <2>3. Posted(k)' = Posted(k)
    BY DEF Posted
  <2>4. Ordered(k)' = Ordered(k) /\ Exchanged(k)' = Exchanged(k)
    BY ExchangesUnchanged
  <2>5. /\ SumFunction(Posted(k)') - SumFunction(Posted(k)) = 0
        /\ SumFunction(Ordered(k)') - SumFunction(Ordered(k)) = 0
        /\ SumFunction(Exchanged(k)') - SumFunction(Exchanged(k)) = 0
    BY <1>1, <2>3, <2>4, NothingMoves
  <2>. QED
    BY <2>1, <2>2, <2>5
<1>3. ASSUME NEW k \in Kinds
      PROVE  SumFunction(Stored(k)') - SumFunction(Stored(k)) = ledger'[k] - ledger[k] + b[k]
  BY <1>1, CreditBooks
<1>4. b \in [Kinds -> Int]
  OBVIOUS
<1>. QED
  BY <1>1, <1>2, <1>3, <1>4, BooksFollow

\* Acceptance moves the offer from the board to the road, and takes the price
\* for the way back from who accepts.
LEMMA AcceptBooks ==
    ASSUME TInv, TypeOK', BooksBalance, NEW o \in Offers, NEW s \in Settlements,
           AcceptOffer(o, s)
    PROVE  BooksBalance'
<1>. DEFINE home == offer[o].home
            give == offer[o].give
            want == offer[o].want
            there == <<o, "give">>
            here == <<o, "want">>
            m == [k \in Kinds |-> 0 - Bundle(want)[k]]
<1>1. TypeOK /\ Stocked /\ Papers /\ Consistent(o)
  BY DEF TInv, TypeOK
<1>2. PICK g \in Gains, h \in Gains :
        /\ Affords(s, g, want)
        /\ stock' = [stock EXCEPT ![s] = Left(s, g, want), ![home] = Settled(home, h)]
        /\ ledger' = Plus(ledger, Plus(Grown(s, g), Grown(home, h)))
  BY DEF AcceptOffer
<1>3. /\ home \in Settlements /\ home # s
      /\ there \in Legs /\ here \in Legs /\ there # here
      /\ give \in Side /\ want \in Side
  BY <1>1, OfferType DEF AcceptOffer, Legs, Sides
<1>4. /\ offer[o].status = "open" /\ exchange' = exchange
      /\ leg' = [l \in Legs |-> IF l[1] = o THEN "outbound" ELSE leg[l]]
      /\ loaded' = [l \in Legs |-> l[1] = o \/ loaded[l]]
      /\ offer' = [offer EXCEPT ![o].status = "accepted", ![o].taker = s]
  BY DEF AcceptOffer
<1>5. /\ offer'[o].status = "accepted" /\ offer'[o].give = give /\ offer'[o].want = want
      /\ \A p \in Offers : p # o => offer'[p] = offer[p]
  BY <1>1, <1>4 DEF Papers, TradeOffer
<1>6. /\ ~InTransit(there) /\ ~InTransit(here) /\ InTransit(there)' /\ InTransit(here)'
      /\ loaded'[there] /\ loaded'[here]
      /\ \A l \in Legs : l # there /\ l # here =>
           /\ l[1] # o /\ l[1] \in Offers
           /\ (InTransit(l)' <=> InTransit(l)) /\ (loaded'[l] <=> loaded[l])
  <2>1. leg[there] = "none" /\ leg[here] = "none"
    BY <1>1, <1>4 DEF Consistent, Sides
  <2>2. \A l \in Legs : l = <<l[1], l[2]>> /\ l[1] \in Offers /\ l[2] \in {"give", "want"}
    BY DEF Legs, Sides
  <2>. QED
    BY <1>3, <1>4, <2>1, <2>2 DEF InTransit
<1>7. Load(there)' = give /\ Load(here)' = want
  BY <1>5 DEF Load
<1>8. \A l \in Legs : l # there /\ l # here => Load(l)' = Load(l)
  BY <1>5, <1>6 DEF Load
<1>9. \A k \in Kinds : Bundle(give)[k] \in Nat /\ Bundle(want)[k] \in Nat
  BY <1>3, SideType, BundleType
<1>10. m \in [Kinds -> Int]
  BY <1>9
<1>. HIDE DEF there, here
<1>11. ASSUME NEW k \in Kinds
       PROVE  (SumFunction(Posted(k)') - SumFunction(Posted(k)))
              + (SumFunction(OnTheRoad(k)') - SumFunction(OnTheRoad(k)))
              + (SumFunction(Ordered(k)') - SumFunction(Ordered(k)))
              - (SumFunction(Exchanged(k)') - SumFunction(Exchanged(k))) = 0 - m[k]
  <2>1. Posted(k)[o] = Bundle(give)[k] /\ Posted(k)'[o] = 0
    BY <1>4, <1>5 DEF Posted
  <2>2. SumFunction(Posted(k)') - SumFunction(Posted(k)) = 0 - Bundle(give)[k]
    BY <1>1, <1>5, <1>9, <2>1, PostedMoves
  <2>3. /\ OnTheRoad(k)[there] = 0 /\ OnTheRoad(k)[here] = 0
        /\ OnTheRoad(k)'[there] = Bundle(give)[k] /\ OnTheRoad(k)'[here] = Bundle(want)[k]
    BY <1>3, <1>6, <1>7 DEF OnTheRoad, Bundle
  <2>4. DifferAtTwo(Legs, OnTheRoad(k), OnTheRoad(k)', there, here)
    <3>1. \A l \in Legs : l # there /\ l # here => OnTheRoad(k)'[l] = OnTheRoad(k)[l]
      BY <1>6, <1>8 DEF OnTheRoad, Bundle
    <3>. QED
      BY <1>1, <1>3, <3>1, LegsFinite, BookTypes DEF DifferAtTwo
  <2>5. SumFunction(OnTheRoad(k)') - SumFunction(OnTheRoad(k))
        = Bundle(give)[k] + Bundle(want)[k]
    BY <1>9, <2>3, <2>4, TotalMovesTwice
  <2>6. Ordered(k)' = Ordered(k) /\ Exchanged(k)' = Exchanged(k)
    BY <1>4, ExchangesUnchanged
  <2>7. /\ SumFunction(Ordered(k)') - SumFunction(Ordered(k)) = 0
        /\ SumFunction(Exchanged(k)') - SumFunction(Exchanged(k)) = 0
    BY <1>1, <2>6, NothingMoves
  <2>. QED
    BY <1>9, <2>2, <2>5, <2>7
<1>. HIDE DEF home
<1>12. ASSUME NEW k \in Kinds
       PROVE  SumFunction(Stored(k)') - SumFunction(Stored(k)) = ledger'[k] - ledger[k] + m[k]
  <2>1. /\ ledger'[k] = ledger[k] + ((Settled(s, g)[k] - stock[s][k])
                                     + (Settled(home, h)[k] - stock[home][k]))
        /\ Left(s, g, want)[k] = Settled(s, g)[k] - Bundle(want)[k]
    BY <1>2 DEF Plus, Minus, Grown, Left
  <2>2. /\ stock'[s] = Left(s, g, want) /\ stock'[home] = Settled(home, h)
        /\ \A t \in Settlements : t # s /\ t # home => stock'[t] = stock[t]
        /\ stock[s][k] \in Int /\ stock[home][k] \in Int /\ ledger[k] \in Int
    BY <1>1, <1>2, <1>3 DEF Stocked
  <2>3. Settled(s, g)[k] \in Int /\ Settled(home, h)[k] \in Int
    BY <1>1, <1>3, SettledType
  <2>4. DifferAtTwo(Settlements, Stored(k), Stored(k)', s, home)
    <3>1. \A t \in Settlements : t # s /\ t # home => Stored(k)'[t] = Stored(k)[t]
      BY <2>2 DEF Stored
    <3>. QED
      BY <1>1, <1>3, <3>1, BookTypes, MarketAssumption DEF DifferAtTwo
  <2>5. /\ Stored(k)[s] = stock[s][k] /\ Stored(k)[home] = stock[home][k]
        /\ Stored(k)'[s] = Left(s, g, want)[k] /\ Stored(k)'[home] = Settled(home, h)[k]
    BY <1>3, <2>2 DEF Stored
  <2>. QED
    BY <1>9, <2>1, <2>2, <2>3, <2>4, <2>5, TotalMovesTwice
<1>. HIDE DEF m
<1>. QED
  BY <1>1, <1>10, <1>11, <1>12, BooksFollow

\* An exchange takes what it sells from storage and orders what it buys.
LEMMA StartExchangeBooks ==
    ASSUME TInv, TypeOK', BooksBalance, NEW x \in Exchanges, NEW s \in Settlements,
           StartExchange(x, s)
    PROVE  BooksBalance'
<1>1. PICK from \in Side, to \in Kinds, g \in Gains :
        /\ Pay(s, g, from)
        /\ exchange' = [exchange EXCEPT ![x] = [status |-> "pending", home |-> s,
                                                from |-> from, to |-> to]]
  BY DEF StartExchange
<1>2. TypeOK /\ exchange[x].status = "none" /\ UNCHANGED <<leg, loaded, offer>>
  BY DEF TInv, StartExchange
<1>3. /\ exchange'[x].status = "pending" /\ exchange'[x].from = from
      /\ \A y \in Exchanges : y # x => exchange'[y] = exchange[y]
  BY <1>1, <1>2 DEF TypeOK, Papers
<1>. DEFINE m == [k \in Kinds |-> 0 - Bundle(from)[k]]
<1>4. \A k \in Kinds : Bundle(from)[k] \in Nat
  BY SideType, BundleType
<1>5. m \in [Kinds -> Int]
  BY <1>4
<1>6. ASSUME NEW k \in Kinds
      PROVE  (SumFunction(Posted(k)') - SumFunction(Posted(k)))
             + (SumFunction(OnTheRoad(k)') - SumFunction(OnTheRoad(k)))
             + (SumFunction(Ordered(k)') - SumFunction(Ordered(k)))
             - (SumFunction(Exchanged(k)') - SumFunction(Exchanged(k))) = 0 - m[k]
  <2>1. /\ Ordered(k)[x] = 0 /\ Ordered(k)'[x] = Bundle(Bought(x)')[k]
        /\ Exchanged(k)[x] = 0
        /\ Exchanged(k)'[x] = Ordered(k)'[x] - Bundle(from)[k]
    BY <1>2, <1>3 DEF Ordered, Exchanged, Bundle
  <2>2. Ordered(k)'[x] \in Int
    BY <1>2, BookTypes
  <2>3. (SumFunction(Ordered(k)') - SumFunction(Ordered(k)))
        - (SumFunction(Exchanged(k)') - SumFunction(Exchanged(k))) = Bundle(from)[k]
    BY <1>2, <1>3, <1>4, <2>1, <2>2, ExchangeMoves
  <2>4. OnTheRoad(k)' = OnTheRoad(k) /\ Posted(k)' = Posted(k)
    BY <1>2 DEF OnTheRoad, InTransit, Load, Posted
  <2>5. /\ SumFunction(OnTheRoad(k)') - SumFunction(OnTheRoad(k)) = 0
        /\ SumFunction(Posted(k)') - SumFunction(Posted(k)) = 0
    BY <1>2, <2>4, NothingMoves
  <2>6. /\ SumFunction(Ordered(k)') - SumFunction(Ordered(k)) \in Int
        /\ SumFunction(Exchanged(k)') - SumFunction(Exchanged(k)) \in Int
    <3>1. \A a, b \in Int : a - b \in Int
      OBVIOUS
    <3>. QED
      BY <1>2, <3>1, TotalTypes
  <2>7. 0 - m[k] = Bundle(from)[k]
    BY <1>4
  <2>. QED
    BY <1>4, <2>3, <2>5, <2>6, <2>7
<1>7. ASSUME NEW k \in Kinds
      PROVE  SumFunction(Stored(k)') - SumFunction(Stored(k)) = ledger'[k] - ledger[k] + m[k]
  BY <1>1, <1>2, PayBooks
<1>. HIDE DEF m
<1>. QED
  BY <1>2, <1>5, <1>6, <1>7, BooksFollow

\* What was ordered arrives.
LEMMA CompleteExchangeBooks ==
    ASSUME TInv, TypeOK', BooksBalance, NEW x \in Exchanges, CompleteExchange(x)
    PROVE  BooksBalance'
<1>. DEFINE home == exchange[x].home
            m == Bundle(Bought(x))
<1>1. PICK g \in Gains : Credit(home, g, m)
  BY DEF CompleteExchange
<1>2. /\ TypeOK /\ exchange[x].status = "pending" /\ UNCHANGED <<leg, loaded, offer>>
      /\ exchange' = [exchange EXCEPT ![x].status = "completed"]
  BY DEF TInv, CompleteExchange
<1>3. /\ exchange'[x].status = "completed" /\ exchange'[x].from = exchange[x].from
      /\ exchange'[x].to = exchange[x].to
      /\ \A y \in Exchanges : y # x => exchange'[y] = exchange[y]
  BY <1>2 DEF TypeOK, Papers, MarketExchange
<1>4. m \in [Kinds -> Nat] /\ home \in Settlements /\ Bought(x)' = Bought(x)
  BY <1>2, <1>3, ExchangeType DEF TypeOK, Bought
<1>5. ASSUME NEW k \in Kinds
      PROVE  (SumFunction(Posted(k)') - SumFunction(Posted(k)))
             + (SumFunction(OnTheRoad(k)') - SumFunction(OnTheRoad(k)))
             + (SumFunction(Ordered(k)') - SumFunction(Ordered(k)))
             - (SumFunction(Exchanged(k)') - SumFunction(Exchanged(k))) = 0 - m[k]
  <2>1. /\ Ordered(k)[x] = m[k] /\ Ordered(k)'[x] = 0
        /\ Exchanged(k)'[x] = Exchanged(k)[x]
    BY <1>2, <1>3, <1>4 DEF Ordered, Exchanged, Bundle
  <2>2. m[k] \in Nat /\ Exchanged(k)[x] \in Int
    BY <1>2, <1>4, BookTypes
  <2>. HIDE DEF m
  <2>3. /\ SumFunction(Ordered(k)') - SumFunction(Ordered(k)) = 0 - m[k]
        /\ SumFunction(Exchanged(k)') - SumFunction(Exchanged(k)) = 0
    BY <1>2, <1>3, <2>1, <2>2, ExchangeMoves
  <2>4. OnTheRoad(k)' = OnTheRoad(k) /\ Posted(k)' = Posted(k)
    BY <1>2 DEF OnTheRoad, InTransit, Load, Posted
  <2>5. /\ SumFunction(OnTheRoad(k)') - SumFunction(OnTheRoad(k)) = 0
        /\ SumFunction(Posted(k)') - SumFunction(Posted(k)) = 0
    BY <1>2, <2>4, NothingMoves
  <2>. QED
    BY <2>2, <2>3, <2>5
<1>6. ASSUME NEW k \in Kinds
      PROVE  SumFunction(Stored(k)') - SumFunction(Stored(k)) = ledger'[k] - ledger[k] + m[k]
  BY <1>1, <1>2, <1>4, CreditBooks
<1>7. m \in [Kinds -> Int]
  BY <1>4
<1>. HIDE DEF m
<1>. QED
  BY <1>2, <1>5, <1>6, <1>7, BooksFollow

\* Neither does anything else touch storage, the board, a load or an exchange.
LEMMA BooksStep == RInv /\ BooksBalance /\ [Next]_vars => BooksBalance'
<1>. SUFFICES ASSUME RInv, BooksBalance, [Next]_vars PROVE BooksBalance'
  OBVIOUS
<1>1. TInv /\ TypeOK /\ Papers /\ TypeOK'
  BY RInvTInv, TypeStep DEF TInv, TypeOK
<1>2. ASSUME NEW o \in Offers, CancelOffer(o) \/ Expire(o) PROVE BooksBalance'
  BY <1>1, <1>2, RefundBooks DEF CancelOffer, Expire
<1>3. ASSUME NEW l \in Legs, Arrive(l) PROVE BooksBalance'
  <2>1. PICK g \in Gains : Credit(Receiver(l), g, Bundle(Load(l)))
    BY <1>3 DEF Arrive
  <2>2. /\ leg[l] = "outbound" /\ UNCHANGED <<offer, exchange>>
        /\ leg' = [leg EXCEPT ![l] = "returning"] /\ loaded' = [loaded EXCEPT ![l] = FALSE]
    BY <1>3 DEF Arrive
  <2>3. InTransit(l) /\ loaded[l]
    <3>1. l = <<l[1], l[2]>> /\ l[1] \in Offers /\ l[2] \in Sides
      BY <1>1, LegType
    <3>. QED
      BY <1>1, <2>2, <3>1 DEF TInv, Consistent, InTransit
  <2>4. /\ ~loaded'[l]
        /\ \A m \in Legs : m # l => leg'[m] = leg[m] /\ loaded'[m] = loaded[m]
    BY <1>1, <2>2 DEF Papers
  <2>5. Receiver(l) \in Settlements /\ Bundle(Load(l)) \in [Kinds -> Nat]
    BY <1>1, LegType
  <2>. QED
    BY <1>1, <2>1, <2>2, <2>3, <2>4, <2>5, UnloadBooks
<1>4. ASSUME NEW l \in Legs, Return(l) PROVE BooksBalance'
  <2>. DEFINE b == IF loaded[l] THEN Bundle(Load(l)) ELSE Zero
  <2>1. PICK g \in Gains : Credit(Sender(l), g, b)
    BY <1>4 DEF Return
  <2>2. /\ leg[l] = "returning" /\ UNCHANGED <<offer, exchange, loaded>>
        /\ leg' = [leg EXCEPT ![l] = "done"]
    BY <1>4 DEF Return
  <2>3. InTransit(l) /\ ~InTransit(l)'
    BY <1>1, <2>2 DEF InTransit, Papers
  <2>4. \A m \in Legs : m # l => leg'[m] = leg[m] /\ loaded'[m] = loaded[m]
    BY <1>1, <2>2 DEF Papers
  <2>5. Sender(l) \in Settlements /\ b \in [Kinds -> Nat]
    BY <1>1, LegType DEF Zero
  <2>. QED
    BY <1>1, <2>1, <2>2, <2>3, <2>4, <2>5, UnloadBooks
<1>5. ASSUME UNCHANGED <<stock, ledger, offer, loaded, exchange>>,
             \A l \in Legs : InTransit(l)' <=> InTransit(l)
      PROVE  BooksBalance'
  <2>1. ASSUME NEW k \in Kinds
        PROVE  /\ Stored(k)' = Stored(k) /\ Posted(k)' = Posted(k)
               /\ OnTheRoad(k)' = OnTheRoad(k) /\ Ordered(k)' = Ordered(k)
               /\ Exchanged(k)' = Exchanged(k) /\ Given(k)' = Given(k)
    <3>1. Ordered(k)' = Ordered(k) /\ Exchanged(k)' = Exchanged(k)
      BY <1>5, ExchangesUnchanged
    <3>. QED
      BY <1>5, <3>1 DEF Stored, Posted, OnTheRoad, Load, Given
  <2>2. \A k \in Kinds : Owned(k)' = Owned(k)
    BY <2>1 DEF Owned
  <2>. QED
    BY <2>1, <2>2 DEF BooksBalance
<1>6. ASSUME NEW l \in Legs, CancelLeg(l) PROVE BooksBalance'
  <2>1. \A m \in Legs : InTransit(m)' <=> InTransit(m)
    BY <1>1, <1>6 DEF CancelLeg, InTransit, Papers
  <2>. QED
    BY <1>5, <1>6, <2>1 DEF CancelLeg
<1>7. ASSUME \/ \E s \in Settlements : MarketLevelChanges(s)
             \/ \E e \in Events : StaleEvent(e) \/ RecordFailure(e)
             \/ UNCHANGED vars
      PROVE  BooksBalance'
  BY <1>5, <1>7 DEF MarketLevelChanges, StaleEvent, RecordFailure, vars, InTransit
<1>. QED
  BY <1>1, <1>2, <1>3, <1>4, <1>6, <1>7, CreateOfferBooks, AcceptBooks, StartExchangeBooks,
     CompleteExchangeBooks DEF Next

LEMMA InitBooks == Init => BooksBalance
<1>. SUFFICES ASSUME Init, NEW k \in Kinds
              PROVE  Owned(k) = Given(k) + SumFunction(Exchanged(k))
  BY DEF BooksBalance
<1>1. /\ Posted(k) \in [Offers -> Int] /\ OnTheRoad(k) \in [Legs -> Int]
      /\ Ordered(k) \in [Exchanges -> Int] /\ Exchanged(k) \in [Exchanges -> Int]
      /\ Stored(k) \in [Settlements -> Int]
  BY InitType, ColumnTypes DEF Columns
<1>2. /\ \A o \in Offers : Posted(k)[o] = 0
      /\ \A l \in Legs : OnTheRoad(k)[l] = 0
      /\ \A x \in Exchanges : Ordered(k)[x] = 0 /\ Exchanged(k)[x] = 0
  BY DEF Init, Posted, OnTheRoad, InTransit, Ordered, Exchanged
<1>3. SumFunction(Posted(k)) = 0
  BY <1>1, <1>2, TotalZero, MarketAssumption
<1>4. SumFunction(OnTheRoad(k)) = 0
  BY <1>1, <1>2, TotalZero, LegsFinite
<1>5. SumFunction(Ordered(k)) = 0 /\ SumFunction(Exchanged(k)) = 0
  BY <1>1, <1>2, TotalZero, MarketAssumption
<1>6. /\ Stored(k) = [s \in Settlements |-> Start[s][k]] /\ ledger[k] = 0
      /\ SumFunction(Stored(k)) \in Int
  <2>1. SumFunction(Stored(k)) \in Int
    BY <1>1, TotalInt, MarketAssumption
  <2>. QED
    BY <2>1 DEF Init, Stored, Zero
<1>. QED
  BY <1>3, <1>4, <1>5, <1>6 DEF Owned, Given

\* Everything that leaves storage for the market arrives somewhere once.
THEOREM Books_Always == Spec => []BooksBalance
<1>1. Init => RInv /\ BooksBalance
  BY InitReports, InitBooks
<1>. QED
  BY <1>1, ReportsStep, BooksStep, PTL DEF Spec

------------------------------------------------------------------------------
\* Value.

\* The floor of a quotient, times the divisor, is not more than the dividend.
LEMMA FloorBelow ==
    ASSUME NEW a \in Nat, NEW b \in Nat \ {0}
    PROVE  (a \div b) \in Nat /\ b * (a \div b) <= a
<1>1. a = b * (a \div b) + (a % b) /\ a % b >= 0 /\ (a \div b) \in Nat /\ a % b \in Nat
  OBVIOUS
<1>2. \A c \in Nat : b * c \in Nat
  OBVIOUS
<1>. QED
  BY <1>1, <1>2

\* An exchange never gives more value than it takes.
LEMMA OutputFair ==
    ASSUME NEW from \in Kinds, NEW to \in Kinds, NEW n \in Nat
    PROVE  Weight[to] * Output(from, to, n) <= Weight[from] * n
<1>1. PICK w \in Nat \ {0}, v \in Nat \ {0}, p \in 0..99 :
        Weight[from] = w /\ Weight[to] = v /\ SpreadPercent = p
  BY MarketAssumption
<1>. DEFINE a == n * w
            rest == 100 - p
            q == (a * rest) \div (100 * v)
<1>2. \A c, d \in Nat : c * d \in Nat
  OBVIOUS
<1>3. a \in Nat /\ rest \in Nat /\ rest <= 100 /\ a = w * n
  BY <1>1
<1>4. a * rest \in Nat /\ 100 * v \in Nat \ {0}
  BY <1>1, <1>2, <1>3
<1>5. q \in Nat /\ (100 * v) * q <= a * rest
  BY <1>4, FloorBelow
<1>6. Weight[to] * Output(from, to, n) = v * q
  BY <1>1 DEF Output
<1>. HIDE DEF a, rest, q
<1>7. a * rest <= 100 * a
  <2>1. \A c \in Nat : a * c \in Nat /\ a * (rest + c) = a * rest + a * c
    BY <1>3
  <2>2. PICK c \in Nat : rest + c = 100
    <3>1. 100 - rest \in Nat /\ rest + (100 - rest) = 100
      BY <1>3
    <3>. QED
      BY <3>1
  <2>3. a * 100 = a * rest + a * c /\ a * c \in Nat /\ a * 100 = 100 * a
    BY <1>3, <2>1, <2>2
  <2>. QED
    BY <1>4, <2>3
<1>8. (100 * v) * q = 100 * (v * q) /\ v * q \in Nat
  BY <1>1, <1>2, <1>5
<1>9. v * q <= a
  BY <1>3, <1>4, <1>5, <1>7, <1>8
<1>. QED
  BY <1>1, <1>3, <1>6, <1>9

\* The value of a bundle is that of its one kind.
LEMMA BundleValue ==
    ASSUME NEW side, side.kind \in Kinds, side.amount \in Nat
    PROVE  /\ [k \in Kinds |-> Weight[k] * Bundle(side)[k]] \in [Kinds -> Int]
           /\ SumFunction([k \in Kinds |-> Weight[k] * Bundle(side)[k]]) = Value(side)
<1>. DEFINE f == [k \in Kinds |-> Weight[k] * Bundle(side)[k]]
<1>1. \A k \in Kinds : Weight[k] \in Nat
  BY MarketAssumption
<1>2. \A a, b \in Nat : a * b \in Nat /\ a * 0 = 0
  OBVIOUS
<1>3. \A k \in Kinds : f[k] = IF k = side.kind THEN Value(side) ELSE 0
  BY <1>1, <1>2 DEF Bundle, Value
<1>4. Value(side) \in Nat
  BY <1>1, <1>2 DEF Value
<1>5. f \in [Kinds -> Int]
  BY <1>3, <1>4
<1>6. SumFunction(f) = f[side.kind]
  <2>. HIDE DEF f
  <2>. QED
    BY <1>3, <1>5, MarketAssumption, TotalSingle
<1>. QED
  BY <1>3, <1>5, <1>6

\* Nor does it leave its player with more, once it has started.
LEMMA ExchangeLoses ==
    ASSUME Papers, NEW x \in Exchanges, \A k \in Kinds : Exchanged(k)[x] \in Int
    PROVE  /\ [k \in Kinds |-> Weight[k] * Exchanged(k)[x]] \in [Kinds -> Int]
           /\ SumFunction([k \in Kinds |-> Weight[k] * Exchanged(k)[x]]) <= 0
<1>. DEFINE f == [k \in Kinds |-> Weight[k] * Exchanged(k)[x]]
            b == [k \in Kinds |-> Weight[k] * Bundle(Bought(x))[k]]
            a == [k \in Kinds |-> Weight[k] * Bundle(exchange[x].from)[k]]
<1>1. \A k \in Kinds : Weight[k] \in Nat
  BY MarketAssumption
<1>2. \A c, d \in Int : c * d \in Int /\ c * 0 = 0
  OBVIOUS
<1>3. f \in [Kinds -> Int]
  BY <1>1, <1>2
<1>4. CASE exchange[x].status = "none"
  <2>1. \A k \in Kinds : f[k] = 0
    BY <1>1, <1>2, <1>4 DEF Exchanged
  <2>2. SumFunction(f) = 0
    <3>. HIDE DEF f
    <3>. QED
      BY <1>3, <2>1, MarketAssumption, TotalZero
  <2>. QED
    BY <1>3, <2>2
<1>5. CASE exchange[x].status # "none"
  <2>1. /\ exchange[x].to \in Kinds /\ exchange[x].from \in Side
    BY DEF Papers, MarketExchange
  <2>2. exchange[x].from.kind \in Kinds /\ exchange[x].from.amount \in Nat
    BY <2>1, SideType
  <2>3. Bought(x).kind \in Kinds /\ Bought(x).amount \in Nat
    BY <2>1, <2>2, OutputType DEF Bought
  <2>4. a \in [Kinds -> Int] /\ SumFunction(a) = Value(exchange[x].from)
    BY <2>2, BundleValue
  <2>5. b \in [Kinds -> Int] /\ SumFunction(b) = Value(Bought(x))
    BY <2>3, BundleValue
  <2>6. Value(Bought(x)) <= Value(exchange[x].from)
    BY <2>1, <2>2, OutputFair DEF Value, Bought
  <2>7. ASSUME NEW k \in Kinds PROVE b[k] = f[k] + a[k]
    <3>1. PICK w \in Nat, c \in Int, d \in Int :
            Weight[k] = w /\ Bundle(Bought(x))[k] = c /\ Bundle(exchange[x].from)[k] = d
      BY <1>1, <2>2, <2>3, BundleType
    <3>2. Exchanged(k)[x] = c - d
      BY <1>5, <3>1 DEF Exchanged
    <3>3. w * c \in Int /\ w * d \in Int /\ w * (c - d) = w * c - w * d
      BY Distributes
    <3>. QED
      BY <3>1, <3>2, <3>3
  <2>8. SumFunction(b) = SumFunction(f) + SumFunction(a)
    <3>. HIDE DEF a, b, f
    <3>1. AddsUp(Kinds, f, a, b)
      BY <1>3, <2>4, <2>5, <2>7, MarketAssumption DEF AddsUp
    <3>. QED
      BY <3>1, TotalPlus
  <2>9. SumFunction(a) \in Int /\ SumFunction(f) \in Int
    <3>. HIDE DEF a, b, f
    <3>. QED
      BY <1>3, <2>4, MarketAssumption, TotalInt
  <2>10. SumFunction(f) <= 0
    <3>. HIDE DEF a, b, f
    <3>. QED
      BY <2>4, <2>5, <2>6, <2>8, <2>9
  <2>. QED
    BY <1>3, <2>10
<1>. QED
  BY <1>4, <1>5

\* The value the exchanges made of what they took, all kinds together.
LEMMA ExchangesLose ==
    ASSUME TypeOK
    PROVE  /\ [k \in Kinds |-> Weight[k] * SumFunction(Exchanged(k))] \in [Kinds -> Int]
           /\ SumFunction([k \in Kinds |-> Weight[k] * SumFunction(Exchanged(k))]) <= 0
<1>1. Papers /\ IsFiniteSet(Kinds) /\ IsFiniteSet(Exchanges)
  BY MarketAssumption DEF TypeOK
<1>2. \A k \in Kinds : Exchanged(k) \in [Exchanges -> Int] /\ Weight[k] \in Int
  BY ColumnTypes, MarketAssumption DEF Columns
<1>3. \A c, d \in Int : c * d \in Int
  OBVIOUS
<1>. DEFINE F == [c \in Kinds \X Exchanges |-> Weight[c[1]] * Exchanged(c[1])[c[2]]]
            Row(k) == [x \in Exchanges |-> F[<<k, x>>]]
            Column(x) == [k \in Kinds |-> F[<<k, x>>]]
            rows == [k \in Kinds |-> SumFunctionOnSet(Row(k), Exchanges)]
            columns == [x \in Exchanges |-> SumFunctionOnSet(Column(x), Kinds)]
            total == [k \in Kinds |-> Weight[k] * SumFunction(Exchanged(k))]
            zero == [x \in Exchanges |-> 0]
<1>4. \A k \in Kinds, x \in Exchanges :
        F[<<k, x>>] = Weight[k] * Exchanged(k)[x] /\ F[<<k, x>>] \in Int
  BY <1>2, <1>3
<1>5. ASSUME NEW k \in Kinds PROVE total[k] = rows[k] /\ rows[k] \in Int
  <2>1. \A x \in Exchanges : Exchanged(k)[x] \in Int /\ Row(k)[x] = Weight[k] * Exchanged(k)[x]
    BY <1>2, <1>4
  <2>2. SumFunctionOnSet(Row(k), Exchanges)
        = Weight[k] * SumFunctionOnSet(Exchanged(k), Exchanges)
    <3>. HIDE DEF F
    <3>1. Weight[k] \in Int
      BY <1>2
    <3>. HIDE DEF Row
    <3>. QED
      BY <1>1, <2>1, <3>1, SumTimes
  <2>3. SumFunction(Exchanged(k)) = SumFunctionOnSet(Exchanged(k), Exchanges)
    BY <1>2, TotalIs
  <2>4. SumFunctionOnSet(Row(k), Exchanges) \in Int
    <3>1. Row(k) \in [Exchanges -> Int]
      BY <1>4
    <3>. HIDE DEF Row
    <3>. QED
      BY <1>1, <3>1, SumInt
  <2>. QED
    BY <2>2, <2>3, <2>4
<1>6. ASSUME NEW x \in Exchanges PROVE columns[x] <= zero[x] /\ columns[x] \in Int
  <2>. DEFINE f == [k \in Kinds |-> Weight[k] * Exchanged(k)[x]]
  <2>1. f \in [Kinds -> Int] /\ SumFunction(f) <= 0
    BY <1>1, <1>2, ExchangeLoses
  <2>2. Column(x) = f
    BY <1>4
  <2>. HIDE DEF f, F, Column
  <2>3. columns[x] = SumFunctionOnSet(f, Kinds)
    BY <2>2
  <2>4. SumFunctionOnSet(f, Kinds) = SumFunction(f) /\ SumFunctionOnSet(f, Kinds) \in Int
    BY <1>1, <2>1, TotalIs, SumInt
  <2>. QED
    BY <2>1, <2>3, <2>4
<1>7. SumFunctionOnSet(rows, Kinds) = SumFunctionOnSet(columns, Exchanges)
  <2>. HIDE DEF F
  <2>. QED
    BY <1>1, <1>4, SumSwap
<1>8. SumFunctionOnSet(columns, Exchanges) <= 0
  <2>1. \A x \in Exchanges : zero[x] \in Int /\ zero[x] = 0
    OBVIOUS
  <2>2. SumFunctionOnSet(zero, Exchanges) = 0
    <3>. HIDE DEF zero
    <3>. QED
      BY <1>1, <2>1, SumZero
  <2>3. SumFunctionOnSet(columns, Exchanges) <= SumFunctionOnSet(zero, Exchanges)
    <3>. HIDE DEF zero, columns
    <3>. QED
      BY <1>1, <1>6, <2>1, SumAtMost
  <2>. QED
    BY <2>2, <2>3
<1>9. total \in [Kinds -> Int]
  <2>. HIDE DEF rows
  <2>. QED
    BY <1>5
<1>10. SumFunction(total) = SumFunctionOnSet(rows, Kinds)
  <2>. HIDE DEF total, rows
  <2>. QED
    BY <1>1, <1>5, <1>9, TotalIs, SumSame
<1>. QED
  BY <1>7, <1>8, <1>9, <1>10

\* When the books balance, the players have at most the value they were given.
LEMMA BalancedBooksPrintNothing ==
    ASSUME TypeOK, BooksBalance
    PROVE  NoValuePrinted
<1>. DEFINE total == [k \in Kinds |-> Weight[k] * SumFunction(Exchanged(k))]
            have == [k \in Kinds |-> Weight[k] * Owned(k)]
            got == [k \in Kinds |-> Weight[k] * Given(k)]
<1>1. total \in [Kinds -> Int] /\ SumFunction(total) <= 0
  BY ExchangesLose
<1>2. ASSUME NEW k \in Kinds
      PROVE  have[k] = got[k] + total[k] /\ have[k] \in Int /\ got[k] \in Int
  <2>1. SumFunction(Exchanged(k)) \in Int
    BY ColumnTypes, TotalInt, MarketAssumption DEF Columns
  <2>2. Given(k) \in Int
    <3>1. [s \in Settlements |-> Start[s][k]] \in [Settlements -> Int]
      BY MarketAssumption
    <3>2. SumFunction([s \in Settlements |-> Start[s][k]]) \in Int
      BY <3>1, TotalInt, MarketAssumption
    <3>. QED
      BY <3>2 DEF Given, TypeOK, Stocked
  <2>3. PICK w \in Nat : Weight[k] = w
    BY MarketAssumption
  <2>4. Owned(k) = Given(k) + SumFunction(Exchanged(k))
    BY DEF BooksBalance
  <2>5. /\ w * Given(k) \in Int /\ w * SumFunction(Exchanged(k)) \in Int
        /\ w * (Given(k) + SumFunction(Exchanged(k)))
           = w * Given(k) + w * SumFunction(Exchanged(k))
    BY <2>1, <2>2, Distributes
  <2>. QED
    BY <2>3, <2>4, <2>5
<1>3. have \in [Kinds -> Int] /\ got \in [Kinds -> Int]
  BY <1>2
<1>. HIDE DEF total, have, got
<1>4. SumFunction(have) = SumFunction(got) + SumFunction(total)
  <2>1. AddsUp(Kinds, got, total, have)
    BY <1>1, <1>2, <1>3, MarketAssumption DEF AddsUp
  <2>. QED
    BY <2>1, TotalPlus
<1>5. SumFunction(got) \in Int /\ SumFunction(total) \in Int
  BY <1>1, <1>3, TotalInt, MarketAssumption
<1>6. SumFunction(have) <= SumFunction(got)
  BY <1>1, <1>4, <1>5
<1>. QED
  BY <1>6 DEF NoValuePrinted, have, got

\* No run of posts, trades and exchanges prints value, for any spread below 100%
\* and any weights of the kinds.
THEOREM NoValuePrinted_Always == Spec => []NoValuePrinted
<1>1. Init => RInv /\ BooksBalance
  BY InitReports, InitBooks
<1>2. RInv /\ BooksBalance => NoValuePrinted
  BY BalancedBooksPrintNothing DEF RInv
<1>. QED
  BY <1>1, <1>2, ReportsStep, BooksStep, PTL DEF Spec

------------------------------------------------------------------------------
\* What is waited for has an event, on which liveness rests: an open offer its
\* expiry, a leg under way its arrival or its return, a pending exchange its
\* completion.  The event is due, or failed for good where it can be seen.
Live == {"due", "failed"}

OffersLapse ==
    \A o \in Offers : offer[o].status = "open" => event[<<"expire", o>>] \in Live
LegsMove ==
    \A l \in Legs : /\ leg[l] = "outbound" => event[<<"arrive", l>>] \in Live
                    /\ leg[l] = "returning" => event[<<"return", l>>] \in Live
ExchangesEnd ==
    \A x \in Exchanges : exchange[x].status = "pending" => event[<<"complete", x>>] \in Live

WInv == TypeOK /\ OffersLapse /\ LegsMove /\ ExchangesEnd

WaitsOnAnEvent == \A e \in Events : Awaited(e) => event[e] \in Live

LEMMA WaitsImplied == WInv => WaitsOnAnEvent
<1>. SUFFICES ASSUME WInv, NEW e \in Events, Awaited(e) PROVE event[e] \in Live
  BY DEF WaitsOnAnEvent
<1>1. CASE e \in {"expire"} \X Offers
  <2>1. PICK o \in Offers : e = <<"expire", o>>
    BY <1>1
  <2>. QED
    BY <2>1 DEF Awaited, WInv, OffersLapse
<1>2. CASE e \in {"arrive", "return"} \X Legs
  <2>1. PICK t \in {"arrive", "return"}, l \in Legs : e = <<t, l>>
    BY <1>2
  <2>. QED
    BY <2>1 DEF Awaited, WInv, LegsMove
<1>3. CASE e \in {"complete"} \X Exchanges
  <2>1. PICK x \in Exchanges : e = <<"complete", x>>
    BY <1>3
  <2>. QED
    BY <2>1 DEF Awaited, WInv, ExchangesEnd
<1>. QED
  BY <1>1, <1>2, <1>3 DEF Events

LEMMA EventNames ==
    /\ \A o \in Offers : <<"expire", o>> \in Events
    /\ \A l \in Legs : <<"arrive", l>> \in Events /\ <<"return", l>> \in Events
    /\ \A x \in Exchanges : <<"complete", x>> \in Events
BY DEF Events

\* What the three changes of an event do to it and to the others.
LEMMA EventValues ==
    ASSUME NEW f \in [Events -> EventStatus], NEW e \in Events, NEW d \in Events
    PROVE  /\ Schedule(f, e)[d] = IF d = e THEN "due" ELSE f[d]
           /\ d # e => Delete(f, e)[d] = f[d] /\ Done(f, e)[d] = f[d]
BY DEF Schedule, Delete, Done

\* A command or handler of an offer says nothing of the events of others.
LEMMA OfferWaits ==
    ASSUME WInv, NEW o \in Offers,
           \/ \E s \in Settlements : CreateOffer(o, s)
           \/ CancelOffer(o) \/ Expire(o)
    PROVE  (OffersLapse /\ LegsMove /\ ExchangesEnd)'
<1>1. event \in [Events -> EventStatus] /\ offer \in [Offers -> TradeOffer]
  BY DEF WInv, TypeOK, Papers
<1>2. leg' = leg /\ exchange' = exchange
  BY DEF CreateOffer, CancelOffer, Expire, Refund
<1>3. \/ event' = Schedule(event, <<"expire", o>>)
      \/ /\ event' \in {Delete(event, <<"expire", o>>), Done(event, <<"expire", o>>)}
         /\ offer'[o].status # "open"
  BY <1>1 DEF CreateOffer, CancelOffer, Expire, Refund, TradeOffer
<1>4. \A q \in Offers : q # o => offer'[q] = offer[q]
  BY <1>1 DEF CreateOffer, CancelOffer, Expire, Refund
<1>5. \A d \in Events : d # <<"expire", o>> => event'[d] = event[d]
  BY <1>1, <1>3, EventNames, EventValues
<1>6. OffersLapse'
  <2>1. offer'[o].status = "open" => event'[<<"expire", o>>] \in Live
    BY <1>1, <1>3, EventNames, EventValues DEF Live
  <2>2. \A q \in Offers : q # o => event'[<<"expire", q>>] = event[<<"expire", q>>]
    BY <1>5, EventNames
  <2>. QED
    BY <1>4, <2>1, <2>2 DEF WInv, OffersLapse
<1>7. LegsMove'
  BY <1>2, <1>5, EventNames DEF WInv, LegsMove
<1>8. ExchangesEnd'
  BY <1>2, <1>5, EventNames DEF WInv, ExchangesEnd
<1>. QED
  BY <1>6, <1>7, <1>8

LEMMA AcceptOfferWaits ==
    ASSUME WInv, NEW o \in Offers, NEW s \in Settlements, AcceptOffer(o, s)
    PROVE  (OffersLapse /\ LegsMove /\ ExchangesEnd)'
<1>1. event \in [Events -> EventStatus] /\ offer \in [Offers -> TradeOffer]
  BY DEF WInv, TypeOK, Papers
<1>2. /\ offer'[o].status # "open"
      /\ \A q \in Offers : q # o => offer'[q] = offer[q]
      /\ exchange' = exchange
      /\ \A l \in Legs : leg'[l] = IF l[1] = o THEN "outbound" ELSE leg[l]
  BY <1>1 DEF AcceptOffer, TradeOffer
<1>3. \A d \in Events : event'[d] = IF d[1] = "arrive" /\ d[2][1] = o THEN "due"
                                    ELSE Delete(event, <<"expire", o>>)[d]
  BY DEF AcceptOffer
<1>4. \A d \in Events : d # <<"expire", o>> => event'[d] \in {"due", event[d]}
  BY <1>1, <1>3, EventNames, EventValues
<1>5. \A l \in Legs : l[1] = o => event'[<<"arrive", l>>] = "due"
  BY <1>3, EventNames
<1>6. OffersLapse'
  <2>1. \A q \in Offers : q # o => event'[<<"expire", q>>] \in {"due", event[<<"expire", q>>]}
    BY <1>4, EventNames
  <2>. QED
    BY <1>2, <2>1 DEF WInv, OffersLapse, Live
<1>7. LegsMove'
  BY <1>2, <1>4, <1>5, EventNames DEF WInv, LegsMove, Live
<1>8. ExchangesEnd'
  BY <1>2, <1>4, EventNames DEF WInv, ExchangesEnd, Live
<1>. QED
  BY <1>6, <1>7, <1>8

LEMMA LegWaits ==
    ASSUME WInv, NEW l \in Legs, CancelLeg(l) \/ Arrive(l) \/ Return(l)
    PROVE  (OffersLapse /\ LegsMove /\ ExchangesEnd)'
<1>1. event \in [Events -> EventStatus]
      /\ leg \in [Legs -> {"none", "outbound", "returning", "done"}]
  BY DEF WInv, TypeOK, Papers
<1>2. offer' = offer /\ exchange' = exchange
  BY DEF CancelLeg, Arrive, Return
<1>3. \A m \in Legs : m # l => leg'[m] = leg[m]
  BY <1>1 DEF CancelLeg, Arrive, Return
<1>. DEFINE a == <<"arrive", l>>
            r == <<"return", l>>
<1>4. a \in Events /\ r \in Events /\ a # r
  BY EventNames
<1>5. Delete(event, a) \in [Events -> EventStatus] /\ Done(event, a) \in [Events -> EventStatus]
  BY <1>1, EventTypes
<1>6. \/ /\ event' \in {Schedule(Delete(event, a), r), Schedule(Done(event, a), r)}
         /\ leg'[l] = "returning"
      \/ event' = Done(event, r) /\ leg'[l] = "done"
  BY <1>1 DEF CancelLeg, Arrive, Return
<1>. HIDE DEF a, r
<1>7. \A d \in Events : d \notin {a, r} => event'[d] = event[d]
  BY <1>1, <1>4, <1>5, <1>6, EventValues
<1>8. leg'[l] # "outbound" /\ (leg'[l] = "returning" => event'[r] = "due")
  BY <1>4, <1>5, <1>6, EventValues
<1>. USE DEF a, r
<1>9. OffersLapse' /\ ExchangesEnd'
  BY <1>2, <1>7, EventNames DEF WInv, OffersLapse, ExchangesEnd
<1>10. LegsMove'
  BY <1>3, <1>7, <1>8, EventNames DEF WInv, LegsMove, Live
<1>. QED
  BY <1>9, <1>10

LEMMA ExchangeWaits ==
    ASSUME WInv, NEW x \in Exchanges,
           (\E s \in Settlements : StartExchange(x, s)) \/ CompleteExchange(x)
    PROVE  (OffersLapse /\ LegsMove /\ ExchangesEnd)'
<1>1. event \in [Events -> EventStatus] /\ exchange \in [Exchanges -> MarketExchange]
  BY DEF WInv, TypeOK, Papers
<1>2. offer' = offer /\ leg' = leg
  BY DEF StartExchange, CompleteExchange
<1>3. \/ event' = Schedule(event, <<"complete", x>>)
      \/ event' = Done(event, <<"complete", x>>) /\ exchange'[x].status # "pending"
  BY <1>1 DEF StartExchange, CompleteExchange, MarketExchange
<1>4. \A y \in Exchanges : y # x => exchange'[y] = exchange[y]
  BY <1>1 DEF StartExchange, CompleteExchange
<1>5. \A d \in Events : d # <<"complete", x>> => event'[d] = event[d]
  BY <1>1, <1>3, EventNames, EventValues
<1>6. OffersLapse' /\ LegsMove'
  BY <1>2, <1>5, EventNames DEF WInv, OffersLapse, LegsMove
<1>7. exchange'[x].status = "pending" => event'[<<"complete", x>>] = "due"
  BY <1>1, <1>3, EventNames, EventValues
<1>8. ExchangesEnd'
  BY <1>4, <1>5, <1>7, EventNames DEF WInv, ExchangesEnd, Live
<1>. QED
  BY <1>6, <1>8

\* An event that is only marked was not waited for.
LEMMA MarkWaits ==
    ASSUME WInv, NEW e \in Events, StaleEvent(e) \/ RecordFailure(e)
    PROVE  (OffersLapse /\ LegsMove /\ ExchangesEnd)'
<1>1. event \in [Events -> EventStatus]
  BY DEF WInv, TypeOK, Papers
<1>2. offer' = offer /\ leg' = leg /\ exchange' = exchange
  BY DEF StaleEvent, RecordFailure
<1>3. \A d \in Events : d # e => event'[d] = event[d]
  <2>1. CASE StaleEvent(e)
    BY <1>1, <2>1, EventValues DEF StaleEvent
  <2>2. CASE RecordFailure(e)
    BY <1>1, <2>2 DEF RecordFailure
  <2>. QED
    BY <2>1, <2>2
<1>4. Awaited(e) => event'[e] \in Live
  BY <1>1 DEF StaleEvent, RecordFailure, Live
<1>5. ASSUME NEW o \in Offers, offer[o].status = "open"
      PROVE  event'[<<"expire", o>>] \in Live
  <2>1. Awaited(<<"expire", o>>)
    BY <1>5 DEF Awaited
  <2>. QED
    BY <1>3, <1>4, <1>5, <2>1, EventNames DEF WInv, OffersLapse
<1>6. ASSUME NEW l \in Legs, leg[l] = "outbound" PROVE event'[<<"arrive", l>>] \in Live
  <2>1. Awaited(<<"arrive", l>>)
    BY <1>6 DEF Awaited
  <2>. QED
    BY <1>3, <1>4, <1>6, <2>1, EventNames DEF WInv, LegsMove
<1>7. ASSUME NEW l \in Legs, leg[l] = "returning" PROVE event'[<<"return", l>>] \in Live
  <2>1. Awaited(<<"return", l>>)
    BY <1>7 DEF Awaited
  <2>. QED
    BY <1>3, <1>4, <1>7, <2>1, EventNames DEF WInv, LegsMove
<1>8. ASSUME NEW x \in Exchanges, exchange[x].status = "pending"
      PROVE  event'[<<"complete", x>>] \in Live
  <2>1. Awaited(<<"complete", x>>)
    BY <1>8 DEF Awaited
  <2>. QED
    BY <1>3, <1>4, <1>8, <2>1, EventNames DEF WInv, ExchangesEnd
<1>. QED
  BY <1>2, <1>5, <1>6, <1>7, <1>8 DEF OffersLapse, LegsMove, ExchangesEnd

LEMMA WaitsStep == WInv /\ [Next]_vars => WInv'
<1>. SUFFICES ASSUME WInv, [Next]_vars PROVE WInv'
  OBVIOUS
<1>1. TypeOK'
  BY TypeStep DEF WInv
<1>2. ASSUME \/ UNCHANGED vars
             \/ \E s \in Settlements : MarketLevelChanges(s)
      PROVE  (OffersLapse /\ LegsMove /\ ExchangesEnd)'
  <2>1. offer' = offer /\ leg' = leg /\ exchange' = exchange /\ event' = event
    BY <1>2 DEF vars, MarketLevelChanges
  <2>. QED
    BY <2>1 DEF WInv, OffersLapse, LegsMove, ExchangesEnd
<1>. QED
  BY <1>1, <1>2, OfferWaits, AcceptOfferWaits, LegWaits, ExchangeWaits, MarkWaits
  DEF Next, WInv

\* Nothing in the market waits for an event that does not exist: whatever is
\* cancelled, repeated or late, merchants, goods and offers under way have one
\* that is due or dead-lettered.
THEOREM NothingForgotten == Spec => []WaitsOnAnEvent
<1>1. Init => WInv
  BY InitType DEF Init, WInv, OffersLapse, LegsMove, ExchangesEnd
<1>. QED
  BY <1>1, WaitsStep, WaitsImplied, PTL DEF Spec
==============================================================================
