-------------------------------- MODULE Market --------------------------------
(***************************************************************************)
(* The market (apps/server/src/market): offers whose goods are taken from  *)
(* storage when they are posted, the two trade movements of an accepted    *)
(* offer, exchanges with the world, the merchants all of these occupy, and *)
(* the one report each party gets of a trade.                              *)
(*                                                                         *)
(* A command or a handler is one transaction, retried on a conflict, and   *)
(* so one step.  It first settles the settlements it touches: what they    *)
(* produced and ate since is one of Gains.  Starvation has the tick that   *)
(* settling arms.  As in Movements, a scheduled event may be handled at    *)
(* any time, more than once and after it was deleted; times are left open. *)
(*                                                                         *)
(* Storage caps are fixed: a siege that lowers one cuts the stock with it. *)
(* Settlements are never deleted, so every leg has a target.               *)
(***************************************************************************)
EXTENDS Integers, FiniteSets, Functions

CONSTANTS
    Settlements, Accounts,
    Owner,          \* Owner[s]: the account of a settlement
    Capacity,       \* Capacity[s]: what a merchant of the owner's faction carries
    Start,          \* Start[s][k]: what is stored at first
    Cap,            \* Cap[s]: what can be stored of each kind
    PerLevel, MaxLevel,       \* merchants per Market level, its highest level
    Kinds, Weight, MaxRatio,  \* resource kinds, their values, the ratio cap
    SpreadPercent,  \* what an exchange loses
    Amounts,        \* the amounts players ask for
    Gains,          \* net production since the last settle, one number a kind
    Offers, Exchanges         \* ids, each used once

ASSUME MarketAssumption ==
    /\ Settlements # {} /\ Kinds # {} /\ Amounts # {}
    /\ IsFiniteSet(Settlements) /\ IsFiniteSet(Kinds)
    /\ IsFiniteSet(Offers) /\ IsFiniteSet(Exchanges)
    /\ Owner \in [Settlements -> Accounts]
    /\ Capacity \in [Settlements -> Nat \ {0}] /\ Cap \in [Settlements -> Nat]
    /\ PerLevel \in Nat \ {0} /\ MaxLevel \in Nat \ {0}
    /\ Weight \in [Kinds -> Nat \ {0}] /\ MaxRatio \in Nat \ {0}
    /\ SpreadPercent \in 0..99 /\ Amounts \subseteq Nat \ {0}
    /\ Gains \subseteq [Kinds -> Int]
    /\ Start \in [Settlements -> [Kinds -> Nat]]
    /\ \A s \in Settlements, k \in Kinds : Start[s][k] <= Cap[s]

VARIABLES
    stock,       \* Settlement.resources.values
    level,       \* the level of the settlement's Market
    busy,        \* Settlement.busyMerchants
    offer,       \* TradeOffer documents
    leg, loaded, \* Movement.status of a trade's legs, whether cargo is set
    exchange,    \* MarketExchange documents
    event,       \* status of the events of all these
    docs, told,  \* trade reports of an account about an offer, what they say
    ledger       \* history: what the world was given since, less what overflowed

vars == <<stock, level, busy, offer, leg, loaded, exchange, event, docs, told, ledger>>

\* An accepted offer <<o, "give">> goes to who accepted, <<o, "want">> back.
Sides == {"give", "want"}
Legs == Offers \X Sides
Events == ({"expire"} \X Offers) \cup ({"arrive", "return"} \X Legs)
          \cup ({"complete"} \X Exchanges)

Side == [kind : Kinds, amount : Amounts]
Bundle(side) == [k \in Kinds |-> IF k = side.kind THEN side.amount ELSE 0]
Plus(a, b) == [k \in Kinds |-> a[k] + b[k]]
Minus(a, b) == [k \in Kinds |-> a[k] - b[k]]
Zero == [k \in Kinds |-> 0]
AtMost(n, m) == IF n < m THEN n ELSE m
Clamped(s, r) == [k \in Kinds |-> AtMost(Cap[s], r[k])]

\* weightedResourceValue, isOfferRatioLegal, merchantsNeededFor, exchangeOutput
\* (rounded down here, a float in the code), and the merchants at home.
Value(side) == Weight[side.kind] * side.amount
LegalOffer(give, want) ==
    /\ give.kind # want.kind
    /\ Value(give) <= MaxRatio * Value(want) /\ Value(want) <= MaxRatio * Value(give)
Needed(s, n) == (n + Capacity[s] - 1) \div Capacity[s]
OutputSwapped(from, to, n) ==  \* fault: the rate is upside down
    (n * Weight[to] * (100 - SpreadPercent)) \div (100 * Weight[from])
Output(from, to, n) == (n * Weight[from] * (100 - SpreadPercent)) \div (100 * Weight[to])
Free(s) == PerLevel * level[s] - busy[s]

Somewhere == CHOOSE s \in Settlements : TRUE
Nothing == CHOOSE side \in Side : TRUE

Init ==
    /\ stock = Start
    /\ level \in [Settlements -> 1..MaxLevel]
    /\ busy = [s \in Settlements |-> 0]
    /\ offer = [o \in Offers |-> [status |-> "none", home |-> Somewhere, taker |-> Somewhere,
                                  give |-> Nothing, want |-> Nothing]]
    /\ leg = [l \in Legs |-> "none"]
    /\ loaded = [l \in Legs |-> FALSE]
    /\ exchange = [x \in Exchanges |-> [status |-> "none", home |-> Somewhere,
                                        from |-> Nothing, to |-> Nothing.kind]]
    /\ event = [e \in Events |-> "none"]
    /\ docs = [r \in Accounts \X Offers |-> 0]
    /\ told = [r \in Accounts \X Offers |-> {}]
    /\ ledger = Zero

------------------------------------------------------------------------------
\* One settlement.

\* settleResources: production halts at the cap, nothing falls below zero.
Settled(s, g) == [k \in Kinds |-> IF stock[s][k] + g[k] < 0 THEN 0
                                  ELSE AtMost(Cap[s], stock[s][k] + g[k])]
Grown(s, g) == Minus(Settled(s, g), stock[s])
Affords(s, g, side) == Settled(s, g)[side.kind] >= side.amount
Left(s, g, side) == Minus(Settled(s, g), Bundle(side))

\* The settlement pays a price it can afford.
Pay(s, g, side) ==
    /\ Affords(s, g, side)
    /\ stock' = [stock EXCEPT ![s] = Left(s, g, side)]
    /\ ledger' = Plus(ledger, Grown(s, g))

\* creditResourcesClamped, computeOfferRefund: what exceeds the cap is lost.
Credit(s, g, bundle) ==
    LET after == Clamped(s, Plus(Settled(s, g), bundle)) IN
    /\ stock' = [stock EXCEPT ![s] = after]
    /\ ledger' = Plus(ledger, Minus(after, Plus(stock[s], bundle)))

\* busyMerchants is floored at zero.
Back(s, n) == busy' = [busy EXCEPT ![s] = IF n < @ THEN @ - n ELSE 0]

Schedule(f, e) == [f EXCEPT ![e] = "due"]
Delete(f, e) == [f EXCEPT ![e] = "deleted"]
Done(f, e) == [f EXCEPT ![e] = IF @ = "deleted" THEN @ ELSE "done"]
Handled(e) == event[e] # "none"

------------------------------------------------------------------------------
\* Commands.

\* createOffer: the goods leave storage, no merchant is reserved.
CreateOffer(o, s) ==
    /\ offer[o].status = "none" /\ level[s] >= 1
    /\ \E give, want \in Side, g \in Gains :
         /\ LegalOffer(give, want)
         /\ Pay(s, g, give)
         /\ offer' = [offer EXCEPT ![o] = [status |-> "open", home |-> s, taker |-> s,
                                           give |-> give, want |-> want]]
    /\ event' = Schedule(event, <<"expire", o>>)
    /\ UNCHANGED <<level, busy, leg, loaded, exchange, docs, told>>

\* The refund of cancelOffer and of the expiry.
Refund(o, g, status) ==
    /\ Credit(offer[o].home, g, Bundle(offer[o].give))
    /\ offer' = [offer EXCEPT ![o].status = status]
    /\ UNCHANGED <<level, busy, leg, loaded, exchange, docs, told>>

CancelOffer(o) ==
    /\ offer[o].status = "open"
    /\ \E g \in Gains : Refund(o, g, "cancelled")
    /\ event' = Delete(event, <<"expire", o>>)

\* The merchants a leg occupies at the settlement that sends it.
Sender(l) == IF l[2] = "give" THEN offer[l[1]].home ELSE offer[l[1]].taker
Receiver(l) == IF l[2] = "give" THEN offer[l[1]].taker ELSE offer[l[1]].home
Load(l) == offer[l[1]][l[2]]
Merchants(l) == Needed(Sender(l), Load(l).amount)

\* acceptOffer: both settlements must have merchants, the accepter also pays.
\* Its expiry is deleted, whether or not its time has passed.
AcceptOffer(o, s) ==
    LET home == offer[o].home  give == offer[o].give  want == offer[o].want IN
    /\ offer[o].status = "open"
    /\ Owner[s] # Owner[home]
    /\ level[s] >= 1
    /\ Free(home) >= Needed(home, give.amount)
    /\ Free(s) >= Needed(s, want.amount)
    /\ \E g, h \in Gains :
         /\ Affords(s, g, want)
         /\ stock' = [stock EXCEPT ![s] = Left(s, g, want), ![home] = Settled(home, h)]
         /\ ledger' = Plus(ledger, Plus(Grown(s, g), Grown(home, h)))
    /\ busy' = [busy EXCEPT ![s] = @ + Needed(s, want.amount),
                            ![home] = @ + Needed(home, give.amount)]
    /\ offer' = [offer EXCEPT ![o].status = "accepted", ![o].taker = s]
    /\ leg' = [l \in Legs |-> IF l[1] = o THEN "outbound" ELSE leg[l]]
    /\ loaded' = [l \in Legs |-> l[1] = o \/ loaded[l]]
    /\ event' = [e \in Events |-> IF e[1] = "arrive" /\ e[2][1] = o THEN "due"
                                  ELSE Delete(event, <<"expire", o>>)[e]]
    /\ UNCHANGED <<level, exchange, docs, told>>

CancelLegUnscheduled(l) ==  \* fault: nothing brings the merchants home
    /\ leg[l] = "outbound"
    /\ leg' = [leg EXCEPT ![l] = "returning"]
    /\ event' = Delete(event, <<"arrive", l>>)
    /\ UNCHANGED <<stock, level, busy, offer, loaded, exchange, docs, told, ledger>>

\* cancelMovement, which asks no type: the cargo stays set and rides home.
CancelLeg(l) ==
    /\ leg[l] = "outbound"
    /\ leg' = [leg EXCEPT ![l] = "returning"]
    /\ event' = Schedule(Delete(event, <<"arrive", l>>), <<"return", l>>)
    /\ UNCHANGED <<stock, level, busy, offer, loaded, exchange, docs, told, ledger>>

StartExchange(x, s) ==
    /\ exchange[x].status = "none" /\ level[s] >= 1
    /\ \E from \in Side, to \in Kinds, g \in Gains :
         /\ from.kind # to
         /\ Pay(s, g, from)
         /\ Free(s) >= Needed(s, from.amount)
         /\ busy' = [busy EXCEPT ![s] = @ + Needed(s, from.amount)]
         /\ exchange' = [exchange EXCEPT ![x] = [status |-> "pending", home |-> s,
                                                 from |-> from, to |-> to]]
    /\ event' = Schedule(event, <<"complete", x>>)
    /\ UNCHANGED <<level, offer, leg, loaded, docs, told>>

\* A siege takes a level of the Market, or an upgrade lands.
MarketLevelChanges(s) ==
    /\ level' = [level EXCEPT ![s] = @ - 1] \/ level' = [level EXCEPT ![s] = @ + 1]
    /\ level'[s] \in 0..MaxLevel
    /\ UNCHANGED <<stock, busy, offer, leg, loaded, exchange, event, docs, told, ledger>>

------------------------------------------------------------------------------
\* Handlers.

Expire(o) ==
    /\ Handled(<<"expire", o>>) /\ offer[o].status = "open"
    /\ \E g \in Gains : Refund(o, g, "expired")
    /\ event' = Done(event, <<"expire", o>>)

TellAgain(a, o, what) ==  \* fault: each writer creates its report
    /\ docs' = [docs EXCEPT ![<<a, o>>] = @ + 1]
    /\ told' = [told EXCEPT ![<<a, o>>] = {what}]

\* The upsert of the one report of an account about an offer.
Tell(a, o, what) ==
    /\ docs' = [docs EXCEPT ![<<a, o>>] = IF @ = 0 THEN 1 ELSE @]
    /\ told' = [told EXCEPT ![<<a, o>>] = @ \cup {what}]

ArriveLoaded(l) ==  \* fault: cargo stays set after the delivery
    /\ Handled(<<"arrive", l>>) /\ leg[l] = "outbound"
    /\ \E g \in Gains : Credit(Receiver(l), g, Bundle(Load(l)))
    /\ Tell(Owner[Receiver(l)], l[1], "delivered")
    /\ leg' = [leg EXCEPT ![l] = "returning"]
    /\ event' = Schedule(Done(event, <<"arrive", l>>), <<"return", l>>)
    /\ UNCHANGED <<level, busy, offer, loaded, exchange>>

\* movementArrive: the cargo is delivered and unset, the merchants turn back.
Arrive(l) ==
    /\ Handled(<<"arrive", l>>) /\ leg[l] = "outbound"
    /\ \E g \in Gains : Credit(Receiver(l), g, Bundle(Load(l)))
    /\ Tell(Owner[Receiver(l)], l[1], "delivered")
    /\ leg' = [leg EXCEPT ![l] = "returning"]
    /\ loaded' = [loaded EXCEPT ![l] = FALSE]
    /\ event' = Schedule(Done(event, <<"arrive", l>>), <<"return", l>>)
    /\ UNCHANGED <<level, busy, offer, exchange>>

ReturnUnguarded(l) ==  \* fault: a replay frees merchants again
    /\ Handled(<<"return", l>>)
    /\ \E g \in Gains : Credit(Sender(l), g, IF loaded[l] THEN Bundle(Load(l)) ELSE Zero)
    /\ Back(Sender(l), Merchants(l))
    /\ Tell(Owner[Sender(l)], l[1], "freed")
    /\ leg' = [leg EXCEPT ![l] = "done"]
    /\ event' = Done(event, <<"return", l>>)
    /\ UNCHANGED <<level, offer, loaded, exchange>>

\* movementReturn: the merchants are free, and cargo still set is kept.
Return(l) ==
    /\ Handled(<<"return", l>>) /\ leg[l] = "returning"
    /\ \E g \in Gains : Credit(Sender(l), g, IF loaded[l] THEN Bundle(Load(l)) ELSE Zero)
    /\ Back(Sender(l), Merchants(l))
    /\ Tell(Owner[Sender(l)], l[1], "freed")
    /\ leg' = [leg EXCEPT ![l] = "done"]
    /\ event' = Done(event, <<"return", l>>)
    /\ UNCHANGED <<level, offer, loaded, exchange>>

Bought(x) == [kind |-> exchange[x].to,
              amount |-> Output(exchange[x].from.kind, exchange[x].to, exchange[x].from.amount)]

CompleteExchange(x) ==
    LET home == exchange[x].home IN
    /\ Handled(<<"complete", x>>) /\ exchange[x].status = "pending"
    /\ \E g \in Gains : Credit(home, g, Bundle(Bought(x)))
    /\ Back(home, Needed(home, exchange[x].from.amount))
    /\ exchange' = [exchange EXCEPT ![x].status = "completed"]
    /\ event' = Done(event, <<"complete", x>>)
    /\ UNCHANGED <<level, offer, leg, loaded, docs, told>>

\* Whether the handler of e would still do something.
Awaited(e) ==
    \/ e[1] = "expire" /\ offer[e[2]].status = "open"
    \/ e[1] = "arrive" /\ leg[e[2]] = "outbound"
    \/ e[1] = "return" /\ leg[e[2]] = "returning"
    \/ e[1] = "complete" /\ exchange[e[2]].status = "pending"

\* A late or repeated event is only marked.
StaleEvent(e) ==
    /\ Handled(e) /\ ~Awaited(e)
    /\ event' = Done(event, e)
    /\ UNCHANGED <<stock, level, busy, offer, leg, loaded, exchange, docs, told, ledger>>

\* The event is dead-lettered.  A stale worker that writes it back to due
\* does so a bounded number of times, as if this had come later.  Of an event
\* nobody waits for, the handling changes nothing.
RecordFailure(e) ==
    /\ event[e] = "due" /\ Awaited(e)
    /\ event' = [event EXCEPT ![e] = "failed"]
    /\ UNCHANGED <<stock, level, busy, offer, leg, loaded, exchange, docs, told, ledger>>

Next ==
    \/ \E o \in Offers :
         \/ \E s \in Settlements : CreateOffer(o, s) \/ AcceptOffer(o, s)
         \/ CancelOffer(o) \/ Expire(o)
    \/ \E l \in Legs : CancelLeg(l) \/ Arrive(l) \/ Return(l)
    \/ \E x \in Exchanges :
         (\E s \in Settlements : StartExchange(x, s)) \/ CompleteExchange(x)
    \/ \E s \in Settlements : MarketLevelChanges(s)
    \/ \E e \in Events : StaleEvent(e) \/ RecordFailure(e)

Spec == Init /\ [][Next]_vars

\* The scheduler handles or dead-letters what stays due (EventuallyResolved of
\* Scheduler).
FairSpec ==
    /\ Spec
    /\ \A o \in Offers : WF_vars(event[<<"expire", o>>] = "due" /\ Expire(o))
    /\ \A l \in Legs : /\ WF_vars(event[<<"arrive", l>>] = "due" /\ Arrive(l))
                       /\ WF_vars(event[<<"return", l>>] = "due" /\ Return(l))
    /\ \A x \in Exchanges :
         WF_vars(event[<<"complete", x>>] = "due" /\ CompleteExchange(x))

------------------------------------------------------------------------------
\* Properties.

TradeOffer == [status : {"none", "open", "accepted", "cancelled", "expired"},
               home : Settlements, taker : Settlements, give : Side, want : Side]
MarketExchange == [status : {"none", "pending", "completed"},
                   home : Settlements, from : Side, to : Kinds]
EventStatus == {"none", "due", "done", "deleted", "failed"}

\* Storage holds between nothing and its cap; the documents are what they can be.
Stocked ==
    /\ stock \in [Settlements -> [Kinds -> Nat]]
    /\ \A s \in Settlements, k \in Kinds : stock[s][k] <= Cap[s]
    /\ ledger \in [Kinds -> Int]

Papers ==
    /\ level \in [Settlements -> 0..MaxLevel] /\ busy \in [Settlements -> Nat]
    /\ offer \in [Offers -> TradeOffer]
    /\ leg \in [Legs -> {"none", "outbound", "returning", "done"}]
    /\ loaded \in [Legs -> BOOLEAN]
    /\ exchange \in [Exchanges -> MarketExchange]
    /\ event \in [Events -> EventStatus]
    /\ docs \in [Accounts \X Offers -> Nat]
    /\ told \in [Accounts \X Offers -> SUBSET {"delivered", "freed"}]

TypeOK == Stocked /\ Papers

InTransit(l) == leg[l] \in {"outbound", "returning"}

\* Where the goods of kind k are: in storage, posted on the board, on the road,
\* bought and not yet there.
Stored(k) == [s \in Settlements |-> stock[s][k]]
Posted(k) ==
    [o \in Offers |-> IF offer[o].status = "open" THEN Bundle(offer[o].give)[k] ELSE 0]
OnTheRoad(k) ==
    [l \in Legs |-> IF InTransit(l) /\ loaded[l] THEN Bundle(Load(l))[k] ELSE 0]
Ordered(k) ==
    [x \in Exchanges |-> IF exchange[x].status = "pending" THEN Bundle(Bought(x))[k] ELSE 0]

Owned(k) == SumFunction(Stored(k)) + SumFunction(Posted(k)) + SumFunction(OnTheRoad(k))
            + SumFunction(Ordered(k))

\* What the players started with and were given since, and what their exchanges
\* with the world made of it.
Given(k) == SumFunction([s \in Settlements |-> Start[s][k]]) + ledger[k]
Exchanged(k) ==
    [x \in Exchanges |-> IF exchange[x].status = "none" THEN 0
                         ELSE Bundle(Bought(x))[k] - Bundle(exchange[x].from)[k]]

\* Everything an offer, a trade or an exchange takes out of storage arrives
\* somewhere once: acceptance, cancellation, expiry and repeated or late events
\* never pay it twice or not at all.
BooksBalance == \A k \in Kinds : Owned(k) = Given(k) + SumFunction(Exchanged(k))

\* No run of posts, trades and exchanges leaves the players with more value
\* than production gave them ("It cannot print value").
NoValuePrinted ==
    SumFunction([k \in Kinds |-> Weight[k] * Owned(k)])
    <= SumFunction([k \in Kinds |-> Weight[k] * Given(k)])

\* The merchants of s on the road, and at the exchange.
Hauling(s) == [l \in Legs |-> IF InTransit(l) /\ Sender(l) = s THEN Merchants(l) ELSE 0]
Trading(s) ==
    [x \in Exchanges |-> IF exchange[x].status = "pending" /\ exchange[x].home = s
                         THEN Needed(s, exchange[x].from.amount) ELSE 0]

\* The counter of busy merchants, which nothing recomputes, is what the legs
\* and the exchanges of the settlement occupy, whatever is cancelled, repeated
\* or torn down meanwhile.
MerchantsAccounted ==
    \A s \in Settlements : busy[s] = SumFunction(Hauling(s)) + SumFunction(Trading(s))

\* The four writes about one trade, from two legs in any order, leave each
\* party one report, which says what has happened on its side and no more.
TradeReported ==
    \A l \in Legs :
        LET said == <<Owner[Sender(l)], l[1]>>  heard == <<Owner[Receiver(l)], l[1]>> IN
        /\ leg[l] = "done" => docs[said] = 1
        /\ offer[l[1]].status = "accepted" =>
             /\ leg[l] = "done" <=> "freed" \in told[said]
             /\ ~loaded[l] <=> "delivered" \in told[heard]

\* Merchants come home, exchanges complete and offers leave the board: again
\* and again nothing is under way but what a dead-lettered event holds up.
NothingStranded == []<>(\A e \in Events : Awaited(e) => event[e] = "failed")

\* "an accepted offer moves resources in both directions": once both legs of a
\* trade are over, both were delivered or none was.  TLC refutes it in market.cfg.
TradeIsMutual ==
    \A o \in Offers :
        leg[o, "give"] = "done" /\ leg[o, "want"] = "done"
        => (loaded[o, "give"] <=> loaded[o, "want"])
==============================================================================
