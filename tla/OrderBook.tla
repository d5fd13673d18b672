----------------------------- MODULE OrderBook -----------------------------
(***************************************************************************)
(* The limit order book of CULT-X (cpp/src/exchange/order_book.cpp).       *)
(*                                                                         *)
(* The book is a passive, single-threaded object: an operation runs to its *)
(* end before the next one starts.  submit() is a matching loop, and the   *)
(* model takes one step per iteration of that loop: while a taker is in    *)
(* flight no other operation is enabled, so the steps of one call never    *)
(* interleave with another call.  replace() may end in a submit(); the     *)
(* taker then remembers that order_replaced is still to be emitted.        *)
(*                                                                         *)
(* Each price level is the std::list of the code, front first.  A level    *)
(* the code would erase from its map is the empty sequence here.           *)
(*                                                                         *)
(* Time matters to the book only through emit(), which throws when an      *)
(* event is older than the last one.  Callers pick times from Times.       *)
(***************************************************************************)
EXTENDS Integers, Sequences, FiniteSets, FiniteSetsExt, SequencesExt

CONSTANTS
    OrderIds,          \* OrderId values callers use
    Agents,            \* AgentId values
    NoTaker, NoLocator,\* absent values
    BookStates,        \* the InstrumentStates set_state is called with
    StpModes,          \* the stp_mode values a book may be configured with
    MaxPrice,          \* bound: prices are 0 .. MaxPrice ticks
    MaxQuantity,       \* bound: quantities are 0 .. MaxQuantity
    MaxSequence,       \* bound: operations start only below this sequence
    Times,             \* bound: the exchange times callers pass
    TickSize, LotSize, MinimumOrderSize,   \* InstrumentConfig
    CancelIsTerminal   \* how the reader of the tape treats order_cancelled

ASSUME BoundsAssumption ==
    /\ MaxPrice \in Nat \ {0} /\ MaxQuantity \in Nat \ {0} /\ MaxSequence \in Nat
    /\ Times \subseteq Nat /\ CancelIsTerminal \in BOOLEAN
ASSUME ConfigAssumption ==
    /\ TickSize \in Nat \ {0} /\ LotSize \in Nat \ {0} /\ MinimumOrderSize \in Nat \ {0}
    /\ StpModes \subseteq {"cancel_newest", "cancel_oldest", "cancel_both"}
    /\ "open" \in BookStates
    /\ BookStates \subseteq {"preopen", "open", "halted", "auction", "closed"}

Side == {"buy", "sell"}
Opposite(side) == IF side = "buy" THEN "sell" ELSE "buy"
Prices == 1 .. MaxPrice

Request ==
    [id : OrderIds, agent : Agents, side : Side, type : {"limit", "market"},
     tif : {"good_til_cancel", "immediate_or_cancel", "fill_or_kill"},
     price : 0 .. MaxPrice, qty : 0 .. MaxQuantity, postOnly : BOOLEAN]

RestingOrder == [id : OrderIds, agent : Agents, qty : 1 .. MaxQuantity, seq : Nat]
Locator == [side : Side, price : Prices]

(***************************************************************************)
(* A request in flight through the matching loop: what is left of it,      *)
(* whether self-trade prevention has stopped the loop, and whether the     *)
(* call came from replace().                                               *)
(***************************************************************************)
Taker == [req : Request, remaining : 0 .. MaxQuantity, stopped : BOOLEAN, replacing : BOOLEAN]

ASSUME AbsentAssumption == NoTaker \notin Taker /\ NoLocator \notin Locator

VARIABLES
    stpMode,   \* config_.stp_mode
    state,     \* state_
    levels,    \* bids_ and asks_: side -> price -> list of resting orders
    locators,  \* locators_: where each active order rests
    sequence,  \* sequence_
    lastTime,  \* last_event_time_ns_
    taker,     \* the request submit() is matching
    tape       \* history: what a reader of events_ believes rests of each order

vars == <<stpMode, state, levels, locators, sequence, lastTime, taker, tape>>
bookVars == <<stpMode, state, levels, locators>>

Idle == taker = NoTaker
Active(id) == locators[id] # NoLocator
Level(loc) == levels[loc.side][loc.price]

TypeOK ==
    /\ stpMode \in StpModes
    /\ state \in BookStates
    /\ levels \in [Side -> [Prices -> Seq(RestingOrder)]]
    /\ locators \in [OrderIds -> Locator \cup {NoLocator}]
    /\ sequence \in Nat
    /\ lastTime \in Times \cup {0}
    /\ taker \in Taker \cup {NoTaker}
    /\ tape \in [OrderIds -> Int]

Init ==
    /\ stpMode \in StpModes
    /\ state = "open"
    /\ levels = [side \in Side |-> [price \in Prices |-> <<>>]]
    /\ locators = [id \in OrderIds |-> NoLocator]
    /\ sequence = 0
    /\ lastTime = 0
    /\ taker = NoTaker
    /\ tape = [id \in OrderIds |-> 0]

-----------------------------------------------------------------------------
(* The tape.                                                               *)

(***************************************************************************)
(* emit(): n events at time t, after which the reader believes newTape.    *)
(* An event older than the last one makes emit() throw: nothing reaches    *)
(* the tape, and whatever the caller had already changed stays changed.    *)
(***************************************************************************)
Emit(n, t, newTape) ==
    IF t < lastTime
    THEN UNCHANGED <<sequence, lastTime, tape>>
    ELSE /\ sequence' = sequence + n
         /\ lastTime' = t
         /\ tape' = newTape

(***************************************************************************)
(* The reader of the tape.  order_cancelled either ends the order, or is   *)
(* read by its quantity field.                                             *)
(***************************************************************************)
Cancelled(aTape, id, qty) ==
    [aTape EXCEPT ![id] = IF CancelIsTerminal THEN 0 ELSE @ - qty]

-----------------------------------------------------------------------------
(* What submit() asks of the book before and while it matches.             *)

ValidQuantity(qty) == qty >= MinimumOrderSize /\ qty % LotSize = 0
ValidPrice(req) == req.type = "limit" => req.price > 0 /\ req.price % TickSize = 0

(* Mutant: an order at exactly the limit price is passed over.             *)
AcceptsBeyond(req, price) ==
    \/ req.type = "market"
    \/ /\ req.side = "buy"
       /\ price < req.price
    \/ /\ req.side = "sell"
       /\ price > req.price

(* Whether the limit of req admits a resting order at price.               *)
Accepts(req, price) ==
    \/ req.type = "market"
    \/ /\ req.side = "buy"
       /\ price <= req.price
    \/ /\ req.side = "sell"
       /\ price >= req.price

BetterAscending(side, p, q) == p < q   \* mutant: bids_ without std::greater
(* Whether orders resting on side at price p go before those at q.         *)
Better(side, p, q) == IF side = "buy" THEN p > q ELSE p < q

(* price is the top of the book on side: begin() of bids_ or asks_.        *)
IsBest(side, price) ==
    /\ levels[side][price] # <<>>
    /\ \A p \in Prices : levels[side][p] # <<>> => p = price \/ Better(side, price, p)

Marketable(req) ==
    \E price \in Prices : IsBest(Opposite(req.side), price) /\ Accepts(req, price)

(***************************************************************************)
(* The resting orders available() counts for req: acceptable, not the      *)
(* requester's own and, unless the mode is cancel_oldest, not behind one   *)
(* of the requester's own orders.                                          *)
(***************************************************************************)
Spots(side) == UNION {{<<price, i>> : i \in DOMAIN levels[side][price]} : price \in Prices}
OrderAt(side, spot) == levels[side][spot[1]][spot[2]]
Ahead(side, s, t) == Better(side, s[1], t[1]) \/ (s[1] = t[1] /\ s[2] < t[2])

(* Mutant: the precheck without stop_at_own_order.                         *)
ReachableBehindOwn(req) ==
    {spot \in Spots(Opposite(req.side)) :
        Accepts(req, spot[1]) /\ OrderAt(Opposite(req.side), spot).agent # req.agent}

Reachable(req) ==
    LET side == Opposite(req.side)
        acceptable == {spot \in Spots(side) : Accepts(req, spot[1])}
        own == {spot \in acceptable : OrderAt(side, spot).agent = req.agent}
    IN  {spot \in acceptable \ own :
            stpMode = "cancel_oldest" \/ ~ \E s \in own : Ahead(side, s, spot)}

(* No two of them are the same order, so their quantities can be added up. *)
ReachableOrders(req) == {OrderAt(Opposite(req.side), spot) : spot \in Reachable(req)}
Available(req) == MapThenSumSet(LAMBDA o : o.qty, ReachableOrders(req))

(* Every check of submit() passes.                                         *)
Admissible(req) ==
    /\ state = "open"
    /\ ValidQuantity(req.qty)
    /\ ValidPrice(req)
    /\ ~Active(req.id)
    /\ req.postOnly => ~Marketable(req)
    /\ req.tif = "fill_or_kill" => Available(req) >= req.qty

-----------------------------------------------------------------------------
(* submit(): the checks, then one step per iteration of the matching loop. *)

(***************************************************************************)
(* The checks.  A rejected request leaves an order_rejected event and no   *)
(* other trace; a request that is late makes the first emit() throw before *)
(* anything has changed.                                                   *)
(***************************************************************************)
Reject(req, t) ==
    /\ Idle /\ sequence < MaxSequence /\ t >= lastTime
    /\ ~Admissible(req)
    /\ Emit(1, t, tape)
    /\ UNCHANGED <<bookVars, taker>>

Accept(req, t) ==
    /\ Idle /\ sequence < MaxSequence /\ t >= lastTime
    /\ Admissible(req)
    /\ taker' = [req |-> req, remaining |-> req.qty, stopped |-> FALSE, replacing |-> FALSE]
    /\ Emit(1, t, [tape EXCEPT ![req.id] = req.qty])
    /\ UNCHANGED bookVars

(* The loop goes on and its next maker is the front of the best level.     *)
Matching(price) ==
    /\ ~Idle /\ taker.remaining > 0 /\ ~taker.stopped
    /\ IsBest(Opposite(taker.req.side), price)
    /\ Accepts(taker.req, price)

(* Mutant: the maker is erased from its list but keeps its locator.        *)
RemoveFrontOnly(side, price) ==
    /\ levels' = [levels EXCEPT ![side][price] = Tail(@)]
    /\ UNCHANGED locators

(* The front order of side at price leaves the book: erase() and its locator. *)
RemoveFront(side, price) ==
    /\ levels' = [levels EXCEPT ![side][price] = Tail(@)]
    /\ locators' = [locators EXCEPT ![Head(levels[side][price]).id] = NoLocator]

Fill(price) ==
    LET side == Opposite(taker.req.side)
        maker == Head(levels[side][price])
        matched == IF taker.remaining <= maker.qty THEN taker.remaining ELSE maker.qty
    IN  /\ Matching(price)
        /\ maker.agent # taker.req.agent
        /\ IF matched = maker.qty
           THEN RemoveFront(side, price)
           ELSE /\ levels' = [levels EXCEPT ![side][price][1].qty = @ - matched]
                /\ UNCHANGED locators
        /\ taker' = [taker EXCEPT !.remaining = @ - matched]
        /\ Emit(1, lastTime, [tape EXCEPT ![maker.id] = @ - matched,
                                          ![taker.req.id] = @ - matched])
        /\ UNCHANGED <<stpMode, state>>

(* Self-trade prevention, cancel_newest: the taker stops; the book keeps its order. *)
StopNewest(price) ==
    /\ Matching(price)
    /\ Head(levels[Opposite(taker.req.side)][price]).agent = taker.req.agent
    /\ stpMode = "cancel_newest"
    /\ taker' = [taker EXCEPT !.stopped = TRUE]
    /\ Emit(1, lastTime, Cancelled(tape, taker.req.id, taker.remaining))
    /\ UNCHANGED bookVars

(* cancel_oldest and cancel_both: the resting order goes, with quantity 0 on the tape. *)
CancelOldest(price) ==
    LET side == Opposite(taker.req.side)
        maker == Head(levels[side][price])
    IN  /\ Matching(price)
        /\ maker.agent = taker.req.agent
        /\ stpMode # "cancel_newest"
        /\ RemoveFront(side, price)
        /\ taker' = [taker EXCEPT !.stopped = (stpMode = "cancel_both")]
        /\ Emit(1, lastTime, Cancelled(tape, maker.id, 0))
        /\ UNCHANGED <<stpMode, state>>

(* A new arrival goes behind every order of its level: push_back().        *)
EnqueueInFront(level, order) == <<order>> \o level   \* mutant: push_front()
Enqueue(level, order) == Append(level, order)

(* The loop is over.                                                       *)
Matched == ~Idle /\ (taker.remaining = 0 \/ taker.stopped \/ ~Marketable(taker.req))
Restable == taker.req.type = "limit" /\ taker.req.tif = "good_til_cancel" /\ ~taker.stopped

(* order_replaced, when the call was a replace(), follows the last event.  *)
Closing == IF taker.replacing THEN 1 ELSE 0

Rest ==
    LET req == taker.req
        order == [id |-> req.id, agent |-> req.agent, qty |-> taker.remaining, seq |-> sequence]
    IN  /\ Matched /\ taker.remaining > 0 /\ Restable
        /\ levels' = [levels EXCEPT ![req.side][req.price] = Enqueue(@, order)]
        /\ locators' = [locators EXCEPT ![req.id] = [side |-> req.side, price |-> req.price]]
        /\ taker' = NoTaker
        /\ Emit(1 + Closing, lastTime, tape)
        /\ UNCHANGED <<stpMode, state>>

(* Mutant: the remainder is dropped without a word on the tape.            *)
DropRemainder ==
    /\ Matched /\ taker.remaining > 0 /\ ~Restable
    /\ taker' = NoTaker
    /\ Emit(Closing, lastTime, tape)
    /\ UNCHANGED bookVars

CancelRemainder ==
    /\ Matched /\ taker.remaining > 0 /\ ~Restable
    /\ taker' = NoTaker
    /\ Emit(1 + Closing, lastTime, Cancelled(tape, taker.req.id, taker.remaining))
    /\ UNCHANGED bookVars

Complete ==
    /\ Matched /\ taker.remaining = 0
    /\ taker' = NoTaker
    /\ Emit(Closing, lastTime, tape)
    /\ UNCHANGED bookVars

-----------------------------------------------------------------------------
(* cancel(), replace() and set_state().                                    *)

(* The order id is active, the caller owns it, and i is its place in its level. *)
Located(id, agent, i) ==
    /\ Active(id)
    /\ i \in 1 .. Len(Level(locators[id]))
    /\ Level(locators[id])[i].id = id
    /\ Level(locators[id])[i].agent = agent

RemoveOrder(id, i) ==
    LET loc == locators[id]
    IN  /\ levels' = [levels EXCEPT ![loc.side][loc.price] = RemoveAt(@, i)]
        /\ locators' = [locators EXCEPT ![id] = NoLocator]

(* cancel() erases first and emits last: a late call loses the event, not the effect. *)
Cancel(id, agent, i, t) ==
    /\ Idle /\ sequence < MaxSequence
    /\ Located(id, agent, i)
    /\ RemoveOrder(id, i)
    /\ Emit(1, t, Cancelled(tape, id, Level(locators[id])[i].qty))
    /\ UNCHANGED <<stpMode, state, taker>>

(* A replace() that keeps the price and does not increase the quantity.    *)
KeepsPriority(id, i, price, qty) ==
    /\ price = locators[id].price
    /\ qty <= Level(locators[id])[i].qty
    /\ ValidQuantity(qty)

ReduceInPlace(id, agent, i, price, qty, t) ==
    /\ Idle /\ sequence < MaxSequence
    /\ Located(id, agent, i)
    /\ KeepsPriority(id, i, price, qty)
    /\ levels' = [levels EXCEPT ![locators[id].side][locators[id].price][i].qty = qty]
    /\ Emit(1, t, [tape EXCEPT ![id] = qty])
    /\ UNCHANGED <<stpMode, state, locators, taker>>

(***************************************************************************)
(* Any other replace() cancels, then submits a fresh limit order under the *)
(* same id.  The checks run against the book without the old order; when   *)
(* one fails (or the cancel was late and threw) the old order is gone and  *)
(* nothing takes its place.                                                *)
(***************************************************************************)
CancelAndResubmit(id, agent, i, price, qty, t) ==
    LET loc == locators[id]
        req == [id |-> id, agent |-> agent, side |-> loc.side, type |-> "limit",
                tif |-> "good_til_cancel", price |-> price, qty |-> qty, postOnly |-> FALSE]
        accepted == t >= lastTime /\ state = "open" /\ ValidQuantity(qty) /\ ValidPrice(req)
    IN  /\ Idle /\ sequence < MaxSequence
        /\ Located(id, agent, i)
        /\ ~KeepsPriority(id, i, price, qty)
        /\ RemoveOrder(id, i)
        /\ taker' = IF accepted
                    THEN [req |-> req, remaining |-> qty, stopped |-> FALSE, replacing |-> TRUE]
                    ELSE NoTaker
        /\ Emit(2, t, IF accepted THEN [tape EXCEPT ![id] = qty]
                                  ELSE Cancelled(tape, id, Level(loc)[i].qty))
        /\ UNCHANGED <<stpMode, state>>

(* set_state() changes the state first; any state may follow any other.    *)
SetState(next, t) ==
    /\ Idle /\ sequence < MaxSequence
    /\ state' = next
    /\ Emit(1, t, tape)
    /\ UNCHANGED <<stpMode, levels, locators, taker>>

-----------------------------------------------------------------------------
Submit == \E req \in Request, t \in Times :
              /\ req.type = "market" => req.price = 0   \* a market order's price is not read
              /\ Reject(req, t) \/ Accept(req, t)

Match == \/ \E price \in Prices : Fill(price) \/ StopNewest(price) \/ CancelOldest(price)
         \/ Rest
         \/ CancelRemainder
         \/ Complete

Amend == \E id \in OrderIds, agent \in Agents, i \in 1 .. Cardinality(OrderIds), t \in Times :
             \/ Cancel(id, agent, i, t)
             \/ \E price \in 0 .. MaxPrice, qty \in 0 .. MaxQuantity :
                    \/ ReduceInPlace(id, agent, i, price, qty, t)
                    \/ CancelAndResubmit(id, agent, i, price, qty, t)

Next == Submit \/ Match \/ Amend \/ \E next \in BookStates, t \in Times : SetState(next, t)

Spec == Init /\ [][Next]_vars

-----------------------------------------------------------------------------
(* Properties.                                                             *)

(***************************************************************************)
(* Every bid is below every ask, between operations and during matching    *)
(* too (invariant_holds(), "best bid < best ask"): nothing rests at a      *)
(* price where it could have traded.                                       *)
(***************************************************************************)
NotCrossed ==
    \A bid, ask \in Prices :
        levels["buy"][bid] # <<>> /\ levels["sell"][ask] # <<>> => bid < ask

(***************************************************************************)
(* One locator per active order and one order per locator: whatever the    *)
(* order in which operations erase lists and locators_, an order is found  *)
(* where its locator says, and nowhere else.                               *)
(***************************************************************************)
LocatorsMatchBook ==
    /\ \A side \in Side, price \in Prices : \A i \in 1 .. Len(levels[side][price]) :
           locators[levels[side][price][i].id] = [side |-> side, price |-> price]
    /\ \A id \in OrderIds : Active(id) =>
           \E i \in 1 .. Len(Level(locators[id])) :
               /\ Level(locators[id])[i].id = id
               /\ \A j \in 1 .. Len(Level(locators[id])) :
                      Level(locators[id])[j].id = id => j = i

(***************************************************************************)
(* Price priority precedes accepted sequence: along each list the accepted *)
(* sequence strictly increases, through partial fills, cancels from the    *)
(* middle and replacements, and no resting order claims a sequence the     *)
(* book has not reached.                                                   *)
(***************************************************************************)
TimePriority ==
    \A side \in Side, price \in Prices :
        LET level == levels[side][price]
        IN  \A i \in 1 .. Len(level) :
               /\ level[i].seq <= sequence
               /\ \A j \in 1 .. Len(level) : i < j => level[i].seq < level[j].seq

(***************************************************************************)
(* A fill_or_kill order that was accepted leaves the loop completely       *)
(* filled, whatever self-trade prevention does on the way: the precheck of *)
(* available() counts exactly what the loop can reach.                     *)
(***************************************************************************)
FillOrKill ==
    [][~Idle /\ Idle' /\ taker.req.tif = "fill_or_kill" => taker.remaining = 0]_vars

(***************************************************************************)
(* Between operations the tape tells what rests: accepts, trades, cancels  *)
(* and replacements add up, order by order, to the quantity in the book.   *)
(* With CancelIsTerminal the reader takes order_cancelled as the end of    *)
(* the order; without, it trusts the quantity of the event (volume         *)
(* conservation: accepted = traded + cancelled + resting).                 *)
(***************************************************************************)
RestingQuantity(id) ==
    IF Active(id)
    THEN LET level == Level(locators[id])
         IN  level[CHOOSE i \in 1 .. Len(level) : level[i].id = id].qty
    ELSE 0

TapeMatchesBook == Idle => \A id \in OrderIds : tape[id] = RestingQuantity(id)

=============================================================================
