----------------------------- MODULE Scenarios -----------------------------
(***************************************************************************)
(* The scenarios that drive the order book: the Great Cry shock of CULT-X  *)
(* with its TypeScript counterpart (packages/hft-engine), the stale-quote  *)
(* race, the queue trade-off and the market-making challenge               *)
(* (cpp/src/exchange/simulator.cpp, strategy.cpp).  A scenario is a script *)
(* of calls; the book is OrderBook itself, open and in the mode            *)
(* cancel_newest.                                                          *)
(*                                                                         *)
(* Prices are small and levels few, quantities are those of the code.  The *)
(* signal's floating-point value is a product already taken (Signals), the *)
(* random aggressor a choice.  Midpoints of the demo are half ticks, so    *)
(* its amounts are doubled; dollars of exposure are in thousandths.        *)
(***************************************************************************)
EXTENDS Scheduler, Integers, SequencesExt

CONSTANTS
    NoTaker, NoLocator, \* absent values of the book
    References,         \* bound: reference prices, in whole ticks
    Signals,            \* bound: signal value times sizing scale
    RiskLimits,         \* bound: PreTradeLimits a caller passes
    CancelLatencies,    \* bound: latencies of the maker's cancel
    FastOrder,          \* when the aggressive order arrives
    Desks,              \* configurations of the challenge
    WallDistance,       \* ticks from the center to the background orders
    MaxSteps            \* bound: rounds of the challenge

VARIABLES
    plan,      \* which scenario, and its inputs
    script,    \* the calls still to make
    fills,     \* fills of the last submit()
    desk,      \* the scenario's own state
    bookLevels, bookLocators, bookSequence, bookTime, taker, bookTape

bookVars == <<bookLevels, bookLocators, bookSequence, bookTime, taker, bookTape>>
scenarioVars == <<plan, script, fills, desk, bookVars>>

Center == 6
MaxPrice == 2 * Center + 1

Book == INSTANCE OrderBookViews WITH
    OrderIds <- 1 .. 11, Agents <- Nat, BookStates <- {"open"},
    StpModes <- {"cancel_newest"}, MaxQuantity <- 10000, MaxSequence <- 10000,
    Times <- Nat, TickSize <- 1, LotSize <- 1, MinimumOrderSize <- 1,
    CancelIsTerminal <- TRUE, stpMode <- "cancel_newest", state <- "open",
    levels <- bookLevels, locators <- bookLocators, sequence <- bookSequence,
    lastTime <- bookTime, tape <- bookTape

-----------------------------------------------------------------------------
(* Calls.                                                                  *)

Limit(id, agent, side, price, qty, postOnly) ==
    [id |-> id, agent |-> agent, side |-> side, type |-> "limit",
     tif |-> "good_til_cancel", price |-> price, qty |-> qty, postOnly |-> postOnly]
Market(id, agent, side, qty) ==
    [id |-> id, agent |-> agent, side |-> side, type |-> "market",
     tif |-> "immediate_or_cancel", price |-> 0, qty |-> qty, postOnly |-> FALSE]
SubmitAt(req, time) == [call |-> "submit", req |-> req, time |-> time]
CancelAt(id, agent, time) == [call |-> "cancel", id |-> id, agent |-> agent, time |-> time]

Waiting == script = <<>> /\ Book!Idle

\* The next call; a cancel of an order that does not rest changes nothing.
Call ==
    /\ script # <<>> /\ Book!Idle
    /\ LET next == Head(script)
       IN  \/ /\ next.call = "submit"
              /\ Book!Accept(next.req, next.time) \/ Book!Reject(next.req, next.time)
              /\ fills' = <<>>
           \/ /\ next.call = "cancel"
              /\ IF Book!Active(next.id)
                 THEN \E i \in 1 .. 2 : Book!Cancel(next.id, next.agent, i, next.time)
                 ELSE UNCHANGED bookVars
              /\ UNCHANGED fills
    /\ script' = Tail(script)
    /\ UNCHANGED <<plan, desk>>

\* submit() goes on: a trade is added to the fills of its result.
Matching ==
    /\ Book!Match
    /\ IF taker' = NoTaker \/ taker'.remaining = taker.remaining
       THEN UNCHANGED fills
       ELSE LET side == Book!Opposite(taker.req.side)
                best == CHOOSE p \in 1 .. MaxPrice : Book!IsBest(side, p)
                maker == Head(bookLevels[side][best])
            IN  fills' = Append(fills, [maker |-> maker.id, agent |-> maker.agent, price |-> best,
                                        qty |-> taker.remaining - taker'.remaining])
    /\ UNCHANGED <<plan, script, desk>>

-----------------------------------------------------------------------------
(* The Great Cry shock of CULT-X.                                          *)

LevelSize == 1000
Seeding(reference) ==
    FlattenSeq([level \in 1 .. 5 |->
        <<SubmitAt(Limit(2 * level - 1, 1, "buy", reference - level, LevelSize, FALSE), 0),
          SubmitAt(Limit(2 * level, 2, "sell", reference + level, LevelSize, FALSE), 0)>>])

Least(a, b) == IF a < b THEN a ELSE b
Most(a, b) == IF a < b THEN b ELSE a
Sized(signal) == Most(100, Least(3500, signal))

\* llround() of the midpoint microstructure() reads from both sides of L1.
RoundedMidpoint ==
    LET bid == CHOOSE view \in Book!L1("buy") : TRUE
        ask == CHOOSE view \in Book!L1("sell") : TRUE
    IN  (bid.price + ask.price + 1) \div 2

FlatAccount(reference) == [position |-> 0, equity |-> 2000 * reference, killed |-> FALSE]
\* The first check that fails gives its name to the decision.
FirstFailed(checks) ==
    LET failed == SelectSeq(checks, LAMBDA check : check[2])
    IN  IF failed = <<>> THEN "ACCEPT" ELSE failed[1][1]
Signed(side, quantity) == IF side = "buy" THEN quantity ELSE -quantity
Magnitude(x) == Most(x, -x)

\* The scenario passes a healthy source and one message: those two checks never fail.
PreTradeRisk(req, account, mid, reference, limits) ==
    LET position == account.position + Signed(req.side, req.qty)
        price == IF req.type = "market" THEN mid ELSE req.price
        proposed == Magnitude(position * mid)
    IN  FirstFailed(<<
          <<"KILLED", account.killed>>,
          <<"ORDER_SIZE", req.qty > limits.size>>,
          <<"POSITION", Magnitude(position) > limits.position>>,
          <<"COLLAR", Magnitude(price - mid) > limits.collar>>,
          <<"EXPOSURE", 1000 * proposed > limits.gross * reference>>,
          <<"LEVERAGE", account.equity <= 0 \/ proposed > limits.leverage * account.equity>> >>)

\* The agent's order passes the check, or never reaches the book.
AgentDecides ==
    /\ plan.kind = "shock" /\ Waiting /\ desk.decision = "NONE"
    /\ LET order == Market(11, 3, "buy", Sized(plan.signal))
           decision == PreTradeRisk(order, FlatAccount(plan.reference), RoundedMidpoint,
                                    plan.reference, plan.limits)
       IN  /\ desk' = [desk EXCEPT !.decision = decision]
           /\ script' = IF decision = "ACCEPT" THEN <<SubmitAt(order, 1)>> ELSE <<>>
    /\ UNCHANGED <<plan, fills, bookVars>>

-----------------------------------------------------------------------------
(* The same shock in createPhase4Demo(), which has no book.                *)

DemoDepth(reference) ==
    [i \in 1 .. 10 |-> LET level == (i + 1) \div 2
                       IN  IF i % 2 = 1
                           THEN [side |-> "buy", price |-> reference - level, qty |-> LevelSize]
                           ELSE [side |-> "sell", price |-> reference + level, qty |-> LevelSize]]

\* preTradeRiskCheck(), with a doubled midpoint.
PreTradeRiskCheck(side, quantity, price, mid2, account, reference, limits) ==
    LET position == account.position + Signed(side, quantity)
        price2 == IF price = 0 THEN mid2 ELSE 2 * price
        proposed2 == Magnitude(position * mid2)
    IN  FirstFailed(<<
          <<"ORDER_SIZE", quantity > limits.size>>,
          <<"POSITION", Magnitude(position) > limits.position>>,
          <<"COLLAR", Magnitude(price2 - mid2) > 2 * limits.collar>>,
          <<"EXPOSURE", 1000 * proposed2 > 2 * limits.gross * reference>>,
          <<"LEVERAGE", account.equity <= 0 \/ proposed2 > 2 * limits.leverage * account.equity>> >>)

\* Mutant: the level keeps what was taken from it.
SweepWithoutTaking(sweep, i) ==
    LET quantity == Least(sweep.depth[i].qty, sweep.remainder)
    IN  IF sweep.remainder = 0 THEN sweep
        ELSE [sweep EXCEPT !.remainder = @ - quantity,
                           !.trades = Append(@, <<i, sweep.depth[i].price, quantity>>)]

\* One turn of the loop over the asks: what it takes is traded with the order seeded there.
Sweep(sweep, i) ==
    LET quantity == Least(sweep.depth[i].qty, sweep.remainder)
    IN  IF sweep.remainder = 0 THEN sweep
        ELSE [remainder |-> sweep.remainder - quantity,
              depth |-> [sweep.depth EXCEPT ![i].qty = @ - quantity],
              trades |-> Append(sweep.trades, <<i, sweep.depth[i].price, quantity>>)]

FirstQuoted(depth, side, fallback) ==
    LET active == SelectSeq(depth, LAMBDA item : item.side = side /\ item.qty > 0)
    IN  IF active = <<>> THEN fallback ELSE <<active[1].price, active[1].qty>>

Demo(reference, signal, limits) ==
    LET quantity == Sized(signal)
        decision == PreTradeRiskCheck("buy", quantity, 0, 2 * reference - 1,
                                      FlatAccount(reference), reference, limits)
        quiet == [remainder |-> quantity, depth |-> DemoDepth(reference), trades |-> <<>>]
        swept == IF decision = "ACCEPT" THEN FoldLeft(Sweep, quiet, <<2, 4, 6, 8, 10>>) ELSE quiet
    IN  [decision |-> decision,
         trades |-> swept.trades,
         filled |-> IF decision = "ACCEPT" THEN quantity ELSE 0,
         bid |-> FirstQuoted(swept.depth, "buy", <<reference - 1, LevelSize>>),
         ask |-> FirstQuoted(swept.depth, "sell", <<reference + 5, 0>>),
         sequence |-> 20 + IF decision = "ACCEPT" THEN 1 + Len(swept.trades) ELSE 0]

-----------------------------------------------------------------------------
(* run_latency_arbitrage() and run_queue_tradeoff().                       *)

\* What the scheduler runs, in the order Before() gives it.
Race(latency) ==
    LET queued == <<[time |-> latency, sequence |-> 1, run |-> CancelAt(2, 1, latency)],
                    [time |-> FastOrder, sequence |-> 2,
                     run |-> SubmitAt(Market(3, 2, "buy", 50), FastOrder)]>>
        inOrder == SortSeq(queued, Before)
    IN  <<SubmitAt(Limit(1, 1, "buy", Center - 1, 100, FALSE), 0),
          SubmitAt(Limit(2, 1, "sell", Center + 1, 100, FALSE), 0),
          inOrder[1].run, inOrder[2].run>>

\* Joining the best bid behind agent 9, or improving on it by one tick.
QueueTradeoff(price) ==
    <<SubmitAt(Limit(1, 9, "buy", Center - 1, 100, FALSE), 0),
      SubmitAt(Limit(2, 1, "buy", price, 50, FALSE), 1),
      SubmitAt(Market(3, 2, "sell", 50), 2)>>

-----------------------------------------------------------------------------
(* run_market_making_challenge().                                          *)

Maker == 10
Walls == <<SubmitAt(Limit(1, 90, "buy", Center - WallDistance, 10000, FALSE), 0),
           SubmitAt(Limit(2, 91, "sell", Center + WallDistance, 10000, FALSE), 0)>>

\* llround(skew * inventory), as ticks per so many lots.
RoundedSkew(perTick, inventory) ==
    LET ticks == (2 * Magnitude(inventory) + perTick) \div (2 * perTick)
    IN  IF inventory < 0 THEN -ticks ELSE ticks
\* Mutant: the quotes lean with the inventory.
SkewWithInventory(perTick, inventory) == IF perTick = 0 THEN 0 ELSE -RoundedSkew(perTick, inventory)
Skew(perTick, inventory) == IF perTick = 0 THEN 0 ELSE RoundedSkew(perTick, inventory)

\* A round: two quotes, and an order against one side of the book.
Quote(aggressor) ==
    /\ plan.kind = "desk" /\ Waiting /\ ~desk.quoted /\ desk.step < MaxSteps
    /\ LET skew == Skew(plan.perTick, desk.inventory)
       IN  script' = <<SubmitAt(Limit(3, Maker, "buy", Center - plan.half - skew, 20, TRUE), desk.step),
                       SubmitAt(Limit(4, Maker, "sell", Center + plan.half - skew, 20, TRUE), desk.step),
                       SubmitAt(Market(5, 20, aggressor, 10), desk.step)>>
    /\ desk' = [desk EXCEPT !.quoted = TRUE, !.aggressor = aggressor]
    /\ UNCHANGED <<plan, fills, bookVars>>

\* One of its fills moves the maker's inventory, cash and spread capture.
Booked(account, fill) ==
    LET bought == -Signed(account.aggressor, fill.qty)
    IN  [account EXCEPT !.inventory = @ + bought, !.cash = @ - bought * fill.price,
                        !.capture = @ + Magnitude(fill.price - Center) * fill.qty]

\* The fills are booked, and both quotes cancelled whether or not they were filled.
BookFills ==
    /\ plan.kind = "desk" /\ Waiting /\ desk.quoted
    /\ desk' = [FoldLeft(Booked, desk, SelectSeq(fills, LAMBDA fill : fill.agent = Maker))
                EXCEPT !.quoted = FALSE, !.step = @ + 1]
    /\ script' = <<CancelAt(3, Maker, desk.step), CancelAt(4, Maker, desk.step)>>
    /\ UNCHANGED <<plan, fills, bookVars>>

-----------------------------------------------------------------------------
Plans ==
    [kind : {"shock"}, reference : References, signal : Signals, limits : RiskLimits]
        \union [kind : {"race"}, latency : CancelLatencies]
        \union [kind : {"queue"}, price : {Center - 1, Center}]
        \union Desks

ScriptOf(aPlan) ==
    CASE aPlan.kind = "shock" -> Seeding(aPlan.reference)
      [] aPlan.kind = "race" -> Race(aPlan.latency)
      [] aPlan.kind = "queue" -> QueueTradeoff(aPlan.price)
      [] aPlan.kind = "desk" -> Walls

ScenarioStart ==
    /\ script = ScriptOf(plan)
    /\ fills = <<>>
    /\ desk = [decision |-> "NONE", quoted |-> FALSE, step |-> 0, aggressor |-> "buy",
               inventory |-> 0, cash |-> 0, capture |-> 0]
    /\ Book!Init

ScenarioInit == plan \in Plans /\ ScenarioStart

ScenarioNext ==
    \/ Call \/ Matching \/ AgentDecides \/ BookFills
    \/ \E aggressor \in {"buy", "sell"} : Quote(aggressor)

-----------------------------------------------------------------------------
(* Properties.                                                             *)

Traded == [i \in DOMAIN fills |-> <<fills[i].maker, fills[i].price, fills[i].qty>>]
QuotedBy(side) == {<<view.price, view.qty>> : view \in Book!L1(side)}

(***************************************************************************)
(* The demo the API serves and CULT-X tell the same story of a shock: when *)
(* the order is accepted, the same trades against the same resting orders, *)
(* the same best quotes and the same number of events.  Their pre-trade    *)
(* decisions differ only where the demo's midpoint, half a tick lower,     *)
(* passes a limit on amounts that CULT-X's does not.                       *)
(***************************************************************************)
DemoMatchesExchange ==
    plan.kind = "shock" /\ Waiting /\ desk.decision # "NONE" =>
        LET demo == Demo(plan.reference, plan.signal, plan.limits)
        IN  /\ desk.decision # demo.decision =>
                   desk.decision \in {"EXPOSURE", "LEVERAGE"} /\ demo.decision \in {"LEVERAGE", "ACCEPT"}
            /\ desk.decision = "ACCEPT" =>
                   /\ demo.trades = Traded
                   /\ demo.filled = FoldLeft(LAMBDA sum, fill : sum + fill.qty, 0, fills)
                   /\ QuotedBy("buy") = {demo.bid} /\ QuotedBy("sell") = {demo.ask}
                   /\ demo.sequence = bookSequence

(***************************************************************************)
(* Who trades is decided by arrival and price: a stale quote is hit        *)
(* exactly when its cancel arrives after the aggressive order, and is gone *)
(* afterwards either way; joining a queue of 100 earns nothing from an     *)
(* order of 50, one tick better earns all of it.                           *)
(***************************************************************************)
ArrivalDecides ==
    Waiting =>
        /\ plan.kind = "race" =>
               /\ (fills # <<>>) = (plan.latency > FastOrder)
               /\ ~Book!Active(2)
        /\ plan.kind = "queue" => Traded = << <<IF plan.price = Center THEN 2 ELSE 1, plan.price, 50>> >>

(***************************************************************************)
(* Between rounds the challenge leaves nothing but the walls in the book,  *)
(* a leaning maker never holds more than what first pushes its quote back  *)
(* to the wall (behind which the wall's priority shields it), and spread   *)
(* capture never understates the profit at the center; it is that profit   *)
(* when the quotes do not lean.                                            *)
(***************************************************************************)
HeldAtWall(aPlan) ==
    CHOOSE held \in {10 * n : n \in 0 .. 10000} :
        /\ aPlan.half + RoundedSkew(aPlan.perTick, held) >= WallDistance
        /\ aPlan.half + RoundedSkew(aPlan.perTick, held - 10) < WallDistance
MakerStaysInside ==
    plan.kind = "desk" /\ Waiting /\ ~desk.quoted =>
        LET profit == desk.cash + desk.inventory * Center
        IN  /\ Book!ActiveIds = {1, 2}
            /\ desk.capture >= profit
            /\ IF plan.perTick = 0 THEN desk.capture = profit
               ELSE Magnitude(desk.inventory) <= HeldAtWall(plan)

(***************************************************************************)
(* Every scenario comes out as price and time priority say: the shock as   *)
(* the demo tells it, the race and the queue by arrival and price, and a   *)
(* leaning maker kept from ever larger positions by the wall it quotes at. *)
(***************************************************************************)
ScenariosFollowPriority == DemoMatchesExchange /\ ArrivalDecides /\ MakerStaysInside
=============================================================================
