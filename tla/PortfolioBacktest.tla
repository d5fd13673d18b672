------------------------- MODULE PortfolioBacktest -------------------------
(***************************************************************************)
(* runBacktest of packages/analytics, bar by bar.  A bar need not quote    *)
(* every asset: an asset without a price counts for nothing in the equity  *)
(* the targets are sized on, and is not traded.  A strategy may ask for    *)
(* anything, so its targets are a choice.                                  *)
(*                                                                         *)
(* Cash and the curve are in fees of one unit of turnover (1 / FeeDivisor  *)
(* of a unit of price), so that fees are whole; weights are halves, and    *)
(* targets, fractional in the code, are rounded down to whole quantities.  *)
(* The statistics over the curve are left out.                             *)
(***************************************************************************)
EXTENDS Integers, FiniteSets, Functions

CONSTANTS
    PricesOf,     \* asset -> bound: its prices; 0 is a bar without one
    TargetHalves, \* bound: twice the weights a strategy asks for
    InitialCash,
    FeeDivisor,   \* the fee on a notional is the FeeDivisor-th part of it
    MaxBars,      \* bound: bars
    Intervals     \* bound: values of rebalanceEvery

Portfolio == DOMAIN PricesOf

ASSUME PortfolioAssumption ==
    /\ IsFiniteSet(Portfolio) /\ \A a \in Portfolio : PricesOf[a] \subseteq Nat
    /\ TargetHalves \subseteq Int /\ InitialCash \in Int /\ FeeDivisor \in Nat \ {0}

VARIABLES
    rebalanceEvery,
    index,     \* bars so far
    cash, held, turnover,
    shown,     \* the last value of the curve
    quoted,    \* history: the assets the last bar had a price for
    known,     \* history: asset -> its last price
    gain       \* history: what price changes earned on what was held

portfolioVars == <<rebalanceEvery, index, cash, held, turnover, shown, quoted, known, gain>>

Worth(positions, prices) == FeeDivisor * SumFunction([a \in Portfolio |-> positions[a] * prices[a]])

PortfolioInit ==
    /\ rebalanceEvery \in Intervals
    /\ index = 0 /\ turnover = 0
    /\ cash = FeeDivisor * InitialCash /\ shown = FeeDivisor * InitialCash
    /\ held = [a \in Portfolio |-> 0]
    /\ quoted = Portfolio /\ known = [a \in Portfolio |-> 0] /\ gain = 0

\* Mutant: what is sold pays no fee.
FeeOfPurchase(notional) == IF notional > 0 THEN notional ELSE 0
Absolute(x) == IF x < 0 THEN -x ELSE x
FeeOf(notional) == Absolute(notional)

\* What is held after the bar: an asset without a target is sold, one without a price kept.
Rebalanced(prices, targets) ==
    LET equity == cash + Worth(held, prices)
    IN  [a \in Portfolio |->
            IF prices[a] = 0 THEN held[a]
            ELSE IF a \in DOMAIN targets THEN (equity * targets[a]) \div (2 * FeeDivisor * prices[a]) ELSE 0]

\* Every order pays its notional and its fee out of the same cash.
Trade(prices, after) ==
    LET Notional(a) == (after[a] - held[a]) * prices[a]
    IN  /\ held' = after
        /\ cash' = cash - SumFunction([a \in Portfolio |-> FeeDivisor * Notional(a) + FeeOf(Notional(a))])
        /\ turnover' = turnover + SumFunction([a \in Portfolio |-> Absolute(Notional(a))])

ResearchBar(prices, targets) ==
    /\ index < MaxBars /\ index' = index + 1
    /\ Trade(prices, IF index % rebalanceEvery = 0 THEN Rebalanced(prices, targets) ELSE held)
    /\ shown' = cash' + Worth(held', prices)
    /\ quoted' = {a \in Portfolio : prices[a] # 0}
    /\ known' = [a \in Portfolio |-> IF prices[a] = 0 THEN known[a] ELSE prices[a]]
    /\ gain' = gain + SumFunction([a \in Portfolio |-> held[a] * (known'[a] - known[a])])
    /\ UNCHANGED rebalanceEvery

PortfolioNext ==
    \E prices \in {f \in [Portfolio -> UNION {PricesOf[a] : a \in Portfolio}] :
                      \A a \in Portfolio : f[a] \in PricesOf[a]},
       targets \in IF index % rebalanceEvery = 0
                   THEN UNION {[some -> TargetHalves] : some \in SUBSET Portfolio} ELSE {<<>>} :
        ResearchBar(prices, targets)

(***************************************************************************)
(* Through gaps in the prices, short positions and any targets, the wealth *)
(* at the last known prices is the initial cash plus what price changes    *)
(* earned on what was held, less a fee on every unit of turnover; and the  *)
(* curve falls short of that wealth by what is held without a price.       *)
(***************************************************************************)
WealthIsExplained ==
    LET wealth == cash + Worth(held, known)
    IN  /\ wealth = FeeDivisor * (InitialCash + gain) - turnover
        /\ wealth - shown = FeeDivisor * SumFunction([a \in Portfolio \ quoted |-> held[a] * known[a]])
=============================================================================
