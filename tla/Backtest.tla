------------------------------ MODULE Backtest ------------------------------
(***************************************************************************)
(* The bar loop of the backtest (cpp/src/backtest/engine.cpp, run()): what *)
(* a strategy decides at a rebalance is pending until its delay is over,   *)
(* then trades.  One step is one bar.                                      *)
(*                                                                         *)
(* A quantity is kept as the weight it was bought for: prices, leverage,   *)
(* costs and statistics are floating point and stay out.  Of the assets    *)
(* that hold or are to hold something any may trade and any may not: one   *)
(* without a price is skipped, and so is one already at its size.          *)
(***************************************************************************)
EXTENDS Naturals, Sequences

CONSTANTS Assets, Weights,
          Bars,      \* timestamps.size()
          MaxEvery,  \* bound: rebalance_every
          MaxDelay   \* bound: execution_delay_bars

ASSUME BacktestAssumption ==
    Bars \in Nat \ {0} /\ MaxEvery \in Nat \ {0} /\ MaxDelay \in Nat

VARIABLES
    every, delay,  \* config.rebalance_every, config.execution_delay_bars
    bar,           \* the loop variable
    pending,       \* the optional: at most one [at, decided, targets]
    quantity,      \* per asset: the weight it holds
    origin,        \* history: per asset, the bar its quantity was decided on
    executed       \* history: the bars whose decisions were executed

backtestVars == <<every, delay, bar, pending, quantity, origin, executed>>

Targets == [Assets -> Weights]

BacktestInit ==
    /\ every \in 1 .. MaxEvery
    /\ delay \in 0 .. MaxDelay
    /\ bar = 0
    /\ pending = {}
    /\ quantity = [a \in Assets |-> 0]
    /\ origin = [a \in Assets |-> Bars]
    /\ executed = {}

\* The mutant that decides first: today's decision replaces what is due.
DueUnlessRebalance == {p \in pending : p.at = bar /\ bar % every # 0}

\* The pending targets whose bar has come.
Due == {p \in pending : p.at = bar}

Execute(p) ==
    \E traded \in SUBSET {a \in Assets : p.targets[a] # 0 \/ quantity[a] # 0} :
        /\ quantity' = [a \in Assets |-> IF a \in traded THEN p.targets[a] ELSE quantity[a]]
        /\ origin' = [a \in Assets |-> IF a \in traded THEN p.decided ELSE origin[a]]
        /\ executed' = executed \union {p.decided}

ExecuteDue ==
    \/ \E p \in Due : Execute(p)
    \/ Due = {} /\ UNCHANGED <<quantity, origin, executed>>

\* A rebalance whose decision can still execute before the data ends.
Rebalances(b) == b % every = 0 /\ b + delay < Bars

\* The strategy sees the bars up to this one (DataView) and may want anything.
Decide ==
    \/ /\ Rebalances(bar)
       /\ \E targets \in Targets :
              pending' = {[at |-> bar + delay, decided |-> bar, targets |-> targets]}
    \/ ~Rebalances(bar) /\ pending' = pending \ Due

Bar ==
    /\ bar < Bars
    /\ ExecuteDue
    /\ Decide
    /\ bar' = bar + 1
    /\ UNCHANGED <<every, delay>>

BacktestSpec == BacktestInit /\ [][Bar]_backtestVars

(***************************************************************************)
(* Properties                                                              *)
(***************************************************************************)

\* A later decision that came before the delay of this one was over.
Superseded(d) == \E b \in 0 .. Bars - 1 : d < b /\ b < d + delay /\ Rebalances(b)

\* A decision executes on the bar its delay ends unless a later one replaced
\* it, and nothing else executes: with a delay of at most the interval that
\* is every decision, with a longer one only the last of the data, with a
\* delay of 0 none.  What is held comes from an executed decision: no
\* look-ahead.  (run(): the order of execution and rebalance in a bar.)
DecisionsExecute ==
    /\ executed = {d \in 0 .. Bars - 1 :
                       Rebalances(d) /\ ~Superseded(d) /\ delay # 0 /\ d + delay < bar}
    /\ \A a \in Assets : quantity[a] # 0 => origin[a] \in executed
=============================================================================
