------------------------------- MODULE MCLab -------------------------------
(***************************************************************************)
(* The laboratory around the book, for TLC: clock, backtest, behavior,     *)
(* trading rules and scenarios of the C++ side, the rules of indexes, the  *)
(* backtest of packages/analytics, what is derived from recordings, and    *)
(* the estimators of the research packages.                                *)
(* They share no state, so a behavior is one of any: `part` says which.    *)
(***************************************************************************)
EXTENDS Scheduler, Backtest, Behavior, TradingRules, Scenarios, IndexRules,
        PortfolioBacktest, ObservedSeries, Estimators

VARIABLE part

vars == <<part, schedulerVars, backtestVars, behaviorVars, rulesVars, scenarioVars, indexVars,
          portfolioVars, seriesVars, sample>>

\* A thread of three under its root 1, and a reply 5 to an unobserved post 4.
MCParent == <<0, 1, 2, 0, 4>>
Event(type, record, parentRecord, cascade, expressions) ==
    [type |-> type, record |-> record, parent |-> parentRecord,
     cascade |-> cascade, expressions |-> expressions]
MCEvents ==
    {Event("create", 1, 0, 1, {1, 2}), Event("reply", 2, 1, 1, {1}),
     Event("reply", 3, 2, 1, {1, 2}), Event("like", 0, 3, 1, {1, 2}),
     Event("reply", 5, 4, 4, {1})}

\* Limits that let a shock through, and one that stops it at each check it can meet.
MCLimits ==
    {[size |-> 10000, position |-> 50000, gross |-> 5000000, leverage |-> 3, collar |-> 100],
     [size |-> 500, position |-> 50000, gross |-> 5000000, leverage |-> 3, collar |-> 100],
     [size |-> 10000, position |-> 2000, gross |-> 5000000, leverage |-> 3, collar |-> 100],
     [size |-> 10000, position |-> 50000, gross |-> 950000, leverage |-> 3, collar |-> 100],
     [size |-> 10000, position |-> 50000, gross |-> 5000000, leverage |-> 1, collar |-> 100]}
\* Quotes that do not lean, and two that do.
MCDesks ==
    {[kind |-> "desk", half |-> 1, perTick |-> 0], [kind |-> "desk", half |-> 1, perTick |-> 20],
     [kind |-> "desk", half |-> 2, perTick |-> 10]}
MCCaps == {<<1, 4>>, <<1, 3>>, <<2, 5>>, <<1, 2>>, <<1, 1>>}
MCRanked == <<1, 2, 3, 4>>
\* The second asset is not always quoted.
MCPrices == <<{1, 2}, {0, 1, 2}>>
MCTargets == {1, 2, -1}
MCCounts ==
    {[eligible |-> 0, expressed |-> 0], [eligible |-> 2, expressed |-> 0], [eligible |-> 3, expressed |-> 2]}

\* More than ten authors, and some who wrote nothing.
MCAuthorCounts ==
    BoundedSeq(0 .. 3, 4) \cup {[i \in 1 .. n |-> IF i = 1 THEN 2 ELSE 1] : n \in 9 .. 12}
        \cup {[i \in 1 .. 11 |-> IF i = 11 THEN 0 ELSE 1]}
MCMoves == {-2, 0, 1}
MCZSquare == <<4, 1>>
MCValues == {-1, 0, 2}
MCAlpha == <<1, 4>>
\* Large enough for pivots of small integers on either side of it.
MCTolerance == <<3, 4>>

Init ==
    /\ part \in {"scheduler", "backtest", "behavior", "rules", "scenario", "index", "portfolio", "series", "estimate"}
    /\ SchedulerInit /\ BehaviorInit
    /\ IF part = "backtest" THEN BacktestInit ELSE every = 1 /\ delay = 1 /\ BacktestInit
    /\ IF part = "rules" THEN RulesInit ELSE orders = <<>> /\ parent = <<>>
    /\ IF part = "scenario" THEN plan \in Plans ELSE plan = [kind |-> "race", latency |-> FastOrder]
    /\ ScenarioStart
    /\ IF part = "index" THEN rule \in Rules ELSE rule = [kind |-> "history"]
    /\ NoHistory
    /\ IF part = "portfolio" THEN PortfolioInit ELSE rebalanceEvery = 1 /\ PortfolioInit
    /\ IF part = "series" THEN SeriesInit ELSE lines = <<>> /\ NoSeries
    /\ IF part = "estimate" THEN SampleInit ELSE sample = NoSample

Next ==
    /\ UNCHANGED <<part, sample>>
    /\ \/ /\ part = "scheduler" /\ SchedulerNext
          /\ UNCHANGED <<backtestVars, behaviorVars, rulesVars, scenarioVars, indexVars, portfolioVars, seriesVars>>
       \/ /\ part = "backtest" /\ Bar
          /\ UNCHANGED <<schedulerVars, behaviorVars, rulesVars, scenarioVars, indexVars, portfolioVars, seriesVars>>
       \/ /\ part = "behavior" /\ BehaviorNext
          /\ UNCHANGED <<schedulerVars, backtestVars, rulesVars, scenarioVars, indexVars, portfolioVars, seriesVars>>
       \/ /\ part = "scenario" /\ ScenarioNext
          /\ UNCHANGED <<schedulerVars, backtestVars, behaviorVars, rulesVars, indexVars, portfolioVars, seriesVars>>
       \/ /\ part = "index" /\ IndexNext
          /\ UNCHANGED <<schedulerVars, backtestVars, behaviorVars, rulesVars, scenarioVars, portfolioVars, seriesVars>>
       \/ /\ part = "portfolio" /\ PortfolioNext
          /\ UNCHANGED <<schedulerVars, backtestVars, behaviorVars, rulesVars, scenarioVars, indexVars, seriesVars>>
       \/ /\ part = "series" /\ SeriesNext
          /\ UNCHANGED <<schedulerVars, backtestVars, behaviorVars, rulesVars, scenarioVars, indexVars, portfolioVars>>

Spec == Init /\ [][Next]_vars

\* What is computed in exact fractions is what its definition says, for every argument:
\* capped weights, replayed indexes and daily closes, and estimators.
FormulasAgree == CapsAreHonored /\ ReplayIsCanonical /\ EstimatesAgree
=============================================================================
