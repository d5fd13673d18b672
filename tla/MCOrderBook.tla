---------------------------- MODULE MCOrderBook ----------------------------
(* The order book with its views and its refinement, for TLC.              *)
EXTENDS OrderBookRefinement, OrderBookViews, TLC

\* Order ids and agents are only compared for equality.
Symmetry == Permutations(OrderIds) \cup Permutations(Agents)
=============================================================================
