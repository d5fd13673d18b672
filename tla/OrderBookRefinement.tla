------------------------ MODULE OrderBookRefinement ------------------------
(***************************************************************************)
(* The refinement mapping from the order book to the price-time exchange:  *)
(* the lists become a set of orders whose arrival is accepted_sequence.    *)
(***************************************************************************)
EXTENDS OrderBook

RestingOrders ==
    UNION {{LET o == OrderAt(side, spot)
            IN  [id |-> o.id, agent |-> o.agent, side |-> side, price |-> spot[1],
                 qty |-> o.qty, arrival |-> o.seq] : spot \in Spots(side)} : side \in Side}

IncomingOrder ==
    IF Idle THEN NoTaker
    ELSE [id |-> taker.req.id, agent |-> taker.req.agent, side |-> taker.req.side,
          price |-> taker.req.price, qty |-> taker.remaining, mayRest |-> Restable,
          accepts |-> {p \in Prices : ~taker.stopped /\ Accepts(taker.req, p)},
          allOrNothing |-> taker.req.tif = "fill_or_kill"]

\* The absent order is not an order on its way.
ASSUME NoTakerAssumption ==
    NoTaker \notin [id : OrderIds, agent : Agents, side : Side, price : 0 .. MaxPrice,
                    qty : 0 .. MaxQuantity, mayRest : BOOLEAN, accepts : SUBSET Prices,
                    allOrNothing : BOOLEAN]

Exchange == INSTANCE PriceTimeExchange
    WITH NoOrder <- NoTaker, open <- state = "open",
         resting <- RestingOrders, incoming <- IncomingOrder

(***************************************************************************)
(* The book implements the exchange: every trade is with the order of best *)
(* price and earliest accepted_sequence, no agent trades with itself, only *)
(* a reduction keeps an order's place, remainders rest behind earlier      *)
(* orders and never where they could trade, a fill_or_kill order leaves    *)
(* filled or untraded, and nothing new enters unless the book is open.     *)
(***************************************************************************)
ImplementsExchange == Exchange!Spec
=============================================================================
