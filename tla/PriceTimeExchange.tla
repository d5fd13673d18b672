------------------------- MODULE PriceTimeExchange -------------------------
(***************************************************************************)
(* What CULT-X promises its agents, with no lists, locators or events: a   *)
(* set of resting orders, one incoming order at a time, and price priority *)
(* before arrival.  The order book (OrderBook.tla) implements it.          *)
(***************************************************************************)
EXTENDS Integers

CONSTANT NoOrder

VARIABLES
    open,      \* whether the instrument takes new orders
    resting,   \* set of [id, agent, side, price, qty, arrival]
    incoming   \* the order being executed: [id, agent, side, price, accepts (a
               \* set of prices), qty, mayRest, allOrNothing]

vars == <<open, resting, incoming>>

Init == open = TRUE /\ resting = {} /\ incoming = NoOrder

Idle == incoming = NoOrder

(* o goes before p: better price, or the same price and earlier arrival.   *)
Before(o, p) ==
    \/ IF o.side = "buy" THEN o.price > p.price ELSE o.price < p.price
    \/ /\ o.price = p.price
       /\ o.arrival < p.arrival

Acceptable == {o \in resting : o.side # incoming.side /\ o.price \in incoming.accepts}

(* The only order the incoming one may deal with next.                     *)
IsCounterpart(o) ==
    o \in Acceptable /\ \A p \in Acceptable \ {o} : Before(o, p)

(* An order enters: the instrument is open and its id is not in use.       *)
Enter(used) ==
    /\ open
    /\ incoming' # NoOrder
    /\ incoming'.qty > 0
    /\ \A o \in used : o.id # incoming'.id

Admit ==
    /\ Idle
    /\ Enter(resting)
    /\ UNCHANGED <<open, resting>>

(* Two agents trade as much as both can; a partly filled maker keeps its arrival. *)
Trade ==
    /\ ~Idle /\ incoming.qty > 0
    /\ \E o \in resting :
         LET q == IF o.qty <= incoming.qty THEN o.qty ELSE incoming.qty
         IN  /\ IsCounterpart(o)
             /\ o.agent # incoming.agent
             /\ resting' = (resting \ {o}) \cup
                           (IF q < o.qty THEN {[o EXCEPT !.qty = @ - q]} ELSE {})
             /\ incoming' = [incoming EXCEPT !.qty = @ - q]
    /\ UNCHANGED open

(* An agent never trades with itself: its older order, its newer, or both give way. *)
PreventSelfTrade ==
    /\ ~Idle /\ incoming.qty > 0
    /\ \E o \in resting :
         LET stopped == [incoming EXCEPT !.accepts = {}, !.mayRest = FALSE]
         IN  /\ IsCounterpart(o)
             /\ o.agent = incoming.agent
             /\ \/ /\ resting' = resting
                   /\ incoming' = stopped
                \/ /\ resting' = resting \ {o}
                   /\ incoming' \in {incoming, stopped}
    /\ UNCHANGED open

(* What could not trade rests, behind everything that was there before.    *)
Rest ==
    /\ ~Idle /\ incoming.qty > 0 /\ incoming.mayRest /\ Acceptable = {}
    /\ \E o \in resting' :
         /\ resting' = resting \cup {o}
         /\ \A p \in resting : p.arrival < o.arrival
         /\ <<o.id, o.agent, o.side, o.price, o.qty>> =
               <<incoming.id, incoming.agent, incoming.side, incoming.price, incoming.qty>>
    /\ incoming' = NoOrder
    /\ UNCHANGED open

(* The order leaves: filled, or with a remainder that may not rest.        *)
Leave ==
    /\ ~Idle
    /\ incoming.qty > 0 => ~incoming.mayRest /\ Acceptable = {} /\ ~incoming.allOrNothing
    /\ incoming' = NoOrder
    /\ UNCHANGED <<open, resting>>

Withdraw ==
    /\ Idle
    /\ \E o \in resting : resting' = resting \ {o}
    /\ UNCHANGED <<open, incoming>>

(* Reducing an order keeps its price and its arrival.                      *)
Reduce ==
    /\ Idle
    /\ \E o \in resting : \E q \in 1 .. o.qty :
           resting' = (resting \ {o}) \cup {[o EXCEPT !.qty = q]}
    /\ UNCHANGED <<open, incoming>>

(* Any other change of an order is a withdrawal and a new arrival.         *)
Requote ==
    /\ Idle
    /\ \E o \in resting :
         /\ resting' = resting \ {o}
         /\ Enter(resting')
         /\ <<o.id, o.agent, o.side>> = <<incoming'.id, incoming'.agent, incoming'.side>>
    /\ UNCHANGED open

ChangeState ==
    /\ Idle
    /\ open' \in BOOLEAN
    /\ UNCHANGED <<resting, incoming>>

Next == Admit \/ Trade \/ PreventSelfTrade \/ Rest \/ Leave
            \/ Withdraw \/ Reduce \/ Requote \/ ChangeState

Spec == Init /\ [][Next]_vars
=============================================================================
