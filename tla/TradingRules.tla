---------------------------- MODULE TradingRules ----------------------------
(***************************************************************************)
(* The rules of CULT-X that are functions of their arguments: the price of *)
(* the reopening auction (cpp/src/exchange/simulator.cpp) and the slicing  *)
(* of a parent order by time or by volume (cpp/src/exchange/strategy.cpp). *)
(* A behavior is one call: its arguments are chosen, then nothing happens. *)
(***************************************************************************)
EXTENDS Integers, Sequences, FiniteSets, SequencesExt, FiniteSetsExt, Functions

CONSTANTS AuctionPrices, AuctionQuantities,  \* what auction orders may hold
          AuctionSize,                       \* bound: orders of an auction
          MaxParent,                         \* bound: the parent quantity
          Shares, MaxSlices,                 \* a volume profile and its length
          Spans                              \* end - start of a TWAP

ASSUME RulesAssumption ==
    /\ AuctionPrices \subseteq Int /\ AuctionQuantities \subseteq Nat /\ AuctionSize \in Nat
    /\ MaxParent \in Nat /\ Shares \subseteq Nat /\ MaxSlices \in Nat /\ Spans \subseteq Int

VARIABLES
    orders,  \* the orders of an auction
    parent   \* [total, profile, span] of a parent order

rulesVars == <<orders, parent>>

AuctionOrder == [side : {"buy", "sell"}, price : AuctionPrices, quantity : AuctionQuantities]
ParentOrder == [total : 1 .. MaxParent, profile : BoundedSeq(Shares, MaxSlices), span : Spans]

(***************************************************************************)
(* reopening_auction_price                                                 *)
(***************************************************************************)

Volume(some) == SumFunction([i \in some |-> orders[i].quantity])
Buys(price) == Volume({i \in DOMAIN orders : orders[i].side = "buy" /\ orders[i].price >= price})
Sells(price) == Volume({i \in DOMAIN orders : orders[i].side = "sell" /\ orders[i].price <= price})
Matched(price) == Min({Buys(price), Sells(price)})
Imbalance(price) == Max({Buys(price) - Sells(price), Sells(price) - Buys(price)})

\* The prices of orders that could trade; the auction has no price without.
Candidates == {o.price : o \in {o \in Range(orders) : o.price > 0 /\ o.quantity > 0}}

\* The mutant whose ties go to the last price visited.
BetterOrEqual(price, best) ==
    \/ Matched(price) > Matched(best)
    \/ Matched(price) = Matched(best) /\ Imbalance(price) <= Imbalance(best)

\* Whether `price` takes over from `best`: the loop visits prices upwards.
Better(price, best) ==
    \/ Matched(price) > Matched(best)
    \/ /\ Matched(price) = Matched(best)
       /\ \/ Imbalance(price) < Imbalance(best)
          \/ Imbalance(price) = Imbalance(best) /\ price < best

\* The candidates as std::sort and std::unique leave them.
Ascending ==
    CHOOSE s \in [1 .. Cardinality(Candidates) -> Candidates] :
        \A i, j \in 1 .. Cardinality(Candidates) : i < j => s[i] < s[j]

\* One price of the loop, which starts from the first.
Visit(best, price) == IF Better(price, best) THEN price ELSE best

AuctionPrice == FoldLeft(Visit, Ascending[1], Ascending)

(***************************************************************************)
(* twap_schedule, vwap_schedule                                            *)
(***************************************************************************)

\* A parent order the slicing does not throw at.
Sliceable(p) == Len(p.profile) > 0 /\ SumFunction(p.profile) > 0 /\ p.span > 0

\* As many slices as the profile has, each [time, quantity].
Twap(p) ==
    LET n == Len(p.profile) IN
    [i \in 1 .. n |-> [time |-> (i - 1) * (p.span \div n),
                       quantity |-> p.total \div n + (IF i - 1 < p.total % n THEN 1 ELSE 0)]]

\* llround(total * share / sum), in integers.
ShareOf(total, share, sum) == (2 * total * share + sum) \div (2 * sum)

\* A slice never takes more than is left; the last takes the rest.
Amount(p, i, assigned) ==
    LET rest == p.total - assigned IN
    IF i = Len(p.profile) THEN rest
    ELSE Min({ShareOf(p.total, p.profile[i], SumFunction(p.profile)), rest})

Vwap(p) ==
    FoldLeft(LAMBDA slices, i : Append(slices, Amount(p, i, SumFunction(slices))),
             <<>>, [i \in DOMAIN p.profile |-> i])

RulesInit ==
    \/ orders \in BoundedSeq(AuctionOrder, AuctionSize) /\ parent = <<>>
    \/ orders = <<>> /\ parent \in {p \in ParentOrder : Sliceable(p)}

(***************************************************************************)
(* Properties                                                              *)
(***************************************************************************)

\* The auction's price trades the most; of those prices it leaves the least
\* imbalance; of those it is the lowest: whatever sides the orders are on,
\* and with orders of no price or quantity among them.  (The order in which
\* reopening_auction_price visits prices must not show.)
AuctionClears ==
    Candidates # {} =>
        LET most == {p \in Candidates : \A q \in Candidates : Matched(q) <= Matched(p)}
            even == {p \in most : \A q \in most : Imbalance(p) <= Imbalance(q)}
        IN AuctionPrice = Min(even)

\* The slices of a parent order add up to it, none is negative; by time they
\* differ by one at most and start before the end; by volume all but the last
\* stay within a lot of their share.  (twap_schedule and vwap_schedule.)
SlicesAddUp ==
    parent # <<>> =>
        LET t == Twap(parent)
            v == Vwap(parent)
            sum == SumFunction(parent.profile)
        IN /\ SumFunction([i \in DOMAIN t |-> t[i].quantity]) = parent.total
           /\ \A i, j \in DOMAIN t : t[i].quantity <= t[j].quantity + 1
           /\ \A i \in DOMAIN t : t[i].quantity >= 0 /\ t[i].time < parent.span
           /\ SumFunction(v) = parent.total
           /\ \A i \in DOMAIN v : v[i] >= 0
           /\ \A i \in 1 .. Len(v) - 1 :
                  v[i] * sum - parent.total * parent.profile[i] < sum

\* The rules hold for every auction and every parent order.
TradingRulesHold == AuctionClears /\ SlicesAddUp
=============================================================================
