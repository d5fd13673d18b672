-------------------------- MODULE SimulatedMarket --------------------------
(***************************************************************************)
(* The paper account behind POST /api/v1/orders (packages/market-engine):  *)
(* quotes with size slippage, immediate fills, average-cost positions that *)
(* may be long or short, an append-only ledger, bailouts, risk states.     *)
(*                                                                         *)
(* Units: prices, cash, fees and ledger entries are cents, quantities are  *)
(* halves of a unit (the schema accepts fractions), so quantity * price is *)
(* in half-cents.  The mid prices never change: nothing in src/ writes the *)
(* price table.                                                            *)
(*                                                                         *)
(* The code computes amounts in doubles and rounds them to cents.  A double *)
(* is off by far less than a cent, so this matters only where the exact    *)
(* amount lies half way between two cents: Short and Over name the amounts *)
(* whose double falls below or above, and their rounding follows it.       *)
(* Average entries and realized profits are never rounded: here they are   *)
(* the exact fractions that the code's doubles stand for.                  *)
(***************************************************************************)
EXTENDS Integers, FiniteSets, FiniteSetsExt

CONSTANTS
    Assets,
    Mid,          \* asset -> its mid price
    Quantities,   \* the quantities of the orders
    Grant,        \* the constructor's cashMinor
    Short,        \* the computed amounts whose double is less than the amount
    Over,         \* the computed amounts whose double is more
    Policy,       \* a MarginPolicy, its ratios in halves
    MaxOrders,    \* bound: filled orders
    MaxBailouts   \* bound: bailouts

ASSUME MarketAssumption ==
    /\ Mid \in [Assets -> Nat \ {0}]
    /\ Quantities \subseteq Nat \ {0}
    /\ Grant \in Nat

\* The limits of a policy are not negative (MarginPolicy says only that they are
\* numbers; a negative limit would be exceeded by an account without positions).
ASSUME PolicyAssumption ==
    /\ Policy.gross \in Nat /\ Policy.net \in Nat /\ Policy.concentration \in Nat
    /\ Policy.maintenance \in Int /\ Policy.liquidation \in Int

ASSUME MarketBounds == IsFiniteSet(Assets) /\ MaxOrders \in Nat /\ MaxBailouts \in Nat

Sides == {"BUY", "SELL", "SHORT", "COVER"}
Entries == {"INITIAL_GRANT", "TRADE_DEBIT", "TRADE_CREDIT", "TRADING_FEE", "BAILOUT"}

VARIABLES
    cash,        \* cashMinor
    ledger,      \* entry type -> sum of the entries of that type
    positions,   \* asset -> quantity, average entry and realized profit
    filled,      \* the number of orders in the list (all are FILLED)
    uneven,      \* history: how many of them came to half a cent
    bailouts     \* history: the number of bailouts

marketVars == <<cash, ledger, positions, filled, uneven, bailouts>>

(***************************************************************************)
(* Fractions <<numerator, denominator>>, in lowest terms.                  *)
(***************************************************************************)
Magnitude(n) == IF n < 0 THEN -n ELSE n
Signum(n) == IF n < 0 THEN -1 ELSE IF n > 0 THEN 1 ELSE 0

Gcd[p \in Nat \X Nat] == IF p[2] = 0 THEN p[1] ELSE Gcd[<<p[2], p[1] % p[2]>>]
Ratio(n, d) == LET g == Gcd[<<d, Magnitude(n)>>] IN <<Signum(n) * (Magnitude(n) \div g), d \div g>>
Plus(x, y) == Ratio(x[1] * y[2] + y[1] * x[2], x[2] * y[2])
Scale(k, x) == Ratio(k * x[1], x[2])
Whole(n) == <<n, 1>>

(***************************************************************************)
(* Quotes.                                                                 *)
(***************************************************************************)
Pays(side) == side \in {"BUY", "COVER"}
Direction(side) == IF Pays(side) THEN 1 ELSE -1

\* Where the double of a computed amount lies, seen from the amount.
Lean(amount) == IF amount \in Short THEN -1 ELSE IF amount \in Over THEN 1 ELSE 0

\* Math.round of half-cents, to cents: halves go up, negative ones too, unless
\* the double leans down.
Minor(halfCents, lean) == (2 * halfCents + lean + 2) \div 4

\* slip = min(0.005, quantity / 100000), in units of 1/200000; toFixed(2).
Slip(quantity) == IF quantity < 1000 THEN quantity ELSE 1000
Price(asset, side, quantity) ==
    LET slip == Direction(side) * Slip(quantity)
    IN Mid[asset] + (2 * (Mid[asset] * slip) + 200000 + Lean(<<"price", Mid[asset], slip>>)) \div 400000

\* A thousandth of the notional.
Fee(price, quantity) == (2 * (price * quantity) + 2000 + Lean(<<"fee", price, quantity>>)) \div 4000

(***************************************************************************)
(* Positions.                                                              *)
(***************************************************************************)
Flat == [quantity |-> 0, entry |-> Whole(0), realized |-> Whole(0)]

\* The position after a trade of `signed` at `price`: an increase averages
\* the entry, a decrease realizes profit, a crossing starts again at `price`.
Increases(p, signed) == p.quantity = 0 \/ Signum(signed) = Signum(p.quantity)

Increased(p, signed, price) ==
    LET held == Magnitude(p.quantity + signed)
    IN [quantity |-> p.quantity + signed,
        realized |-> p.realized,
        entry |-> Plus(Ratio(Magnitude(p.quantity) * p.entry[1], p.entry[2] * held),
                       Ratio(Magnitude(signed) * price, held))]

\* Mutant: the residual of a crossing keeps the old entry price.
ReducedOnly(p, signed, price) ==
    LET closed == Min({Magnitude(p.quantity), Magnitude(signed)})
    IN [quantity |-> p.quantity + signed,
        realized |-> Plus(p.realized, Scale(closed * Signum(p.quantity), Plus(Whole(price), Scale(-1, p.entry)))),
        entry |-> IF p.quantity + signed = 0 THEN Whole(0) ELSE p.entry]

Reduced(p, signed, price) ==
    LET left == p.quantity + signed
        closed == Min({Magnitude(p.quantity), Magnitude(signed)})
    IN [quantity |-> left,
        realized |-> Plus(p.realized, Scale(closed * Signum(p.quantity), Plus(Whole(price), Scale(-1, p.entry)))),
        entry |-> IF left = 0 THEN Whole(0)
                  ELSE IF Signum(left) # Signum(p.quantity) THEN Whole(price) ELSE p.entry]

Traded(p, signed, price) ==
    IF Increases(p, signed) THEN Increased(p, signed, price) ELSE Reduced(p, signed, price)

(***************************************************************************)
(* submitOrder().                                                          *)
(***************************************************************************)
Owns(asset, side, quantity) ==
    /\ side = "SELL" => positions[asset].quantity >= quantity
    /\ side = "COVER" => -positions[asset].quantity >= quantity

\* Mutant: the fee is not part of what the account must hold.
RequiredWithoutFee(side, price, quantity) ==
    IF Pays(side) THEN Minor(price * quantity, Lean(<<"notional", price, quantity>>)) ELSE 0

\* What the account must hold: the notional and the fee, or the fee of a sale.
Required(side, price, quantity) ==
    IF Pays(side)
    THEN Minor(price * quantity + 2 * Fee(price, quantity), Lean(<<"debit", price, quantity>>))
    ELSE Fee(price, quantity)

\* cashFlow, and what the cash moves by: the flow less the fee, rounded together.
Flow(side, price, quantity) ==
    Minor(-Direction(side) * (price * quantity), -Direction(side) * Lean(<<"notional", price, quantity>>))

CashMoves(side, price, quantity) ==
    IF Pays(side)
    THEN Minor(-(price * quantity) - 2 * Fee(price, quantity), -Lean(<<"debit", price, quantity>>))
    ELSE Minor(price * quantity - 2 * Fee(price, quantity), Lean(<<"credit", price, quantity>>))

\* Mutant: a sale is credited with what the cash moves by, and its fee entered again.
EnteredNet(book, side, price, quantity) ==
    [book EXCEPT ![IF Pays(side) THEN "TRADE_DEBIT" ELSE "TRADE_CREDIT"]
                     = @ + (IF Pays(side) THEN Flow(side, price, quantity) ELSE CashMoves(side, price, quantity)),
                 !["TRADING_FEE"] = @ - Fee(price, quantity)]

\* The two entries of a trade, rounded one by one.
Entered(book, side, price, quantity) ==
    [book EXCEPT ![IF Pays(side) THEN "TRADE_DEBIT" ELSE "TRADE_CREDIT"] = @ + Flow(side, price, quantity),
                 !["TRADING_FEE"] = @ - Fee(price, quantity)]

SubmitOrder(asset, side, quantity) ==
    LET price == Price(asset, side, quantity)
    IN /\ filled < MaxOrders
       /\ Owns(asset, side, quantity)
       /\ Required(side, price, quantity) <= cash
       /\ cash' = cash + CashMoves(side, price, quantity)
       /\ ledger' = Entered(ledger, side, price, quantity)
       /\ positions' = [positions EXCEPT ![asset] = Traded(@, Direction(side) * quantity, price)]
       /\ filled' = filled + 1
       /\ uneven' = uneven + ((price * quantity) % 2)
       /\ UNCHANGED bailouts

(***************************************************************************)
(* portfolio() and bailout().                                              *)
(***************************************************************************)
MarketValue(asset) == positions[asset].quantity * Mid[asset]
Net == MapThenSumSet(MarketValue, Assets)
Gross == LET Size(a) == Magnitude(MarketValue(a)) IN MapThenSumSet(Size, Assets)
Value == 2 * cash + Net

\* The value of an account with positions is a sum of doubles: what should be
\* 100 may come to less.
Bailout ==
    /\ bailouts < MaxBailouts
    /\ \/ Value < 20000
       \/ Value = 20000 /\ \E a \in Assets : positions[a].quantity # 0
    /\ cash' = cash + 50000
    /\ ledger' = [ledger EXCEPT !["BAILOUT"] = @ + 50000]
    /\ bailouts' = bailouts + 1
    /\ UNCHANGED <<positions, filled, uneven>>

MarketInit ==
    /\ cash = Grant
    /\ ledger = [e \in Entries |-> IF e = "INITIAL_GRANT" THEN Grant ELSE 0]
    /\ positions = [a \in Assets |-> Flat]
    /\ filled = 0
    /\ uneven = 0
    /\ bailouts = 0

MarketNext ==
    \/ \E a \in Assets, s \in Sides, q \in Quantities : SubmitOrder(a, s, q)
    \/ Bailout

MarketSpec == MarketInit /\ [][MarketNext]_marketVars

(***************************************************************************)
(* evaluateRisk(), for an account with positive equity or not.             *)
(***************************************************************************)
\* Severity: 1 OK, 2 MARGIN_CALL, 3 FORCED_DELEVERAGING, 4 LIQUIDATION, 5 BANKRUPTCY.
\* An exposure over the equity above its limit.
Overleveraged(equity, gross, net, largest) ==
    \/ 2 * gross > Policy.gross * equity
    \/ 2 * Magnitude(net) > Policy.net * equity
    \/ 2 * Magnitude(largest) > Policy.concentration * equity

\* Mutant: the leverage limits are looked at before the maintenance margin.
EvaluateLimitsFirst(equity, gross, net, largest) ==
    IF equity <= 0 THEN 5
    ELSE IF equity <= Policy.liquidation THEN 4
    ELSE IF Overleveraged(equity, gross, net, largest) THEN 2
    ELSE IF 2 * equity < Policy.maintenance * gross THEN 3 ELSE 1

EvaluateRisk(equity, gross, net, largest) ==
    IF equity <= 0 THEN 5
    ELSE IF equity <= Policy.liquidation THEN 4
    ELSE IF 2 * equity < Policy.maintenance * gross THEN 3
    ELSE IF Overleveraged(equity, gross, net, largest) THEN 2 ELSE 1

(***************************************************************************)
(* Properties.                                                             *)
(***************************************************************************)
LedgerTotal == ledger["INITIAL_GRANT"] + ledger["TRADE_DEBIT"] + ledger["TRADE_CREDIT"]
               + ledger["TRADING_FEE"] + ledger["BAILOUT"]

\* The account's variables have their types; an entry price belongs to an open position.
MarketTypeOK ==
    /\ cash \in Int
    /\ ledger \in [Entries -> Int]
    /\ DOMAIN positions = Assets
    /\ \A a \in Assets :
         /\ positions[a].quantity \in Int /\ positions[a].realized[2] > 0
         /\ positions[a].entry[1] >= 0 /\ positions[a].entry[2] > 0
         /\ positions[a].quantity = 0 <=> positions[a].entry = Whole(0)
    /\ filled \in 0 .. MaxOrders /\ uneven \in 0 .. filled /\ bailouts \in 0 .. MaxBailouts

\* docs/architecture/market-accounting.md: "Account cash must equal the sum of
\* its ledger at all times."  submitOrder() rounds the flow and the fee together
\* for the one and one by one for the other.
LedgerBalances == cash = LedgerTotal

\* The cash and the ledger part by at most a cent for each order that came to
\* half a cent, and by nothing else: no order, bailout, average or crossing is
\* entered in one of them only.
LedgerFollows == Magnitude(cash - LedgerTotal) <= uneven

\* No order, short sales included, takes the cash below zero.
CashNeverNegative == cash >= 0

\* Equity is what was granted plus realized and unrealized profit less fees,
\* through every average, partial close and crossing: an order that comes to
\* half a cent leaves that half cent, in or against the account's favour, and
\* nothing else is left.  An entry price belongs to an open position.
ProfitExplainsEquity ==
    LET Profit(a) == Plus(positions[a].realized,
                          Scale(positions[a].quantity, Plus(Whole(Mid[a]), Scale(-1, positions[a].entry))))
        profit == FoldSet(LAMBDA a, total : Plus(total, Profit(a)), Whole(0), Assets)
        paid == 2 * (ledger["INITIAL_GRANT"] + ledger["BAILOUT"] + ledger["TRADING_FEE"])
        dust == Plus(Whole(Value - paid), Scale(-1, profit))
    IN MarketTypeOK /\ (filled + bailouts > 0 => dust[2] = 1 /\ dust[1] \in -uneven .. uneven)

\* At the exposures of an account that has traded, less equity never means a
\* milder state, and with nothing left it is bankrupt whatever it holds.
RiskNeverEases ==
    LET Percents == {0, 1, 5, 20, 40, 60, 120, 1000}
        largest == Max({0} \cup {Magnitude(MarketValue(a)) : a \in Assets})
        gross == Gross
        net == Net
        Risk == [percent \in Percents |-> EvaluateRisk(percent * (gross \div 100), gross, net, largest)]
    IN filled > 0 => \A p, q \in Percents : p < q => Risk[p] >= Risk[q]
=============================================================================
