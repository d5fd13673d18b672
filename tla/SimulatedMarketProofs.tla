----------------------- MODULE SimulatedMarketProofs -----------------------
(***************************************************************************)
(* The account's cash follows its ledger and never goes negative, and its  *)
(* profit explains its equity, for every set of assets, price table, order *)
(* size, number of orders, and whatever way the doubles of its amounts     *)
(* lean (Short and Over).                                                  *)
(***************************************************************************)
EXTENDS Api, SumProofs

\* A double is below its amount, on it or above it.
LEMMA Leans == ASSUME NEW amount PROVE Lean(amount) \in {-1, 0, 1}
  BY DEF Lean

\* Rounding gives one of the two cents next to an odd number of half-cents, and the
\* exact cents of an even one.
LEMMA MinorIs ==
    ASSUME NEW h \in Int, NEW l \in {-1, 0, 1}
    PROVE  Minor(h, l) \in Int /\ 2 * Minor(h, l) - h \in {-(h % 2), h % 2}
  BY DEF Minor

\* A number of half-cents is as odd as its negative, and whole cents change nothing.
LEMMA OddIs ==
    ASSUME NEW h \in Nat, NEW f \in Nat
    PROVE  /\ h % 2 \in {0, 1}
           /\ (-h) % 2 = h % 2 /\ (-h - 2 * f) % 2 = h % 2 /\ (h - 2 * f) % 2 = h % 2
  OBVIOUS

\* What is paid is not more than what was required, and a sale brings in at least
\* what was required, its fee, less that fee.
LEMMA MinorFavours ==
    ASSUME NEW h \in Nat, NEW f \in Nat, NEW l \in {-1, 0, 1}
    PROVE  /\ Minor(h + 2 * f, l) + Minor(-h - 2 * f, -l) >= 0
           /\ f + Minor(h - 2 * f, l) >= 0
  BY DEF Minor

\* A quote is a price and a fee; the price is at least a cent, since the slippage is
\* at most half a percent.
LEMMA QuoteType ==
    ASSUME MarketAssumption, NEW a \in Assets, NEW s \in Sides, NEW q \in Quantities
    PROVE  /\ Price(a, s, q) \in Nat \ {0}
           /\ Fee(Price(a, s, q), q) \in Nat
           /\ Price(a, s, q) * q \in Nat
           /\ q \in Nat \ {0}
  <1>1. q \in Nat \ {0} /\ Mid[a] \in Nat \ {0}
    BY DEF MarketAssumption
  <1>2. Slip(q) \in 0 .. 1000 /\ Direction(s) \in {-1, 1}
    BY <1>1 DEF Slip, Direction
  <1> DEFINE m == Mid[a]  k == Slip(q)  i == m * k  slip == Direction(s) * k
             lean == Lean(<<"price", m, slip>>)
  <1>3. m \in Nat \ {0} /\ i \in Nat /\ i <= 1000 * m
    <2>1. m \in Nat \ {0} /\ k \in 0 .. 1000
      BY <1>1, <1>2
    <2> HIDE DEF m, k
    <2> QED BY <2>1
  <1>4. m * slip \in {i, -i}
    BY <1>1, <1>2
  <1>5. lean \in {-1, 0, 1}
    BY Leans
  <1>6. Price(a, s, q) = m + (2 * (m * slip) + 200000 + lean) \div 400000
    BY DEF Price
  <1>7. Price(a, s, q) \in Nat \ {0}
    <2> HIDE DEF m, k, i, slip, lean
    <2>1. m + (2 * i + 200000 + lean) \div 400000 \in Nat \ {0}
      BY <1>3, <1>5
    <2>2. m + (2 * (-i) + 200000 + lean) \div 400000 \in Nat \ {0}
      BY <1>3, <1>5
    <2> QED BY <1>4, <1>6, <2>1, <2>2
  <1>8. Price(a, s, q) * q \in Nat
    BY <1>1, <1>7
  <1>9. Fee(Price(a, s, q), q) \in Nat
    <2> DEFINE h == Price(a, s, q) * q  tilt == Lean(<<"fee", Price(a, s, q), q>>)
    <2>1. Fee(Price(a, s, q), q) = (2 * h + 2000 + tilt) \div 4000
      BY DEF Fee
    <2>2. h \in Nat /\ tilt \in {-1, 0, 1}
      BY <1>8, Leans
    <2> HIDE DEF h, tilt
    <2> QED BY <2>1, <2>2
  <1> QED
    BY <1>1, <1>7, <1>8, <1>9

\* The amounts of an order: the entries of the ledger and the change of the cash part
\* by at most a cent, and from the exact amount by at most half of one, both only when
\* the order comes to half a cent; and what is required covers what is paid.
LEMMA OrderAmounts ==
    ASSUME MarketAssumption, NEW a \in Assets, NEW s \in Sides, NEW q \in Quantities,
           NEW p, p = Price(a, s, q)
    PROVE  /\ (p * q) % 2 \in {0, 1}
           /\ Required(s, p, q) \in Int /\ CashMoves(s, p, q) \in Int /\ Flow(s, p, q) \in Int
           /\ Required(s, p, q) + CashMoves(s, p, q) >= 0
           /\ CashMoves(s, p, q) - Flow(s, p, q) + Fee(p, q) \in -((p * q) % 2) .. ((p * q) % 2)
           /\ 2 * (CashMoves(s, p, q) + Fee(p, q)) + Direction(s) * (p * q) \in -((p * q) % 2) .. ((p * q) % 2)
  <1> DEFINE h == p * q  f == Fee(p, q)  odd == h % 2
             ld == Lean(<<"debit", p, q>>)  lc == Lean(<<"credit", p, q>>)  ln == Lean(<<"notional", p, q>>)
  <1>1. h \in Nat /\ f \in Nat
    BY QuoteType
  <1>2. ld \in {-1, 0, 1} /\ lc \in {-1, 0, 1} /\ ln \in {-1, 0, 1} /\ -ld \in {-1, 0, 1} /\ -ln \in {-1, 0, 1}
    <2>1. ld \in {-1, 0, 1} /\ lc \in {-1, 0, 1} /\ ln \in {-1, 0, 1}
      BY Leans
    <2> HIDE DEF ld, lc, ln
    <2> QED BY <2>1
  <1>3. /\ Pays(s) => /\ Direction(s) = 1 /\ Required(s, p, q) = Minor(h + 2 * f, ld)
                      /\ CashMoves(s, p, q) = Minor(-h - 2 * f, -ld)
        /\ ~Pays(s) => /\ Direction(s) = -1 /\ Required(s, p, q) = f
                       /\ CashMoves(s, p, q) = Minor(h - 2 * f, lc)
    BY DEF Direction, Required, CashMoves
  <1>4. /\ Pays(s) => Flow(s, p, q) = Minor(-h, -ln)
        /\ ~Pays(s) => Flow(s, p, q) = Minor(h, ln)
    <2>1. \A d \in {-1, 1} : -d * h = (IF d = 1 THEN -h ELSE h) /\ -d * ln = (IF d = 1 THEN -ln ELSE ln)
      <3> HIDE DEF h, ln
      <3> QED BY <1>1, <1>2
    <2>2. Flow(s, p, q) = Minor(-Direction(s) * h, -Direction(s) * ln)
      BY DEF Flow
    <2> HIDE DEF h, ln
    <2> QED BY <1>3, <2>1, <2>2
  <1> HIDE DEF h, f, ld, lc, ln
  <1>5. /\ Minor(h + 2 * f, ld) + Minor(-h - 2 * f, -ld) >= 0
        /\ f + Minor(h - 2 * f, lc) >= 0
    BY <1>1, <1>2, MinorFavours
  <1>6. Minor(h + 2 * f, ld) \in Int
    <2>1. h + 2 * f \in Int
      BY <1>1
    <2> QED BY <1>2, <2>1, MinorIs
  <1>7. odd \in {0, 1} /\ (-h) % 2 = odd /\ (-h - 2 * f) % 2 = odd /\ (h - 2 * f) % 2 = odd
    BY <1>1, OddIs
  <1>8. /\ Minor(-h - 2 * f, -ld) \in Int /\ 2 * Minor(-h - 2 * f, -ld) - (-h - 2 * f) \in {-odd, odd}
        /\ Minor(h - 2 * f, lc) \in Int /\ 2 * Minor(h - 2 * f, lc) - (h - 2 * f) \in {-odd, odd}
        /\ Minor(-h, -ln) \in Int /\ 2 * Minor(-h, -ln) - (-h) \in {-odd, odd}
        /\ Minor(h, ln) \in Int /\ 2 * Minor(h, ln) - h \in {-odd, odd}
    <2>1. -h - 2 * f \in Int /\ h - 2 * f \in Int /\ -h \in Int /\ h \in Int
      BY <1>1
    <2>2. Minor(-h - 2 * f, -ld) \in Int /\ 2 * Minor(-h - 2 * f, -ld) - (-h - 2 * f) \in {-odd, odd}
      BY <1>2, <1>7, <2>1, MinorIs
    <2>3. Minor(h - 2 * f, lc) \in Int /\ 2 * Minor(h - 2 * f, lc) - (h - 2 * f) \in {-odd, odd}
      BY <1>2, <1>7, <2>1, MinorIs
    <2>4. Minor(-h, -ln) \in Int /\ 2 * Minor(-h, -ln) - (-h) \in {-odd, odd}
      BY <1>2, <1>7, <2>1, MinorIs
    <2>5. Minor(h, ln) \in Int /\ 2 * Minor(h, ln) - h \in {-odd, odd}
      BY <1>2, <2>1, MinorIs
    <2> QED BY <2>2, <2>3, <2>4, <2>5
  <1> DEFINE moved == CashMoves(s, p, q)  flow == Flow(s, p, q)  needed == Required(s, p, q)  d == Direction(s)
  <1>9. /\ needed \in Int /\ moved \in Int /\ flow \in Int /\ needed + moved >= 0 /\ d \in {-1, 1}
        /\ d = 1 => 2 * moved - (-h - 2 * f) \in {-odd, odd} /\ 2 * flow - (-h) \in {-odd, odd}
        /\ d = -1 => 2 * moved - (h - 2 * f) \in {-odd, odd} /\ 2 * flow - h \in {-odd, odd}
    <2> HIDE DEF odd
    <2> QED BY <1>1, <1>3, <1>4, <1>5, <1>6, <1>8
  <1> HIDE DEF moved, flow, needed, d, odd
  <1>10. moved - flow + f \in -odd .. odd /\ 2 * (moved + f) + d * h \in -odd .. odd
    <2>1. CASE d = 1
      <3>1. 2 * (moved + f) + d * h \in {-odd, odd}
        BY <1>1, <1>7, <1>9, <2>1
      <3>2. 2 * (moved - flow + f) \in {-2 * odd, 0, 2 * odd}
        BY <1>1, <1>7, <1>9, <2>1
      <3> QED BY <1>1, <1>7, <1>9, <3>1, <3>2
    <2>2. CASE d = -1
      <3>1. 2 * (moved + f) + d * h \in {-odd, odd}
        BY <1>1, <1>7, <1>9, <2>2
      <3>2. 2 * (moved - flow + f) \in {-2 * odd, 0, 2 * odd}
        BY <1>1, <1>7, <1>9, <2>2
      <3> QED BY <1>1, <1>7, <1>9, <3>1, <3>2
    <2> QED BY <1>9, <2>1, <2>2
  <1> QED
    BY <1>7, <1>9, <1>10 DEF moved, flow, needed, d, f, h, odd

\* A trade moves the position by the traded quantity, whatever it averages.
LEMMA TradedQuantity ==
    ASSUME NEW p, p.quantity \in Int, NEW n \in Int, NEW x
    PROVE  Traded(p, n, x).quantity = p.quantity + n
  BY DEF Traded, Increased, Reduced

(***************************************************************************)
(* The inductive invariant: types, the ledger's sum and the cash.          *)
(***************************************************************************)
AccountType ==
    /\ cash \in Int /\ ledger \in [Entries -> Int]
    /\ DOMAIN positions = Assets /\ \A a \in Assets : positions[a].quantity \in Int
    /\ filled \in 0 .. MaxOrders /\ uneven \in 0 .. filled /\ bailouts \in 0 .. MaxBailouts

AccountInv == AccountType /\ LedgerFollows /\ CashNeverNegative

LEMMA AccountInit == ASSUME MarketAssumption, MarketBounds, MarketInit PROVE AccountInv
  BY DEF MarketAssumption, MarketBounds, MarketInit, AccountInv, AccountType, LedgerFollows, LedgerTotal,
         CashNeverNegative, Entries, Flat, Magnitude

\* An order changes cash and ledger by the same amount, or by a cent more or less when it
\* comes to half a cent, and pays only what is there.
LEMMA OrderKeepsAccount ==
    ASSUME MarketAssumption, MarketBounds, AccountInv,
           NEW a \in Assets, NEW s \in Sides, NEW q \in Quantities, SubmitOrder(a, s, q)
    PROVE  AccountInv'
  <1> DEFINE price == Price(a, s, q)
             fee == Fee(price, q)
             odd == (price * q) % 2
             needed == Required(s, price, q)
             moved == CashMoves(s, price, q)
             flow == Flow(s, price, q)
  <1>1. price \in Nat /\ fee \in Nat /\ q \in Nat /\ Direction(s) \in Int
    BY QuoteType DEF Direction
  <1>2. /\ odd \in {0, 1} /\ needed \in Int /\ moved \in Int /\ flow \in Int
        /\ needed + moved >= 0 /\ moved - flow + fee \in -odd .. odd
    BY OrderAmounts
  <1>3. /\ filled < MaxOrders /\ filled' = filled + 1 /\ bailouts' = bailouts
        /\ needed <= cash /\ cash' = cash + moved /\ uneven' = uneven + odd
        /\ ledger' = Entered(ledger, s, price, q)
        /\ positions' = [positions EXCEPT ![a] = Traded(@, Direction(s) * q, price)]
    BY DEF SubmitOrder
  <1>4. ledger' = [ledger EXCEPT ![IF Pays(s) THEN "TRADE_DEBIT" ELSE "TRADE_CREDIT"] = @ + flow,
                                 !["TRADING_FEE"] = @ - fee]
    BY <1>3 DEF Entered
  <1> HIDE DEF price, fee, odd, needed, moved, flow
  <1>5. cash \in Int /\ ledger \in [Entries -> Int] /\ uneven \in 0 .. filled /\ filled \in Nat
    BY DEF AccountInv, AccountType
  <1>6. ledger' \in [Entries -> Int] /\ LedgerTotal' = LedgerTotal + flow - fee /\ LedgerTotal \in Int
    BY <1>1, <1>2, <1>4, <1>5 DEF LedgerTotal, Entries
  <1>7. LedgerFollows'
    <2>1. Magnitude(cash - LedgerTotal) <= uneven
      BY DEF AccountInv, LedgerFollows
    <2> DEFINE apart == cash - LedgerTotal
    <2>2. apart \in Int /\ apart <= uneven /\ -apart <= uneven
      BY <1>5, <1>6, <2>1 DEF Magnitude
    <2>3. cash' - LedgerTotal' = apart + (moved - flow + fee)
      BY <1>1, <1>2, <1>3, <1>5, <1>6
    <2> HIDE DEF apart
    <2>4. cash' - LedgerTotal' \in -(uneven + odd) .. (uneven + odd)
      BY <1>1, <1>2, <1>5, <2>2, <2>3
    <2> QED BY <1>2, <1>3, <1>5, <2>4 DEF LedgerFollows, Magnitude
  <1>8. CashNeverNegative'
    BY <1>2, <1>3, <1>5 DEF CashNeverNegative
  <1>9. AccountType'
    <2>1. Direction(s) * q \in Int
      BY <1>1
    <2>2. DOMAIN positions' = Assets /\ \A b \in Assets : positions'[b].quantity \in Int
      <3>1. Traded(positions[a], Direction(s) * q, price).quantity \in Int
        BY <2>1, TradedQuantity DEF AccountInv, AccountType
      <3> QED
        BY <3>1, <1>3 DEF AccountInv, AccountType
    <2>3. filled' \in 0 .. MaxOrders /\ bailouts' \in 0 .. MaxBailouts
      BY <1>3 DEF AccountInv, AccountType, MarketBounds
    <2>4. cash' \in Int /\ uneven' \in 0 .. filled'
      BY <1>2, <1>3, <1>5
    <2> QED
      BY <1>6, <2>2, <2>3, <2>4 DEF AccountType
  <1> QED
    BY <1>7, <1>8, <1>9 DEF AccountInv

LEMMA BailoutKeepsAccount ==
    ASSUME MarketBounds, AccountInv, Bailout
    PROVE  AccountInv'
  <1>1. AccountType' /\ CashNeverNegative'
    BY DEF MarketBounds, Bailout, AccountInv, AccountType, CashNeverNegative, Entries
  <1>2. (cash - LedgerTotal)' = cash - LedgerTotal /\ uneven' = uneven
    BY DEF Bailout, AccountInv, AccountType, LedgerTotal, Entries
  <1> QED
    BY <1>1, <1>2 DEF AccountInv, LedgerFollows

\* Every step keeps the invariant.
LEMMA StepKeepsAccount ==
    ASSUME MarketAssumption, MarketBounds, AccountInv, [MarketNext]_marketVars
    PROVE  AccountInv'
  <1>1. CASE \E a \in Assets, s \in Sides, q \in Quantities : SubmitOrder(a, s, q)
    BY <1>1, OrderKeepsAccount
  <1>2. CASE Bailout
    BY <1>2, BailoutKeepsAccount
  <1>3. CASE UNCHANGED marketVars
    BY <1>3 DEF marketVars, AccountInv, AccountType, LedgerFollows, LedgerTotal, CashNeverNegative
  <1> QED
    BY <1>1, <1>2, <1>3 DEF MarketNext

\* submitOrder() and bailout(): the inductive invariant holds in every state.
LEMMA AccountAlways == MarketSpec => []AccountInv
  <1>1. MarketInit => AccountInv
    BY AccountInit, MarketAssumption, MarketBounds
  <1>2. AccountInv /\ [MarketNext]_marketVars => AccountInv'
    BY StepKeepsAccount, MarketAssumption, MarketBounds
  <1> QED
    BY <1>1, <1>2, PTL DEF MarketSpec

\* The cached cash of submitOrder() and bailout() is the sum of the ledger, give or take
\* a cent for each order that came to half a cent, however its doubles leaned.
THEOREM LedgerAlwaysFollows == MarketSpec => []LedgerFollows
  <1>1. AccountInv => LedgerFollows
    BY DEF AccountInv
  <1> QED
    BY <1>1, AccountAlways, PTL

\* No sequence of orders, short sales included, overdraws the account.
THEOREM NeverOverdrawn == MarketSpec => []CashNeverNegative
  <1>1. AccountInv => CashNeverNegative
    BY DEF AccountInv
  <1> QED
    BY <1>1, AccountAlways, PTL

(***************************************************************************)
(* evaluateRisk(): the exposures of an account are integers, the gross one *)
(* is not negative, and at fixed exposures the state is a decreasing       *)
(* function of the equity.                                                 *)
(***************************************************************************)
\* Less equity never means a milder state, whatever the exposures are.
LEMMA LessEquityIsWorse ==
    ASSUME PolicyAssumption, NEW gross \in Nat, NEW net \in Int, NEW largest \in Int,
           NEW e \in Int, NEW f \in Int, e <= f
    PROVE  EvaluateRisk(e, gross, net, largest) >= EvaluateRisk(f, gross, net, largest)
  <1>1. \A k \in Nat : k * e <= k * f /\ k * e \in Int /\ k * f \in Int
    <2>1. ASSUME NEW k \in Nat, NEW d \in Nat PROVE k * d >= 0
      BY <2>1
    <2>2. ASSUME NEW k \in Nat PROVE k * f - k * e = k * (f - e) /\ f - e \in Nat
      BY <2>2
    <2> QED
      BY <2>1, <2>2
  <1>2. Overleveraged(f, gross, net, largest) => Overleveraged(e, gross, net, largest)
    <2>1. Magnitude(net) \in Int /\ Magnitude(largest) \in Int
      BY DEF Magnitude
    <2> DEFINE ge == Policy.gross * e  gf == Policy.gross * f
               ne == Policy.net * e  nf == Policy.net * f
               ce == Policy.concentration * e  cf == Policy.concentration * f
    <2>2. /\ ge <= gf /\ ge \in Int /\ gf \in Int /\ ne <= nf /\ ne \in Int /\ nf \in Int
          /\ ce <= cf /\ ce \in Int /\ cf \in Int
      BY <1>1 DEF PolicyAssumption
    <2>3. /\ Overleveraged(e, gross, net, largest) <=>
               \/ 2 * gross > ge \/ 2 * Magnitude(net) > ne \/ 2 * Magnitude(largest) > ce
          /\ Overleveraged(f, gross, net, largest) <=>
               \/ 2 * gross > gf \/ 2 * Magnitude(net) > nf \/ 2 * Magnitude(largest) > cf
      BY DEF Overleveraged
    <2> HIDE DEF ge, gf, ne, nf, ce, cf
    <2> QED
      BY <2>1, <2>2, <2>3
  <1> DEFINE floor == Policy.maintenance * gross
  <1>3. floor \in Int /\ Policy.liquidation \in Int
    BY DEF PolicyAssumption
  <1>4. \A x \in Int : EvaluateRisk(x, gross, net, largest) =
          IF x <= 0 THEN 5 ELSE IF x <= Policy.liquidation THEN 4 ELSE IF 2 * x < floor THEN 3
          ELSE IF Overleveraged(x, gross, net, largest) THEN 2 ELSE 1
    BY DEF EvaluateRisk
  <1> HIDE DEF floor
  <1> QED
    BY <1>2, <1>3, <1>4

\* The sums of the account's exposures are taken over integers.
LEMMA ExposureTypes ==
    ASSUME MarketAssumption, MarketBounds, AccountType
    PROVE  Net \in Int /\ Gross \in Nat
  <1> DEFINE value == [a \in Assets |-> MarketValue(a)]
             size == [a \in Assets |-> Magnitude(MarketValue(a))]
  <1>1. \A a \in Assets : MarketValue(a) \in Int
    BY DEF MarketAssumption, AccountType, MarketValue
  <1>2. value \in [Assets -> Int] /\ size \in [Assets -> Nat] /\ size \in [Assets -> Int]
    BY <1>1 DEF Magnitude
  <1>3. IsFiniteSet(Assets)
    BY DEF MarketBounds
  <1>4. \A s \in SUBSET Assets : s # {} => Picked(s) \in Assets
    BY DEF Picked
  <1>5. Net \in Int
    <2> DEFINE raw(g) == [s \in SUBSET Assets |-> IF s = {} THEN 0 ELSE MarketValue(Picked(s)) + g[s \ {Picked(s)}]]
               sums == CHOOSE g : g = raw(g)
    <2>1. Net = sums[Assets]
      BY DEF Net, MapThenSumSet, MapThenFoldSet, Picked
    <2>2. \A g : Summing(g, value, Assets) <=> g = raw(g)
      BY <1>4 DEF Summing
    <2>3. \E g : Summing(g, value, Assets)
      <3> HIDE DEF value
      <3> QED
        BY <1>2, <1>3, SumExists
    <2>4. \E g : g = raw(g)
      BY ONLY <2>2, <2>3
    <2>5. sums = raw(sums)
      <3> HIDE DEF raw
      <3> QED
        BY ONLY <2>4, Zenon DEF sums
    <2>6. Summing(sums, value, Assets)
      BY ONLY <2>2, <2>5
    <2> HIDE DEF value, sums, raw
    <2> QED
      BY <1>2, <1>3, <2>1, <2>6, SumUnfolds
  <1>6. Gross \in Nat
    <2> DEFINE raw(g) == [s \in SUBSET Assets |-> IF s = {} THEN 0 ELSE Magnitude(MarketValue(Picked(s))) + g[s \ {Picked(s)}]]
               sums == CHOOSE g : g = raw(g)
    <2>1. Gross = sums[Assets]
      BY DEF Gross, MapThenSumSet, MapThenFoldSet, Picked
    <2>2. \A g : Summing(g, size, Assets) <=> g = raw(g)
      BY <1>4 DEF Summing
    <2>3. \E g : Summing(g, size, Assets)
      <3> HIDE DEF size
      <3> QED
        BY <1>2, <1>3, SumExists
    <2>4. \E g : g = raw(g)
      BY ONLY <2>2, <2>3
    <2>5. sums = raw(sums)
      <3> HIDE DEF raw
      <3> QED
        BY ONLY <2>4, Zenon DEF sums
    <2>6. Summing(sums, size, Assets)
      BY ONLY <2>2, <2>5
    <2> HIDE DEF size, sums, raw
    <2> QED
      BY <1>2, <1>3, <2>1, <2>6, SumNotNegative
  <1> QED
    BY <1>5, <1>6

\* In every reachable state evaluateRisk() is ordered by the equity, at the exposures the
\* account has: a smaller equity is never given a milder state.
THEOREM RiskOnlyWorsens == MarketSpec => []RiskNeverEases
  <1>1. AccountInv => RiskNeverEases
    <2> SUFFICES ASSUME AccountInv PROVE RiskNeverEases
      OBVIOUS
    <2> DEFINE sizes == {Magnitude(MarketValue(a)) : a \in Assets}
               size == [a \in Assets |-> Magnitude(MarketValue(a))]
               largest == Max({0} \cup sizes)
               unit == Gross \div 100
               gross == Gross
               net == Net
    <2>1. gross \in Nat /\ net \in Int
      BY ExposureTypes, MarketAssumption, MarketBounds DEF AccountInv
    <2>2. unit \in Nat
      BY <2>1
    <2>3. IsFiniteSet({0} \cup sizes) /\ {0} \cup sizes \in SUBSET Int
      <3>1. IsFiniteSet({size[a] : a \in Assets})
        <4>1. size = [a \in Assets |-> size[a]]
          OBVIOUS
        <4> HIDE DEF size
        <4> QED BY <4>1, FiniteImage, MarketBounds DEF MarketBounds
      <3>2. sizes = {size[a] : a \in Assets}
        OBVIOUS
      <3>3. sizes \in SUBSET Int
        BY MarketAssumption DEF MarketAssumption, AccountInv, AccountType, MarketValue, Magnitude
      <3> HIDE DEF sizes, size
      <3>4. IsFiniteSet(sizes \cup {0})
        BY <3>1, <3>2, FS_AddElement
      <3>5. sizes \cup {0} = {0} \cup sizes
        OBVIOUS
      <3> QED
        BY <3>3, <3>4, <3>5
    <2>4. largest \in Int
      <3> DEFINE all == {0} \cup sizes
      <3>1. IsFiniteSet(all) /\ all \in SUBSET Int /\ all # {}
        BY <2>3
      <3> HIDE DEF all, sizes
      <3>2. \E m \in all : \A n \in all : m >= n
        BY <3>1, GreatestElement
      <3>3. Max(all) \in all
        BY <3>2 DEF Max
      <3> QED
        BY <3>1, <3>3 DEF all
    <2> HIDE DEF sizes, size, largest, unit, gross, net
    <2>5. ASSUME NEW p \in Nat, NEW q \in Nat, p < q
          PROVE  EvaluateRisk(p * unit, gross, net, largest) >= EvaluateRisk(q * unit, gross, net, largest)
      <3>1. p * unit \in Int /\ q * unit \in Int /\ p * unit <= q * unit
        <4>1. q * unit - p * unit = (q - p) * unit /\ q - p \in Nat
          BY <2>2, <2>5
        <4>2. ASSUME NEW d \in Nat PROVE d * unit \in Nat
          BY <2>2
        <4> QED
          BY <2>2, <4>1, <4>2
      <3> QED
        BY <2>1, <2>4, <3>1, LessEquityIsWorse, PolicyAssumption
    <2>6. RiskNeverEases <=> (filled > 0 => \A p, q \in {0, 1, 5, 20, 40, 60, 120, 1000} : p < q =>
              EvaluateRisk(p * unit, gross, net, largest) >= EvaluateRisk(q * unit, gross, net, largest))
      BY DEF RiskNeverEases, unit, gross, net, largest, sizes
    <2> QED
      BY <2>5, <2>6
  <1> QED
    BY <1>1, AccountAlways, PTL
-----------------------------------------------------------------------------
(***************************************************************************)
(* Fractions.  Gcd divides both of its arguments, so a Ratio has the value *)
(* it is made from, and is whole when that is.  Is(x, n, d) says that the  *)
(* fraction x has the value n / d.                                         *)
(***************************************************************************)

Pairs == Nat \X Nat
GcdStep(p) == <<p[2], p[1] % p[2]>>
GcdFrom(g, p) == IF p[2] = 0 THEN p[1] ELSE g[GcdStep(p)]

\* A product divided by one of its factors is the other.
LEMMA QuotientIs ==
    ASSUME NEW b \in Nat \ {0}, NEW y \in Nat
    PROVE  (b * y) \div b = y
  <1> DEFINE a == b * y
  <1>1. ASSUME NEW q \in Int, NEW r \in Int, b * y = b * q + r, 0 <= r, r < b
        PROVE q = y
    BY <1>1
  <1>2. a \in Nat
    OBVIOUS
  <1>3. a = b * (a \div b) + (a % b) /\ a \div b \in Nat /\ a % b \in Nat /\ a % b < b
    <2> HIDE DEF a
    <2> QED BY <1>2, Division
  <1> QED BY <1>1, <1>3

\* The arguments of Gcd are numbers, and a step of its recursion lowers the second.
LEMMA PairFacts ==
    ASSUME NEW p \in Pairs
    PROVE  /\ p[1] \in Nat /\ p[2] \in Nat /\ p = <<p[1], p[2]>>
           /\ p[2] # 0 => GcdStep(p) \in Pairs /\ GcdStep(p)[2] < p[2] /\ GcdStep(p)[2] = p[1] % p[2] /\ GcdStep(p)[1] = p[2]
  <1>1. p[1] \in Nat /\ p[2] \in Nat /\ p = <<p[1], p[2]>>
    BY DEF Pairs
  <1>2. p[2] # 0 => p[1] % p[2] \in Nat /\ p[1] % p[2] < p[2]
    BY <1>1, Division
  <1> QED BY <1>1, <1>2 DEF Pairs, GcdStep

\* The second argument falls, so the recursion of Gcd has a solution.
LEMMA GcdExists ==
    \E g : g = [p \in Pairs |-> GcdFrom(g, p)]
  <1> DEFINE UpTo(f, n) == \A p \in Pairs : p[2] < n => f[p] = GcdFrom(f, p)
             Bad == {n \in Nat : ~ \E f \in [Pairs -> Nat] : UpTo(f, n)}
  <1>1. \A f \in [Pairs -> Nat] : \A p \in Pairs : GcdFrom(f, p) \in Nat
    <2> SUFFICES ASSUME NEW f \in [Pairs -> Nat], NEW p \in Pairs PROVE GcdFrom(f, p) \in Nat
      OBVIOUS
    <2>1. p[2] # 0 => f[GcdStep(p)] \in Nat
      BY PairFacts
    <2> QED BY <2>1, PairFacts DEF GcdFrom
  <1>2. 0 \notin Bad
    <2>1. [p \in Pairs |-> 0] \in [Pairs -> Nat]
      OBVIOUS
    <2>2. \A p \in Pairs : ~(p[2] < 0)
      BY PairFacts
    <2> QED BY <2>1, <2>2
  <1>3. ASSUME NEW n \in Nat, n \notin Bad PROVE n + 1 \notin Bad
    <2>1. PICK f \in [Pairs -> Nat] : UpTo(f, n)
      BY <1>3
    <2> DEFINE g == [p \in Pairs |-> GcdFrom(f, p)]
    <2>2. g \in [Pairs -> Nat]
      BY <1>1
    <2>3. ASSUME NEW p \in Pairs, p[2] < n + 1 PROVE g[p] = GcdFrom(g, p)
      <3>1. CASE p[2] = 0
        BY <3>1 DEF GcdFrom
      <3>2. CASE p[2] # 0
        <4>1. GcdStep(p) \in Pairs /\ GcdStep(p)[2] < n
          <5>1. GcdStep(p) \in Pairs /\ GcdStep(p)[2] < p[2] /\ p[2] \in Nat /\ GcdStep(p)[2] \in Nat
            BY <3>2, PairFacts
          <5> QED BY <2>3, <5>1
        <4>2. f[GcdStep(p)] = g[GcdStep(p)]
          BY <2>1, <4>1
        <4> QED BY <3>2, <4>2 DEF GcdFrom
      <3> QED BY <3>1, <3>2
    <2> HIDE DEF g
    <2> QED BY <2>2, <2>3
  <1> HIDE DEF Bad
  <1>4. Bad = {}
    <2> SUFFICES ASSUME Bad # {} PROVE FALSE
      OBVIOUS
    <2>1. Bad \in SUBSET Nat
      BY DEF Bad
    <2>2. PICK m \in Bad : \A n \in Bad : m <= n
      BY <2>1, LeastElement
    <2>3. m \in Nat /\ m # 0
      BY <1>2, <2>1
    <2>4. m - 1 \in Nat /\ m - 1 \notin Bad /\ (m - 1) + 1 = m
      BY <2>2, <2>3
    <2> QED BY <1>3, <2>2, <2>4
  <1>5. \A n \in Nat : \E f \in [Pairs -> Nat] : UpTo(f, n)
    BY <1>4 DEF Bad
  <1>6. ASSUME NEW f \in [Pairs -> Nat], NEW g \in [Pairs -> Nat], NEW n \in Nat, UpTo(f, n), UpTo(g, n)
        PROVE \A p \in Pairs : p[2] < n => f[p] = g[p]
    <2> DEFINE Differ == {k \in Nat : \E p \in Pairs : p[2] = k /\ k < n /\ f[p] # g[p]}
    <2>0. ASSUME Differ # {} PROVE FALSE
      <3>1. Differ \in SUBSET Nat
        OBVIOUS
      <3>2. PICK m \in Differ : \A k \in Differ : m <= k
        <4> HIDE DEF Differ
        <4> QED BY <2>0, <3>1, LeastElement
      <3>3. PICK p \in Pairs : p[2] = m /\ m < n /\ f[p] # g[p]
        BY <3>2
      <3>4. m \in Nat /\ f[p] = GcdFrom(f, p) /\ g[p] = GcdFrom(g, p)
        BY <1>6, <3>2, <3>3
      <3>5. p[2] # 0
        BY <3>3, <3>4 DEF GcdFrom
      <3>6. GcdStep(p) \in Pairs /\ GcdStep(p)[2] < m /\ GcdStep(p)[2] \in Nat
        BY <3>3, <3>5, PairFacts
      <3>7. GcdStep(p)[2] < n
        BY <3>3, <3>4, <3>6
      <3>8. GcdStep(p)[2] \notin Differ
        <4> HIDE DEF Differ
        <4> QED BY <3>1, <3>2, <3>4, <3>6
      <3>9. f[GcdStep(p)] = g[GcdStep(p)]
        BY <3>6, <3>7, <3>8
      <3> QED BY <3>3, <3>4, <3>5, <3>9 DEF GcdFrom
    <2> SUFFICES ASSUME NEW p \in Pairs, p[2] < n, f[p] # g[p] PROVE FALSE
      OBVIOUS
    <2>1. p[2] \in Differ
      BY PairFacts
    <2> QED BY <2>0, <2>1
  <1> DEFINE level(n) == CHOOSE f \in [Pairs -> Nat] : UpTo(f, n)
             whole == [p \in Pairs |-> level(p[2] + 1)[p]]
  <1>7. \A n \in Nat : level(n) \in [Pairs -> Nat] /\ UpTo(level(n), n)
    BY <1>5
  <1> HIDE DEF level
  <1>8. ASSUME NEW p \in Pairs PROVE whole[p] = GcdFrom(whole, p)
    <2> DEFINE n == p[2] + 1
    <2>1. p[2] \in Nat /\ n \in Nat /\ p[2] < n
      BY PairFacts
    <2>2. level(n) \in [Pairs -> Nat] /\ UpTo(level(n), n) /\ level(n)[p] = GcdFrom(level(n), p)
      BY <1>7, <2>1
    <2>3. CASE p[2] = 0
      BY <2>2, <2>3 DEF GcdFrom
    <2>4. CASE p[2] # 0
      <3> DEFINE q == GcdStep(p)
                 k == q[2] + 1
      <3>1. q \in Pairs /\ q[2] \in Nat /\ q[2] < p[2] /\ k \in Nat /\ q[2] < k /\ k < n
        BY <2>1, <2>4, PairFacts
      <3>2. level(k) \in [Pairs -> Nat] /\ UpTo(level(k), k)
        BY <1>7, <3>1
      <3>3. UpTo(level(n), k)
        <4> SUFFICES ASSUME NEW s \in Pairs, s[2] < k PROVE level(n)[s] = GcdFrom(level(n), s)
          OBVIOUS
        <4>1. s[2] < n
          BY <2>1, <3>1, PairFacts
        <4> QED BY <2>2, <4>1
      <3>4. level(k)[q] = level(n)[q]
        <4> HIDE DEF k, n, q
        <4> QED BY <1>6, <2>2, <3>1, <3>2, <3>3
      <3>5. whole[q] = level(n)[q]
        BY <3>1, <3>4
      <3> QED BY <2>2, <2>4, <3>5 DEF GcdFrom
    <2> QED BY <2>3, <2>4
  <1>9. whole = [p \in Pairs |-> GcdFrom(whole, p)]
    BY <1>8
  <1> QED BY <1>9

\* So Gcd is what its defining equation says.
LEMMA GcdUnfolds ==
    \A p \in Pairs : Gcd[p] = GcdFrom(Gcd, p)
  <1> DEFINE solves(g) == g = [p \in Pairs |-> GcdFrom(g, p)]
  <1>1. Gcd = CHOOSE g : solves(g)
    BY DEF Gcd, GcdFrom, GcdStep, Pairs
  <1>2. solves(Gcd)
    <2> HIDE DEF solves
    <2>1. \E g : solves(g)
      BY GcdExists DEF solves
    <2> QED BY <1>1, <2>1
  <1> QED BY <1>2

\* Gcd divides both of its arguments.
LEMMA GcdDivides ==
    ASSUME NEW a \in Nat, NEW b \in Nat, a # 0 \/ b # 0
    PROVE  /\ Gcd[<<a, b>>] \in Nat \ {0}
           /\ \E x \in Nat : a = Gcd[<<a, b>>] * x
           /\ \E y \in Nat : b = Gcd[<<a, b>>] * y
  <1> DEFINE Good(m, n) == /\ Gcd[<<m, n>>] \in Nat \ {0}
                           /\ \E x \in Nat : m = Gcd[<<m, n>>] * x
                           /\ \E y \in Nat : n = Gcd[<<m, n>>] * y
             Bad == {n \in Nat : \E m \in Nat : (m # 0 \/ n # 0) /\ ~Good(m, n)}
  <1>1. ASSUME Bad # {} PROVE FALSE
    <2>1. Bad \in SUBSET Nat
      OBVIOUS
    <2>2. PICK n \in Bad : \A k \in Bad : n <= k
      <3> HIDE DEF Bad
      <3> QED BY <1>1, <2>1, LeastElement
    <2>3. PICK m \in Nat : (m # 0 \/ n # 0) /\ ~Good(m, n)
      BY <2>2
    <2>4. n \in Nat /\ <<m, n>> \in Pairs
      BY <2>2, <2>3 DEF Pairs
    <2>5. CASE n = 0
      <3>1. Gcd[<<m, n>>] = m
        BY <2>4, <2>5, GcdUnfolds DEF GcdFrom
      <3>2. m = m * 1 /\ n = m * 0
        BY <2>5
      <3>3. Good(m, n)
        BY <2>3, <2>5, <3>1, <3>2
      <3> QED BY <2>3, <3>3
    <2>6. CASE n # 0
      <3> DEFINE r == m % n
                 k == m \div n
                 g == Gcd[<<n, r>>]
      <3>1. r \in Nat /\ r < n /\ k \in Nat /\ m = n * k + r
        BY <2>4, <2>6, Division
      <3>2. Gcd[<<m, n>>] = g
        BY <2>4, <2>6, GcdUnfolds DEF GcdFrom, GcdStep
      <3>3. r \notin Bad
        <4> HIDE DEF Bad
        <4> QED BY <2>1, <2>2, <2>4, <3>1
      <3>4. Good(n, r)
        <4> HIDE DEF Good
        <4> QED BY <2>4, <2>6, <3>1, <3>3
      <3> HIDE DEF r, k
      <3>5. g \in Nat \ {0}
        BY <3>4
      <3>6. PICK x \in Nat : n = g * x
        BY <3>4
      <3>7. PICK y \in Nat : r = g * y
        BY <3>4
      <3> HIDE DEF g
      <3>8. m = g * (x * k + y)
        <4>1. m = (g * x) * k + g * y
          BY <3>1, <3>6, <3>7
        <4> QED BY <3>1, <3>5, <4>1
      <3>9. x * k + y \in Nat
        BY <3>1
      <3>10. Good(m, n)
        BY <3>2, <3>5, <3>6, <3>8, <3>9
      <3> QED BY <2>3, <3>10
    <2> QED BY <2>5, <2>6
  <1>2. b \notin Bad
    BY <1>1
  <1> QED BY <1>2

Fraction(x) == x = <<x[1], x[2]>> /\ x[1] \in Int /\ x[2] \in Nat \ {0}
Is(x, n, d) == Fraction(x) /\ x[1] * d = n * x[2]

\* A Ratio has the value it is made from, and its sign.
LEMMA RatioIs ==
    ASSUME NEW n \in Int, NEW d \in Nat \ {0}
    PROVE  /\ Is(Ratio(n, d), n, d)
           /\ n > 0 => Ratio(n, d)[1] > 0
           /\ n >= 0 => Ratio(n, d)[1] >= 0
  <1> DEFINE m == Magnitude(n)
             g == Gcd[<<d, m>>]
  <1>1. m \in Nat /\ n = Signum(n) * m /\ Signum(n) \in Int /\ (n > 0 => Signum(n) = 1)
        /\ (n >= 0 => Signum(n) >= 0)
    BY DEF Magnitude, Signum
  <1> HIDE DEF m
  <1>2. g \in Nat \ {0} /\ (\E x \in Nat : d = g * x) /\ (\E y \in Nat : m = g * y)
    BY <1>1, GcdDivides
  <1>3. Ratio(n, d) = <<Signum(n) * (m \div g), d \div g>>
    BY DEF Ratio, m
  <1> HIDE DEF g
  <1>4. PICK x \in Nat : d = g * x
    BY <1>2
  <1>5. PICK y \in Nat : m = g * y
    BY <1>2
  <1>6. d \div g = x /\ m \div g = y
    BY <1>2, <1>4, <1>5, QuotientIs
  <1>7. x # 0
    BY <1>2, <1>4
  <1> DEFINE s == Signum(n)
  <1>8. s \in Int /\ n = s * m /\ (n > 0 => s = 1) /\ (n >= 0 => s >= 0)
    BY <1>1
  <1>9. Ratio(n, d) = <<s * y, x>>
    BY <1>3, <1>6
  <1> HIDE DEF s
  <1>10. (s * y) * d = n * x
    <2>1. (s * y) * (g * x) = (s * (g * y)) * x
      BY <1>2, <1>8
    <2> QED BY <1>4, <1>5, <1>8, <2>1
  <1>11. n > 0 => s * y > 0
    <2> SUFFICES ASSUME n > 0 PROVE y > 0
      BY <1>8
    <2>1. m # 0
      BY <1>8
    <2> QED BY <1>2, <1>5, <2>1
  <1>12. n >= 0 => s * y >= 0
    BY <1>8
  <1> QED BY <1>7, <1>8, <1>9, <1>10, <1>11, <1>12 DEF Is, Fraction

\* A Ratio that is whole is written so.
LEMMA RatioWhole ==
    ASSUME NEW j \in Int, NEW d \in Nat \ {0}
    PROVE  Ratio(j * d, d) = Whole(j)
  <1> DEFINE n == j * d
             m == Magnitude(n)
             k == Magnitude(j)
             s == Signum(j)
  <1>1. k \in Nat /\ j = s * k /\ s \in Int
    BY DEF Magnitude, Signum
  <1>2. m = d * k /\ Signum(n) = s
    <2>1. CASE j = 0
      BY <2>1 DEF Magnitude, Signum
    <2>2. CASE j > 0
      <3>1. j * d > 0
        BY <2>2
      <3> QED BY <2>2, <3>1 DEF Magnitude, Signum
    <2>3. CASE j < 0
      <3>1. j * d < 0 /\ -(j * d) = d * (-j)
        BY <2>3
      <3> QED BY <2>3, <3>1 DEF Magnitude, Signum
    <2> QED BY <2>1, <2>2, <2>3
  <1> HIDE DEF k, s
  <1>3. Gcd[<<d, m>>] = d
    <2> HIDE DEF m
    <2>0. \A a \in Nat, b \in Nat : Gcd[<<a, b>>] = IF b = 0 THEN a ELSE Gcd[<<b, a % b>>]
      BY GcdUnfolds DEF Pairs, GcdFrom, GcdStep
    <2>1. CASE k = 0
      <3>1. m = 0
        BY <1>2, <2>1
      <3> QED BY <2>0, <3>1
    <2>2. CASE k = 1
      <3>1. d % d = 0 /\ m = d
        BY <1>2, <2>2
      <3>2. Gcd[<<d, m>>] = Gcd[<<d, 0>>]
        BY <2>0, <3>1
      <3> QED BY <2>0, <3>2
    <2>3. CASE k > 1
      <3>1. m \in Nat /\ m > d
        BY <1>1, <1>2, <2>3
      <3>2. d % m = d
        BY <3>1
      <3>3. m % d = 0
        <4>1. ASSUME NEW q \in Int, NEW r \in Int, d * k = d * q + r, 0 <= r, r < d
              PROVE r = 0
          <5>1. q = k
            BY <1>1, <4>1
          <5> QED BY <1>1, <4>1, <5>1
        <4>2. m = d * (m \div d) + (m % d) /\ m \div d \in Nat /\ m % d \in Nat /\ m % d < d
          BY <3>1, Division
        <4> DEFINE q == m \div d  r == m % d
        <4>3. d * k = d * q + r /\ q \in Int /\ r \in Int /\ 0 <= r /\ r < d
          BY <1>2, <4>2
        <4> HIDE DEF q, r
        <4>4. r = 0
          BY <4>1, <4>3
        <4> QED BY <4>4 DEF r
      <3>4. Gcd[<<d, m>>] = Gcd[<<m, d>>]
        BY <2>0, <3>1, <3>2
      <3>5. Gcd[<<m, d>>] = Gcd[<<d, 0>>]
        BY <2>0, <3>1, <3>3
      <3> QED BY <2>0, <3>4, <3>5
    <2> QED BY <1>1, <2>1, <2>2, <2>3
  <1>4. m \div d = k /\ d \div d = 1
    BY <1>1, <1>2, QuotientIs
  <1>5. Ratio(n, d) = <<Signum(n) * (m \div d), d \div d>>
    BY <1>3 DEF Ratio
  <1> QED BY <1>1, <1>2, <1>4, <1>5 DEF Whole

\* A common factor that is not 0 cancels.
LEMMA Cancel ==
    ASSUME NEW a \in Int, NEW b \in Int, NEW c \in Int, c # 0, a * c = b * c
    PROVE  a = b
  OBVIOUS

\* A value does not depend on how it is written.
LEMMA IsReduced ==
    ASSUME NEW x, NEW n \in Int, NEW d \in Int, NEW t \in Int, t # 0, Is(x, n * t, d * t)
    PROVE  Is(x, n, d)
  <1>1. x[1] \in Int /\ x[2] \in Int /\ x[1] * (d * t) = (n * t) * x[2]
    BY DEF Is, Fraction
  <1>2. (x[1] * d) * t = (n * x[2]) * t
    <2>1. \A a \in Int, b \in Int : a * (d * t) = (n * t) * b => (a * d) * t = (n * b) * t
      OBVIOUS
    <2> QED BY <1>1, <2>1
  <1>3. x[1] * d \in Int /\ n * x[2] \in Int
    BY <1>1
  <1>4. x[1] * d = n * x[2]
    <2> DEFINE a == x[1] * d  b == n * x[2]
    <2> HIDE DEF a, b
    <2> QED BY <1>2, <1>3, Cancel DEF a, b
  <1> QED BY <1>4 DEF Is

\* A whole number is itself over 1.
LEMMA WholeIs == ASSUME NEW k \in Int PROVE Is(Whole(k), k, 1)
  BY DEF Is, Fraction, Whole

\* Plus adds values.
LEMMA PlusIs ==
    ASSUME NEW x, NEW y, NEW n \in Int, NEW d \in Nat \ {0}, NEW m \in Int, NEW e \in Nat \ {0},
           Is(x, n, d), Is(y, m, e)
    PROVE  Is(Plus(x, y), n * e + m * d, d * e)
  <1> DEFINE top == x[1] * y[2] + y[1] * x[2]
             low == x[2] * y[2]
  <1>1. x[1] \in Int /\ x[2] \in Nat \ {0} /\ y[1] \in Int /\ y[2] \in Nat \ {0}
        /\ x[1] * d = n * x[2] /\ y[1] * e = m * y[2]
    BY DEF Is, Fraction
  <1>2. top \in Int /\ low \in Nat \ {0}
    <2>1. \A a \in Int, b \in Nat \ {0}, p \in Int, q \in Nat \ {0} :
             a * q + p * b \in Int /\ b * q \in Nat \ {0}
      OBVIOUS
    <2> QED BY <1>1, <2>1
  <1>3. top * (d * e) = (n * e + m * d) * low
    <2>1. ASSUME NEW a \in Int, NEW b \in Int, NEW p \in Int, NEW q \in Int, a * d = n * b, p * e = m * q
          PROVE (a * q + p * b) * (d * e) = (n * e + m * d) * (b * q)
      <3>1. (a * q + p * b) * (d * e) = (a * d) * (q * e) + (p * e) * (b * d)
        OBVIOUS
      <3>2. (n * b) * (q * e) + (m * q) * (b * d) = (n * e + m * d) * (b * q)
        OBVIOUS
      <3> QED BY <2>1, <3>1, <3>2
    <2> DEFINE a == x[1]  b == x[2]  p == y[1]  q == y[2]
    <2>2. a \in Int /\ b \in Int /\ p \in Int /\ q \in Int /\ a * d = n * b /\ p * e = m * q
      BY <1>1
    <2>3. top = a * q + p * b /\ low = b * q
      OBVIOUS
    <2> HIDE DEF a, b, p, q, top, low
    <2>4. (a * q + p * b) * (d * e) = (n * e + m * d) * (b * q)
      BY <2>1, <2>2
    <2> QED BY <2>3, <2>4
  <1>4. Plus(x, y) = Ratio(top, low)
    BY DEF Plus
  <1> HIDE DEF top, low
  <1>5. Is(Ratio(top, low), top, low)
    BY <1>2, RatioIs
  <1> DEFINE r == Ratio(top, low)
             v == n * e + m * d
             w == d * e
  <1>6. v \in Int /\ w \in Int
    OBVIOUS
  <1>7. ASSUME NEW a \in Int, NEW b \in Int, a * low = top * b, top * w = v * low
        PROVE a * w = v * b
    <2> HIDE DEF v, w
    <2> QED BY <1>2, <1>6, <1>7
  <1>8. Fraction(r) /\ r[1] * low = top * r[2]
    BY <1>5 DEF Is
  <1> HIDE DEF v, w, r
  <1>9. r[1] * w = v * r[2]
    BY <1>3, <1>7, <1>8 DEF Fraction, v, w
  <1> QED BY <1>4, <1>8, <1>9 DEF Is, r, v, w

\* Scale multiplies a value by a whole number.
LEMMA ScaleIs ==
    ASSUME NEW x, NEW n \in Int, NEW d \in Nat \ {0}, NEW k \in Int, Is(x, n, d)
    PROVE  Is(Scale(k, x), k * n, d)
  <1>1. x[1] \in Int /\ x[2] \in Nat \ {0} /\ x[1] * d = n * x[2]
    BY DEF Is, Fraction
  <1> DEFINE r == Ratio(k * x[1], x[2])
             top == k * x[1]
  <1>2. top \in Int
    BY <1>1
  <1>3. Is(r, top, x[2])
    <2> HIDE DEF top
    <2> QED BY <1>1, <1>2, RatioIs DEF top
  <1>4. ASSUME NEW a \in Int, NEW b \in Int, NEW p \in Int, NEW q \in Int, q # 0,
               a * q = (k * p) * b, p * d = n * q
        PROVE a * d = (k * n) * b
    <2>1. (a * d) * q = ((k * p) * b) * d
      BY <1>4
    <2>2. ((k * p) * b) * d = (k * b) * (p * d)
      OBVIOUS
    <2>3. (k * b) * (n * q) = ((k * n) * b) * q
      OBVIOUS
    <2>4. (a * d) * q = ((k * n) * b) * q
      BY <1>4, <2>1, <2>2, <2>3
    <2> QED BY <1>4, <2>4
  <1>5. Fraction(r) /\ r[1] * x[2] = (k * x[1]) * r[2]
    BY <1>3 DEF Is
  <1> HIDE DEF r
  <1>6. r[1] * d = (k * n) * r[2]
    BY <1>1, <1>4, <1>5 DEF Fraction
  <1> QED BY <1>5, <1>6 DEF Is, Scale, r

-----------------------------------------------------------------------------
(***************************************************************************)
(* Positions.  What a position has cost is a whole number: the realized    *)
(* profit is quantity * entry + k for a whole k, and a trade of n at a     *)
(* price c takes n * c from k, however entries are averaged, partly closed *)
(* or crossed.                                                             *)
(***************************************************************************)

PositionOK(p, k) ==
    /\ p.quantity \in Int /\ Fraction(p.entry) /\ Fraction(p.realized)
    /\ p.quantity = 0 => p.entry = Whole(0)
    /\ p.quantity # 0 => p.entry[1] > 0
    /\ Is(p.realized, p.quantity * p.entry[1] + k * p.entry[2], p.entry[2])

\* A position that was never traded has cost nothing.
LEMMA FlatIs == PositionOK(Flat, 0)
  BY DEF PositionOK, Flat, Is, Fraction, Whole

\* The arithmetic of an increase: the new entry x1 / x2 averages the old one e1 / e2 and the price.
LEMMA IncreaseAlgebra ==
    ASSUME NEW q \in Int, NEW n \in Int, NEW k \in Int, NEW c \in Int,
           NEW e1 \in Int, NEW e2 \in Int, e2 # 0, NEW x1 \in Int, NEW x2 \in Int,
           NEW r1 \in Int, NEW r2 \in Int,
           (q + n) * (x1 * e2) = (q * e1 + n * (c * e2)) * x2,
           r1 * e2 = (q * e1 + k * e2) * r2
    PROVE  r1 * x2 = ((q + n) * x1 + (k - n * c) * x2) * r2
  <1> DEFINE goal == ((q + n) * x1 + (k - n * c) * x2) * r2
  <1>1. (r1 * x2) * e2 = (r1 * e2) * x2
    OBVIOUS
  <1>2. goal * e2 = ((q + n) * (x1 * e2) + (k - n * c) * (x2 * e2)) * r2
    OBVIOUS
  <1>3. ((q * e1 + n * (c * e2)) * x2 + (k - n * c) * (x2 * e2)) * r2 = ((q * e1 + k * e2) * r2) * x2
    OBVIOUS
  <1>4. (r1 * x2) * e2 = goal * e2
    BY <1>1, <1>2, <1>3
  <1> DEFINE left == r1 * x2
  <1>5. left \in Int /\ goal \in Int
    OBVIOUS
  <1> HIDE DEF goal, left
  <1>6. left = goal
    BY <1>4, <1>5, Cancel DEF left
  <1> QED BY <1>6 DEF left, goal

\* An increase adds the traded amount to the cost.
LEMMA IncreasedIs ==
    ASSUME NEW p, NEW k \in Int, PositionOK(p, k), NEW n \in Int, n # 0, NEW c \in Nat \ {0},
           Increases(p, n)
    PROVE  PositionOK(Increased(p, n, c), k - n * c)
  <1> DEFINE q == p.quantity
             e1 == p.entry[1]
             e2 == p.entry[2]
             h == Magnitude(q + n)
             a == Magnitude(q)
             b == Magnitude(n)
             s == Signum(n)
             x == Increased(p, n, c).entry
  <1>1. q \in Int /\ e1 \in Int /\ e2 \in Nat \ {0} /\ e1 >= 0
    BY DEF PositionOK, Fraction, Whole
  <1>2. /\ a \in Nat /\ b \in Nat \ {0} /\ h \in Nat \ {0} /\ s \in {-1, 1}
        /\ q = s * a /\ n = s * b /\ q + n = s * h
    BY <1>1 DEF Increases, Magnitude, Signum
  <1>3. /\ Increased(p, n, c).quantity = q + n /\ Increased(p, n, c).realized = p.realized
        /\ x = Plus(Ratio(a * e1, e2 * h), Ratio(b * c, h))
    BY DEF Increased
  <1> HIDE DEF x, h, a, b, s, q, e1, e2
  <1>4. Is(x, a * e1 + b * (c * e2), e2 * h)
    <2> DEFINE ae == a * e1
               bc == b * c
               eh == e2 * h
    <2>1. ae \in Int /\ bc \in Int /\ eh \in Nat \ {0}
      BY <1>1, <1>2
    <2>2. x = Plus(Ratio(ae, eh), Ratio(bc, h))
      BY <1>3
    <2>3. ae * h + bc * eh = (a * e1 + b * (c * e2)) * h
      BY <1>1, <1>2
    <2> HIDE DEF ae, bc, eh
    <2>4. Is(Ratio(ae, eh), ae, eh) /\ Is(Ratio(bc, h), bc, h)
      BY <1>2, <2>1, RatioIs
    <2>5. Is(x, ae * h + bc * eh, eh * h)
      BY <1>2, <2>1, <2>2, <2>4, PlusIs
    <2> DEFINE v == a * e1 + b * (c * e2)
    <2>6. v \in Int
      BY <1>1, <1>2
    <2> HIDE DEF v
    <2>7. Is(x, v * h, eh * h)
      BY <2>3, <2>5 DEF v
    <2> h \in Int /\ h # 0 /\ eh \in Int
      BY <1>2, <2>1
    <2>8. Is(x, v, eh)
      BY <2>6, <2>7, IsReduced
    <2> QED BY <2>8 DEF v, eh
  <1>5. x = <<x[1], x[2]>> /\ x[1] \in Int /\ x[2] \in Nat \ {0}
        /\ x[1] * (e2 * h) = (a * e1 + b * (c * e2)) * x[2]
    BY <1>4 DEF Is, Fraction
  <1> DEFINE x1 == x[1]
             x2 == x[2]
  <1>6. x1 \in Int /\ x2 \in Nat \ {0} /\ x1 * (e2 * h) = (a * e1 + b * (c * e2)) * x2
    BY <1>5
  <1> HIDE DEF x1, x2
  <1>7. x1 > 0
    <2>1. a * e1 >= 0
      BY <1>1, <1>2
    <2>2. b * (c * e2) > 0
      <3>1. c * e2 \in Nat \ {0}
        BY <1>1
      <3> DEFINE ce == c * e2
      <3> HIDE DEF ce
      <3>2. b * ce > 0
        BY <1>2, <3>1 DEF ce
      <3> QED BY <3>2 DEF ce
    <2> DEFINE v == a * e1 + b * (c * e2)
               w == e2 * h
    <2>3. v \in Nat \ {0} /\ w \in Nat \ {0}
      BY <1>1, <1>2, <2>1, <2>2
    <2>4. x1 * w = v * x2
      BY <1>6
    <2> HIDE DEF v, w
    <2>5. v * x2 > 0
      BY <1>6, <2>3
    <2> QED BY <1>6, <2>3, <2>4, <2>5
  <1>8. (q + n) * (x1 * e2) = (q * e1 + n * (c * e2)) * x2
    <2>1. (s * h) * (x1 * e2) = s * (x1 * (e2 * h))
      BY <1>1, <1>2, <1>6
    <2>2. s * ((a * e1 + b * (c * e2)) * x2) = ((s * a) * e1 + (s * b) * (c * e2)) * x2
      BY <1>1, <1>2, <1>6
    <2> QED BY <1>2, <1>6, <2>1, <2>2
  <1> DEFINE r1 == p.realized[1]
             r2 == p.realized[2]
  <1>9. r1 \in Int /\ r2 \in Int /\ r1 * e2 = (q * e1 + k * e2) * r2
    BY DEF PositionOK, Is, Fraction, q, e1, e2
  <1> HIDE DEF r1, r2
  <1>10. r1 * x2 = ((q + n) * x1 + (k - n * c) * x2) * r2
    BY <1>1, <1>6, <1>8, <1>9, IncreaseAlgebra
  <1>11. Is(p.realized, (q + n) * x[1] + (k - n * c) * x[2], x[2])
    BY <1>10 DEF Is, PositionOK, x1, x2, r1, r2
  <1>12. q + n # 0
    BY <1>2
  <1>13. Fraction(x) /\ x[1] > 0
    BY <1>5, <1>7 DEF Fraction, x1
  <1>14. q + n \in Int
    BY <1>1
  <1> DEFINE y == Increased(p, n, c)
  <1>15. y.quantity = q + n /\ y.realized = p.realized /\ y.entry = x
    BY <1>3 DEF x
  <1> HIDE DEF y
  <1>16. PositionOK(y, k - n * c)
    BY <1>11, <1>12, <1>13, <1>14, <1>15 DEF PositionOK
  <1> QED BY <1>16 DEF y

\* What a trade that reduces a position realizes.
LEMMA RealizedIs ==
    ASSUME NEW e, NEW r, NEW m \in Int, Fraction(e), Is(r, m, e[2]), NEW c \in Int, NEW t \in Int
    PROVE  Is(Plus(r, Scale(t, Plus(Whole(c), Scale(-1, e)))), m + t * (c * e[2] - e[1]), e[2])
  <1> DEFINE e1 == e[1]
             e2 == e[2]
             minus == Scale(-1, e)
             gap == Plus(Whole(c), minus)
             gain == Scale(t, gap)
  <1>1. e1 \in Int /\ e2 \in Nat \ {0} /\ Is(e, e1, e2)
    BY DEF Fraction, Is
  <1>2. Is(r, m, e2)
    OBVIOUS
  <1> HIDE DEF e1, e2
  <1>3. Is(minus, -1 * e1, e2)
    BY <1>1, ScaleIs
  <1>4. Is(gap, c * e2 + (-1 * e1) * 1, 1 * e2)
    <2>1. -1 * e1 \in Int
      BY <1>1
    <2> DEFINE i == -1 * e1
    <2> HIDE DEF i, minus
    <2> QED BY <1>1, <1>3, <2>1, WholeIs, PlusIs DEF i
  <1> DEFINE g == c * e2 - e1
  <1>5. g \in Int /\ c * e2 + (-1 * e1) * 1 = g /\ 1 * e2 = e2
    BY <1>1
  <1>6. Is(gap, g, e2)
    BY <1>4, <1>5
  <1> HIDE DEF gap, g
  <1>7. Is(gain, t * g, e2)
    BY <1>1, <1>5, <1>6, ScaleIs
  <1> DEFINE tg == t * g
  <1>8. tg \in Int
    BY <1>5
  <1> HIDE DEF gain
  <1>9. Is(Plus(r, gain), m * e2 + tg * e2, e2 * e2)
    <2> HIDE DEF tg
    <2> QED BY <1>1, <1>2, <1>7, <1>8, PlusIs DEF tg
  <1>10. m * e2 + tg * e2 = (m + tg) * e2
    <2> HIDE DEF tg
    <2> QED BY <1>1, <1>8
  <1> DEFINE v == m + tg
  <1>11. v \in Int /\ e2 \in Int /\ e2 # 0 /\ Is(Plus(r, gain), v * e2, e2 * e2)
    BY <1>1, <1>8, <1>9, <1>10
  <1> HIDE DEF v
  <1>12. Is(Plus(r, gain), v, e2)
    BY <1>11, IsReduced
  <1> QED BY <1>12 DEF v, gain, gap, minus, g, e1, e2

\* A value that is a whole number may be written over 1.
LEMMA IsWhole ==
    ASSUME NEW x, NEW j \in Int, NEW t \in Nat \ {0}, Is(x, j * t, t)
    PROVE  Is(x, j, 1)
  <1>1. Fraction(x) /\ x[1] * t = (j * t) * x[2]
    BY DEF Is
  <1> DEFINE a == x[1]  b == x[2]
  <1>2. a \in Int /\ b \in Int /\ a * t = (j * t) * b
    BY <1>1 DEF Fraction
  <1> HIDE DEF a, b
  <1>3. a * 1 = j * b
    BY <1>2
  <1> QED BY <1>1, <1>3 DEF Is, a, b

\* A partial close, a close or a crossing adds the traded amount to the cost.
LEMMA ReducedIs ==
    ASSUME NEW p, NEW k \in Int, PositionOK(p, k), NEW n \in Int, n # 0, NEW c \in Nat \ {0},
           ~Increases(p, n)
    PROVE  PositionOK(Reduced(p, n, c), k - n * c)
  <1> DEFINE q == p.quantity
             e == p.entry
             e1 == e[1]
             e2 == e[2]
             left == q + n
             closed == Min({Magnitude(q), Magnitude(n)})
             t == closed * Signum(q)
             r == Plus(p.realized, Scale(t, Plus(Whole(c), Scale(-1, e))))
             m == q * e1 + k * e2
             y == Reduced(p, n, c)
  <1>1. q \in Int /\ e1 \in Int /\ e2 \in Nat \ {0} /\ Fraction(e) /\ Is(p.realized, m, e2) /\ left \in Int
    BY DEF PositionOK, Fraction
  <1>2. /\ y.quantity = left /\ y.realized = r
        /\ y.entry = IF left = 0 THEN Whole(0) ELSE IF Signum(left) # Signum(q) THEN Whole(c) ELSE e
    BY DEF Reduced
  <1>3. q # 0 /\ Signum(n) # Signum(q)
    BY DEF Increases
  <1>4. /\ left = 0 => t = q /\ n = -q
        /\ left # 0 /\ Signum(left) # Signum(q) => t = q
        /\ left # 0 /\ Signum(left) = Signum(q) => t = -n
    <2>1. \A x \in Int, z \in Int : Min({x, z}) = IF x <= z THEN x ELSE z
      BY DEF Min
    <2>2. closed = IF Magnitude(q) <= Magnitude(n) THEN Magnitude(q) ELSE Magnitude(n)
      BY <1>1, <2>1 DEF Magnitude
    <2> HIDE DEF closed
    <2> QED BY <1>1, <1>3, <2>2 DEF Magnitude, Signum
  <1>5. t \in Int
    BY <1>1, <1>3, <1>4
  <1>6. m \in Int
    BY <1>1
  <1>7. Is(r, m + t * (c * e2 - e1), e2)
    <2>1. Fraction(e) /\ Is(p.realized, m, e[2])
      BY <1>1
    <2> HIDE DEF e, q, m, t, left, closed, y
    <2> QED BY <2>1, <1>5, <1>6, RealizedIs
  <1> HIDE DEF r, t, y
  <1> DEFINE j == k - n * c
  <1>8. j \in Int
    OBVIOUS
  <1>9. CASE left = 0
    <2>1. m + t * (c * e2 - e1) = j * e2
      <3>1. t = q /\ j = k + q * c
        BY <1>1, <1>4, <1>9
      <3>2. m + q * (c * e2 - e1) = (k + q * c) * e2
        <4> HIDE DEF q, e1, e2
        <4> QED BY <1>1
      <3> QED BY <3>1, <3>2
    <2>2. Is(r, j, 1)
      <3>1. Is(r, j * e2, e2)
        BY <1>7, <2>1
      <3> HIDE DEF j, e2
      <3> QED BY <1>1, <1>8, <3>1, IsWhole
    <2>3. Whole(0)[1] = 0 /\ Whole(0)[2] = 1 /\ Fraction(Whole(0))
      BY DEF Whole, Fraction
    <2>4. y.quantity = 0 /\ y.entry = Whole(0) /\ y.realized = r
      BY <1>2, <1>9
    <2>5. y.quantity * y.entry[1] + j * y.entry[2] = j /\ y.entry[2] = 1
      BY <1>8, <2>3, <2>4
    <2> HIDE DEF j
    <2>6. Is(y.realized, y.quantity * y.entry[1] + j * y.entry[2], y.entry[2])
      BY <2>2, <2>4, <2>5
    <2>7. PositionOK(y, j)
      BY <2>2, <2>3, <2>4, <2>6 DEF PositionOK, Is
    <2> QED BY <2>7 DEF j, y
  <1>10. CASE left # 0 /\ Signum(left) # Signum(q)
    <2> DEFINE v == left * c + j
    <2>1. m + t * (c * e2 - e1) = v * e2
      BY <1>1, <1>4, <1>10
    <2>2. v \in Int
      BY <1>1, <1>8
    <2>3. Is(r, v, 1)
      <3>1. Is(r, v * e2, e2)
        BY <1>7, <2>1
      <3> HIDE DEF v, e2
      <3> QED BY <1>1, <2>2, <3>1, IsWhole
    <2>4. Whole(c)[1] = c /\ Whole(c)[2] = 1 /\ Fraction(Whole(c))
      BY DEF Whole, Fraction
    <2>5. y.quantity = left /\ y.entry = Whole(c) /\ y.realized = r
      BY <1>2, <1>10
    <2>6. y.quantity * y.entry[1] + j * y.entry[2] = v /\ y.entry[2] = 1
      BY <1>8, <2>4, <2>5
    <2> HIDE DEF j, v
    <2>7. Is(y.realized, y.quantity * y.entry[1] + j * y.entry[2], y.entry[2])
      BY <2>3, <2>5, <2>6
    <2>8. PositionOK(y, j)
      BY <1>1, <1>10, <2>3, <2>4, <2>5, <2>7 DEF PositionOK, Is
    <2> QED BY <2>8 DEF j, y
  <1>11. CASE left # 0 /\ Signum(left) = Signum(q)
    <2>1. m + t * (c * e2 - e1) = left * e1 + j * e2
      BY <1>1, <1>4, <1>11
    <2>2. Is(r, left * e1 + j * e2, e2)
      BY <1>7, <2>1
    <2>3. y.quantity = left /\ y.entry = e /\ y.realized = r
      BY <1>2, <1>11
    <2>4. e[1] > 0
      BY <1>3 DEF PositionOK
    <2> HIDE DEF j
    <2>5. PositionOK(y, j)
      BY <1>1, <1>11, <2>2, <2>3, <2>4 DEF PositionOK, Is
    <2> QED BY <2>5 DEF j, y
  <1> QED BY <1>9, <1>10, <1>11

\* So does every trade.
LEMMA TradedIs ==
    ASSUME NEW p, NEW k \in Int, PositionOK(p, k), NEW n \in Int, n # 0, NEW c \in Nat \ {0}
    PROVE  PositionOK(Traded(p, n, c), k - n * c)
  BY IncreasedIs, ReducedIs DEF Traded

\* Realized and unrealized profit together are a whole number.
LEMMA ProfitIs ==
    ASSUME NEW p, NEW k \in Int, PositionOK(p, k), NEW mid \in Int
    PROVE  Plus(p.realized, Scale(p.quantity, Plus(Whole(mid), Scale(-1, p.entry)))) = Whole(p.quantity * mid + k)
  <1> DEFINE q == p.quantity
             e == p.entry
             e1 == e[1]
             e2 == e[2]
             r == p.realized
             minus == Scale(-1, e)
             gap == Plus(Whole(mid), minus)
             gain == Scale(q, gap)
             m == q * e1 + k * e2
             i == q * (mid * e2 - e1)
             j == q * mid + k
  <1>1. q \in Int /\ e1 \in Int /\ e2 \in Nat \ {0} /\ Is(e, e1, e2) /\ Is(r, m, e2)
    BY DEF PositionOK, Fraction, Is
  <1> HIDE DEF e1, e2, q, r, m
  <1>2. Is(minus, -1 * e1, e2)
    BY <1>1, ScaleIs
  <1>3. Is(gap, mid * e2 + (-1 * e1) * 1, 1 * e2)
    <2>1. -1 * e1 \in Int
      BY <1>1
    <2> DEFINE f == -1 * e1
    <2> HIDE DEF f, minus
    <2> QED BY <1>1, <1>2, <2>1, WholeIs, PlusIs DEF f
  <1> DEFINE g == mid * e2 - e1
  <1>4. g \in Int /\ mid * e2 + (-1 * e1) * 1 = g /\ 1 * e2 = e2
    BY <1>1
  <1>5. Is(gap, g, e2)
    BY <1>3, <1>4
  <1>6. Is(gain, i, e2)
    <2> HIDE DEF gap, g
    <2>1. Is(gain, q * g, e2)
      BY <1>1, <1>4, <1>5, ScaleIs
    <2> QED BY <2>1 DEF g
  <1>7. m + i = j * e2 /\ m \in Int /\ i \in Int /\ j \in Int
    BY <1>1 DEF m
  <1> HIDE DEF i, j, gain
  <1>8. Plus(r, gain) = Ratio(r[1] * gain[2] + gain[1] * r[2], r[2] * gain[2])
    BY DEF Plus
  <1> DEFINE r1 == r[1]  r2 == r[2]  a == gain[1]  b == gain[2]
  <1>9. r1 \in Int /\ r2 \in Nat \ {0} /\ a \in Int /\ b \in Nat \ {0} /\ r1 * e2 = m * r2 /\ a * e2 = i * b
    BY <1>1, <1>6 DEF Is, Fraction
  <1>10. Plus(r, gain) = Ratio(r1 * b + a * r2, r2 * b)
    BY <1>8
  <1> HIDE DEF r1, r2, a, b
  <1>11. r1 * b + a * r2 = j * (r2 * b)
    <2> DEFINE top == r1 * b + a * r2
               low == j * (r2 * b)
    <2>1. top * e2 = (r1 * e2) * b + (a * e2) * r2
      BY <1>1, <1>9
    <2>2. (m * r2) * b + (i * b) * r2 = (m + i) * (r2 * b)
      BY <1>7, <1>9
    <2>3. (j * e2) * (r2 * b) = low * e2
      BY <1>1, <1>7, <1>9
    <2>4. top * e2 = low * e2
      BY <1>7, <1>9, <2>1, <2>2, <2>3
    <2>5. top \in Int /\ low \in Int /\ e2 \in Int /\ e2 # 0
      BY <1>1, <1>7, <1>9
    <2> HIDE DEF top, low
    <2>6. top = low
      BY <2>4, <2>5, Cancel
    <2> QED BY <2>6 DEF top, low
  <1>12. r2 * b \in Nat \ {0}
    BY <1>9
  <1> DEFINE d == r2 * b
  <1>13. Plus(r, gain) = Ratio(j * d, d) /\ d \in Nat \ {0}
    BY <1>10, <1>11, <1>12
  <1> HIDE DEF d
  <1>14. Plus(r, gain) = Whole(j)
    BY <1>7, <1>13, RatioWhole
  <1> QED BY <1>14 DEF r, gain, j, q

\* Whole numbers add up as fractions as they do as integers.
LEMMA WholePlus ==
    ASSUME NEW a \in Int, NEW b \in Int
    PROVE  Plus(Whole(a), Whole(b)) = Whole(a + b)
  <1> DEFINE j == a + b
  <1>1. Plus(Whole(a), Whole(b)) = Ratio(j, 1)
    BY DEF Plus, Whole
  <1>2. j \in Int /\ j = j * 1
    OBVIOUS
  <1> HIDE DEF j
  <1>3. Ratio(j * 1, 1) = Whole(j)
    BY <1>2, RatioWhole
  <1> QED BY <1>1, <1>2, <1>3 DEF j

\* total is what FoldSet computes when it adds up the fractions f over a finite set.
Folding(total, f, S) ==
    /\ total[{}] = Whole(0)
    /\ \A s \in SUBSET S : s # {} => total[s] = Plus(total[s \ {Picked(s)}], f[Picked(s)])

\* What FoldSet adds up from whole profits is the whole sum of SumProofs.
LEMMA WholesAdd ==
    ASSUME NEW S, IsFiniteSet(S), NEW m \in [S -> Int], NEW j, Summing(j, m, S),
           NEW f, \A x \in S : f[x] = Whole(m[x]),
           NEW total, Folding(total, f, S)
    PROVE  total[S] = Whole(j[S])
  <1> DEFINE Bad == {n \in Nat : \E s \in SUBSET S : Cardinality(s) = n /\ total[s] # Whole(j[s])}
  <1>0. j[{}] = 0 /\ \A s \in SUBSET S : j[s] \in Int /\ (\A y \in s : j[s] = m[y] + j[s \ {y}])
    <2>1. IsFiniteSet(S) /\ m \in [S -> Int] /\ Summing(j, m, S)
      OBVIOUS
    <2> QED BY ONLY <2>1, SumUnfolds
  <1>1. ASSUME NEW n \in Nat, \A k \in Nat : k < n => k \notin Bad PROVE n \notin Bad
    <2> SUFFICES ASSUME NEW s \in SUBSET S, Cardinality(s) = n PROVE total[s] = Whole(j[s])
      OBVIOUS
    <2>1. CASE s = {}
      BY <1>0, <2>1 DEF Folding
    <2>2. CASE s # {}
      <3> DEFINE x == Picked(s)
                 rest == s \ {x}
      <3>1. x \in s /\ rest \in SUBSET S /\ Cardinality(rest) = n - 1 /\ n - 1 \in Nat
        BY <2>2, SubsetsOfFinite
      <3>2. total[s] = Plus(total[rest], f[x])
        BY <2>2 DEF Folding
      <3> HIDE DEF x
      <3>3. j[s] = m[x] + j[rest]
        BY <1>0, <3>1
      <3> HIDE DEF rest
      <3>4. total[rest] = Whole(j[rest])
        BY <1>1, <3>1
      <3>5. f[x] = Whole(m[x]) /\ m[x] \in Int /\ j[rest] \in Int
        BY <1>0, <3>1
      <3>6. total[s] = Whole(j[rest] + m[x])
        BY <3>2, <3>4, <3>5, WholePlus
      <3> QED BY <3>3, <3>5, <3>6
    <2> QED BY <2>1, <2>2
  <1>2. \A n \in Nat : n \notin Bad
    <2> HIDE DEF Bad
    <2> SUFFICES ASSUME NEW k \in Nat, k \in Bad PROVE FALSE
      OBVIOUS
    <2>1. Bad \cap Nat \in SUBSET Nat /\ Bad \cap Nat # {}
      OBVIOUS
    <2>2. PICK l \in Bad \cap Nat : \A n \in Bad \cap Nat : l <= n
      BY <2>1, LeastElement
    <2>3. \A n \in Nat : n < l => n \notin Bad
      BY <2>2
    <2> QED BY <1>1, <2>2, <2>3
  <1>3. S \in SUBSET S /\ Cardinality(S) \in Nat
    BY FS_CardinalityType
  <1> QED BY <1>2, <1>3

-----------------------------------------------------------------------------
(***************************************************************************)
(* The inductive invariant of the profit: positions have whole costs, and  *)
(* the money put in less these costs is the cash, up to half a cent for    *)
(* each order that came to half a cent.                                    *)
(***************************************************************************)
Paid == 2 * (ledger["INITIAL_GRANT"] + ledger["BAILOUT"] + ledger["TRADING_FEE"])

Costs(cost, total) ==
    /\ cost \in [Assets -> Int]
    /\ Summing(total, cost, Assets)
    /\ \A a \in Assets : PositionOK(positions[a], cost[a])
    /\ 2 * cash - Paid - total[Assets] \in -uneven .. uneven

ProfitInv == AccountInv /\ \E cost, total : Costs(cost, total)

\* Nothing is held and nothing is paid at the start.
LEMMA ProfitInit == ASSUME MarketAssumption, MarketBounds, MarketInit PROVE ProfitInv
  <1> DEFINE none == [a \in Assets |-> 0]
  <1>1. none \in [Assets -> Int]
    OBVIOUS
  <1>2. PICK total : Summing(total, none, Assets)
    <2> HIDE DEF none
    <2> QED BY <1>1, SumExists DEF MarketBounds
  <1>3. total[Assets] = 0
    <2> DEFINE zeros == [s \in SUBSET Assets |-> 0]
    <2>1. Summing(zeros, none, Assets)
      <3>1. \A s \in SUBSET Assets : s # {} => Picked(s) \in Assets
        BY DEF Picked
      <3> QED BY <3>1 DEF Summing
    <2>2. Assets \in SUBSET (Assets \cap Assets) /\ IsFiniteSet(Assets)
      BY DEF MarketBounds
    <2> HIDE DEF none
    <2>3. total[Assets] = zeros[Assets]
      <3> HIDE DEF zeros
      <3> QED BY ONLY <1>1, <1>2, <2>1, <2>2, SumAgrees
    <2> QED BY <2>3
  <1>4. \A a \in Assets : PositionOK(positions[a], none[a])
    BY FlatIs DEF MarketInit
  <1>5. 2 * cash - Paid - total[Assets] \in -uneven .. uneven
    BY <1>3 DEF MarketInit, Paid, Entries, MarketAssumption
  <1> HIDE DEF none
  <1>6. Costs(none, total)
    BY <1>1, <1>2, <1>4, <1>5 DEF Costs
  <1> QED
    BY <1>6, AccountInit DEF ProfitInv

\* An order moves cash, fees and cost together, up to the rounding of its cash flow.
LEMMA OrderKeepsProfit ==
    ASSUME MarketAssumption, MarketBounds, ProfitInv,
           NEW a \in Assets, NEW s \in Sides, NEW q \in Quantities, SubmitOrder(a, s, q)
    PROVE  ProfitInv'
  <1> DEFINE price == Price(a, s, q)
             fee == Fee(price, q)
             flow == -Direction(s) * (price * q)
             n == Direction(s) * q
             moved == CashMoves(s, price, q)
             odd == (price * q) % 2
  <1>1. price \in Nat \ {0} /\ fee \in Nat /\ q \in Nat \ {0} /\ Direction(s) \in {-1, 1}
    BY QuoteType DEF Direction
  <1>2. /\ uneven' = uneven + odd
        /\ cash' = cash + moved
        /\ ledger' = [ledger EXCEPT ![IF Pays(s) THEN "TRADE_DEBIT" ELSE "TRADE_CREDIT"] = @ + Flow(s, price, q),
                                    !["TRADING_FEE"] = @ - fee]
        /\ positions' = [positions EXCEPT ![a] = Traded(@, n, price)]
    BY DEF SubmitOrder, Entered
  <1>3. flow \in Int /\ n \in Int /\ n # 0 /\ n * price = -flow
    <2> HIDE DEF price
    <2>1. \A d \in {-1, 1} : -d * (price * q) \in Int /\ d * q \in Int /\ d * q # 0 /\ (d * q) * price = -(-d * (price * q))
      BY <1>1
    <2> QED BY <1>1, <2>1
  <1>a. odd \in {0, 1} /\ moved \in Int /\ 2 * (moved + fee) + -flow \in -odd .. odd
    <2>1. odd \in {0, 1} /\ moved \in Int /\ 2 * (moved + fee) + Direction(s) * (price * q) \in -odd .. odd
      BY OrderAmounts
    <2>2. \A d \in {-1, 1} : d * (price * q) = -(-d * (price * q))
      <3> HIDE DEF price
      <3> QED BY <1>1
    <2>3. Direction(s) * (price * q) = -flow
      BY <1>1, <2>2
    <2> QED BY <2>1, <2>3
  <1> HIDE DEF price, fee, flow, n, moved, odd
  <1>4. PICK cost, total : Costs(cost, total)
    BY DEF ProfitInv
  <1>5. cost \in [Assets -> Int] /\ cost[a] \in Int /\ Summing(total, cost, Assets) /\ IsFiniteSet(Assets)
    BY <1>4 DEF Costs, MarketBounds
  <1> DEFINE v == cost[a] + flow
             after == [cost EXCEPT ![a] = v]
  <1>6. v \in Int
    BY <1>3, <1>5
  <1>7. after \in [Assets -> Int] /\ after[a] = v /\ \A b \in Assets \ {a} : cost[b] = after[b]
    <2> HIDE DEF v
    <2> QED BY <1>5, <1>6
  <1> HIDE DEF after
  <1>8. PICK sum : Summing(sum, after, Assets)
    BY <1>5, <1>7, SumExists
  <1>9. sum[Assets] = total[Assets] - cost[a] + v
    <2>1. \A z \in Assets : (\A y \in Assets \ {z} : cost[y] = after[y])
                          => sum[Assets] = total[Assets] - cost[z] + after[z]
      BY ONLY <1>5, <1>7, <1>8, SumChanges
    <2> HIDE DEF v
    <2> QED BY <1>7, <2>1
  <1>10. total[Assets] \in Int
    <2>1. Assets \in SUBSET Assets
      OBVIOUS
    <2> QED BY <1>5, <2>1, SumSteps, SumUnfolds
  <1>11. \A b \in Assets : PositionOK(positions'[b], after[b])
    <2>1. PositionOK(Traded(positions[a], n, price), cost[a] - n * price)
      <3>1. PositionOK(positions[a], cost[a])
        BY <1>4 DEF Costs
      <3> QED BY <1>1, <1>3, <1>5, <3>1, TradedIs
    <2>2. cost[a] - n * price = v
      BY <1>3, <1>5
    <2>3. DOMAIN positions = Assets
      BY DEF ProfitInv, AccountInv, AccountType
    <2>4. positions'[a] = Traded(positions[a], n, price) /\ after[a] = v
      BY <1>2, <1>7, <2>3
    <2>5. ASSUME NEW b \in Assets, b # a PROVE positions'[b] = positions[b] /\ after[b] = cost[b]
      BY <1>2, <1>7, <2>3, <2>5
    <2> HIDE DEF v
    <2>6. \A b \in Assets : PositionOK(positions[b], cost[b])
      BY <1>4 DEF Costs
    <2>7. ASSUME NEW b \in Assets PROVE PositionOK(positions'[b], after[b])
      <3>1. CASE b = a
        BY <2>1, <2>2, <2>4, <3>1
      <3>2. CASE b # a
        BY <2>5, <2>6, <3>2
      <3> QED BY <3>1, <3>2
    <2> QED BY <2>7
  <1>12. 2 * cash' - Paid' - sum[Assets] \in -uneven' .. uneven'
    <2>1. cash \in Int /\ ledger \in [Entries -> Int] /\ uneven \in Nat
      BY DEF ProfitInv, AccountInv, AccountType
    <2>2. Paid' = Paid - 2 * fee /\ Paid \in Int
      BY <1>1, <1>2, <2>1 DEF Paid, Entries
    <2>3. sum[Assets] = total[Assets] + flow
      BY <1>3, <1>5, <1>10, <1>9
    <2> DEFINE left == 2 * cash - Paid - total[Assets]
               more == 2 * (moved + fee) + -flow
    <2>4. left \in -uneven .. uneven
      BY <1>4 DEF Costs
    <2> HIDE DEF v
    <2>5. 2 * cash' - Paid' - sum[Assets] = left + more
      BY <1>1, <1>2, <1>3, <1>a, <1>10, <2>1, <2>2, <2>3
    <2> HIDE DEF left, more
    <2>6. more \in -odd .. odd
      BY <1>a DEF more
    <2> QED BY <1>2, <1>a, <2>1, <2>4, <2>5, <2>6
  <1>13. Costs(after, sum)'
    BY <1>7, <1>11, <1>12, <1>8 DEF Costs
  <1>14. AccountInv'
    BY OrderKeepsAccount DEF ProfitInv
  <1> QED
    BY <1>13, <1>14 DEF ProfitInv

\* Every step keeps the invariant.
LEMMA StepKeepsProfit ==
    ASSUME MarketAssumption, MarketBounds, ProfitInv, [MarketNext]_marketVars
    PROVE  ProfitInv'
  <1>1. CASE \E a \in Assets, s \in Sides, q \in Quantities : SubmitOrder(a, s, q)
    BY <1>1, OrderKeepsProfit
  <1>2. CASE Bailout
    <2>1. PICK cost, total : Costs(cost, total)
      BY DEF ProfitInv
    <2>2. Paid' = Paid + 100000 /\ cash' = cash + 50000 /\ Paid \in Int /\ cash \in Int
          /\ positions' = positions /\ uneven' = uneven
      BY <1>2 DEF Bailout, Paid, ProfitInv, AccountInv, AccountType, Entries
    <2>3. total[Assets] \in Int
      <3>1. Assets \in SUBSET Assets /\ IsFiniteSet(Assets) /\ cost \in [Assets -> Int] /\ Summing(total, cost, Assets)
        BY <2>1 DEF Costs, MarketBounds
      <3> QED BY <3>1, SumUnfolds
    <2>4. Costs(cost, total)'
      BY <2>1, <2>2, <2>3 DEF Costs
    <2>5. AccountInv'
      BY <1>2, BailoutKeepsAccount DEF ProfitInv
    <2> QED BY <2>4, <2>5 DEF ProfitInv
  <1>3. CASE UNCHANGED marketVars
    <2>1. PICK cost, total : Costs(cost, total)
      BY DEF ProfitInv
    <2>2. Costs(cost, total)'
      BY <1>3, <2>1 DEF marketVars, Costs, Paid
    <2>3. AccountInv'
      BY <1>3, StepKeepsAccount DEF ProfitInv
    <2> QED BY <2>2, <2>3 DEF ProfitInv
  <1> QED
    BY <1>1, <1>2, <1>3 DEF MarketNext

\* Costs that are whole numbers make the profit whole, and the dust what is left of the cash.
LEMMA ProfitExplains ==
    ASSUME MarketAssumption, MarketBounds, ProfitInv
    PROVE  ProfitExplainsEquity
  <1>1. PICK cost, total : Costs(cost, total)
    BY DEF ProfitInv
  <1> DEFINE value == [a \in Assets |-> MarketValue(a)]
             worth == [a \in Assets |-> value[a] + cost[a]]
             Profit(a) == Plus(positions[a].realized,
                               Scale(positions[a].quantity, Plus(Whole(Mid[a]), Scale(-1, positions[a].entry))))
             gains == [a \in Assets |-> Profit(a)]
  <1>2. IsFiniteSet(Assets) /\ cost \in [Assets -> Int] /\ Summing(total, cost, Assets)
    BY <1>1 DEF Costs, MarketBounds
  <1>3. value \in [Assets -> Int]
    BY DEF MarketAssumption, ProfitInv, AccountInv, AccountType, MarketValue
  <1>4. worth \in [Assets -> Int]
    <2> HIDE DEF value
    <2> QED BY <1>2, <1>3
  <1>5. \A a \in Assets : gains[a] = Whole(worth[a])
    <2> SUFFICES ASSUME NEW a \in Assets PROVE Profit(a) = Whole(value[a] + cost[a])
      OBVIOUS
    <2>1. PositionOK(positions[a], cost[a]) /\ cost[a] \in Int /\ Mid[a] \in Int
      BY <1>1, <1>2 DEF Costs, MarketAssumption
    <2>2. value[a] = positions[a].quantity * Mid[a]
      BY DEF MarketValue
    <2> HIDE DEF value
    <2> QED BY <2>1, <2>2, ProfitIs
  <1>6. PICK sum : Summing(sum, worth, Assets)
    <2> HIDE DEF worth
    <2> QED BY <1>2, <1>4, SumExists
  <1>7. \A s \in SUBSET Assets : s # {} => Picked(s) \in Assets
    BY DEF Picked
  <1> DEFINE profit == FoldSet(LAMBDA a, sofar : Plus(sofar, Profit(a)), Whole(0), Assets)
  <1>8. profit = Whole(sum[Assets])
    <2> DEFINE raw(g) == [s \in SUBSET Assets |-> IF s = {} THEN Whole(0)
                                                  ELSE Plus(g[s \ {Picked(s)}], Profit(Picked(s)))]
               fold == CHOOSE g : g = raw(g)
               known == [s \in SUBSET Assets |-> Whole(sum[s])]
    <2>1. profit = fold[Assets]
      BY DEF FoldSet, MapThenFoldSet, Picked
    <2>2. known = raw(known)
      <3>1. sum[{}] = 0 /\ \A s \in SUBSET Assets : sum[s] \in Int
                           /\ (\A y \in s : sum[s] = worth[y] + sum[s \ {y}])
        <4> HIDE DEF worth
        <4> QED BY ONLY <1>2, <1>4, <1>6, SumUnfolds
      <3>2. ASSUME NEW s \in SUBSET Assets PROVE known[s] = raw(known)[s]
        <4>1. CASE s = {}
          BY <3>1, <4>1
        <4>2. CASE s # {}
          <5> DEFINE x == Picked(s)
                     rest == s \ {x}
          <5>1. x \in s /\ x \in Assets /\ rest \in SUBSET Assets
            BY <1>2, <4>2, SubsetsOfFinite
          <5>2. raw(known)[s] = Plus(known[rest], Profit(x))
            BY <4>2
          <5>3. Profit(x) = gains[x]
            BY <5>1
          <5> HIDE DEF x, raw, gains, worth, Profit
          <5>4. gains[x] = Whole(worth[x]) /\ worth[x] \in Int /\ sum[s] = worth[x] + sum[rest]
            BY <1>4, <1>5, <3>1, <5>1
          <5>5. known[rest] = Whole(sum[rest]) /\ sum[rest] \in Int /\ known[s] = Whole(sum[s])
            <6> HIDE DEF rest
            <6> QED BY <3>1, <5>1
          <5>6. raw(known)[s] = Whole(sum[rest] + worth[x])
            BY <5>2, <5>3, <5>4, <5>5, WholePlus
          <5> QED BY <5>4, <5>5, <5>6
        <4> QED BY <4>1, <4>2
      <3> HIDE DEF worth, Profit, gains
      <3> QED BY <3>2
    <2>3. fold = raw(fold)
      <3> HIDE DEF raw, known
      <3> QED BY ONLY <2>2, Zenon DEF fold
    <2>4. Folding(fold, gains, Assets)
      <3>1. \A x \in Assets : gains[x] = Profit(x)
        OBVIOUS
      <3> HIDE DEF fold, gains, Profit
      <3>2. \A s \in SUBSET Assets : fold[s] = IF s = {} THEN Whole(0)
                                               ELSE Plus(fold[s \ {Picked(s)}], Profit(Picked(s)))
        BY <2>3
      <3> QED BY <1>7, <3>1, <3>2 DEF Folding
    <2> HIDE DEF fold, gains, worth, Profit, profit
    <2>5. fold[Assets] = Whole(sum[Assets])
      BY ONLY <1>2, <1>4, <1>5, <1>6, <2>4, WholesAdd
    <2> QED BY <2>1, <2>5
  <1>9. sum[Assets] = Net + total[Assets]
    <2> DEFINE raw(g) == [s \in SUBSET Assets |-> IF s = {} THEN 0 ELSE MarketValue(Picked(s)) + g[s \ {Picked(s)}]]
               sums == CHOOSE g : g = raw(g)
    <2>1. Net = sums[Assets]
      BY DEF Net, MapThenSumSet, MapThenFoldSet, Picked
    <2>2. \A g : Summing(g, value, Assets) <=> g = raw(g)
      BY <1>7 DEF Summing
    <2>3. \E g : Summing(g, value, Assets)
      <3> HIDE DEF value
      <3> QED BY <1>2, <1>3, SumExists
    <2>4. \E g : g = raw(g)
      BY ONLY <2>2, <2>3
    <2>5. sums = raw(sums)
      <3> HIDE DEF raw
      <3> QED BY ONLY <2>4, Zenon DEF sums
    <2>6. Summing(sums, value, Assets)
      BY ONLY <2>2, <2>5
    <2>7. Summing(sum, [a \in Assets |-> value[a] + cost[a]], Assets)
      BY <1>6
    <2> HIDE DEF value, sums, raw
    <2>8. sum[Assets] = sums[Assets] + total[Assets]
      BY ONLY <1>2, <1>3, <2>6, <2>7, SumAdds
    <2> QED BY <2>1, <2>8
  <1>10. Net \in Int /\ total[Assets] \in Int /\ cash \in Int /\ Paid \in Int /\ uneven \in Nat
    <2>1. Net \in Int
      BY ExposureTypes DEF ProfitInv, AccountInv
    <2>2. total[Assets] \in Int
      <3>1. Assets \in SUBSET Assets
        OBVIOUS
      <3> QED BY ONLY <1>2, <3>1, SumUnfolds
    <2>3. cash \in Int /\ Paid \in Int /\ uneven \in Nat
      BY DEF ProfitInv, AccountInv, AccountType, Paid, Entries
    <2> QED BY <2>1, <2>2, <2>3
  <1> DEFINE dust == Plus(Whole(Value - Paid), Scale(-1, profit))
             left == 2 * cash - Paid - total[Assets]
             j == sum[Assets]
  <1>11. dust = Whole(left)
    <2>1. j \in Int /\ Value - Paid \in Int /\ (Value - Paid) + (-j) = left
      BY <1>9, <1>10 DEF Value
    <2>2. Scale(-1, profit) = Whole(-j)
      <3>1. Scale(-1, Whole(j)) = Ratio((-j) * 1, 1)
        BY <2>1 DEF Scale, Whole
      <3> HIDE DEF profit, j
      <3>2. -j \in Int
        BY <2>1
      <3>3. Ratio((-j) * 1, 1) = Whole(-j)
        BY <3>2, RatioWhole
      <3> QED BY <1>8, <3>1, <3>3 DEF j
    <2> DEFINE w == Value - Paid  u == -j
    <2>3. w \in Int /\ u \in Int /\ w + u = left /\ dust = Plus(Whole(w), Whole(u))
      <3> HIDE DEF profit
      <3> QED BY <2>1, <2>2
    <2> HIDE DEF w, u, dust, left, profit, j
    <2> QED BY <2>3, WholePlus
  <1>12. left \in -uneven .. uneven
    BY <1>1 DEF Costs
  <1>13. dust[2] = 1 /\ dust[1] \in -uneven .. uneven
    <2> HIDE DEF dust, left
    <2> QED BY <1>11, <1>12 DEF Whole
  <1>14. MarketTypeOK
    <2>1. ASSUME NEW a \in Assets
          PROVE /\ positions[a].quantity \in Int /\ positions[a].realized[2] > 0
                /\ positions[a].entry[1] >= 0 /\ positions[a].entry[2] > 0
                /\ positions[a].quantity = 0 <=> positions[a].entry = Whole(0)
      <3> DEFINE p == positions[a]
      <3>1. PositionOK(p, cost[a])
        BY <1>1 DEF Costs
      <3> HIDE DEF p
      <3>2. /\ p.quantity \in Int /\ p.realized[2] > 0 /\ p.entry[1] >= 0 /\ p.entry[2] > 0
            /\ p.quantity = 0 <=> p.entry = Whole(0)
        BY <3>1 DEF PositionOK, Is, Fraction, Whole
      <3> QED BY <3>2 DEF p
    <2> QED BY <2>1 DEF MarketTypeOK, ProfitInv, AccountInv, AccountType
  <1> QED
    BY <1>13, <1>14 DEF ProfitExplainsEquity, Paid

\* Equity is what was put in plus realized and unrealized profit less fees, up to half a
\* cent for each order that came to half a cent, through every average, partial close and crossing of portfolio().
THEOREM ProfitAlwaysExplains == MarketSpec => []ProfitExplainsEquity
  <1>1. MarketInit => ProfitInv
    BY ProfitInit, MarketAssumption, MarketBounds
  <1>2. ProfitInv /\ [MarketNext]_marketVars => ProfitInv'
    BY StepKeepsProfit, MarketAssumption, MarketBounds
  <1>3. ProfitInv => ProfitExplainsEquity
    BY ProfitExplains, MarketAssumption, MarketBounds
  <1> QED
    BY <1>1, <1>2, <1>3, PTL DEF MarketSpec

(***************************************************************************)
(* The API.  What its handlers do to the account is what submitOrder()     *)
(* does, so that whatever was proved of the account holds behind the API;  *)
(* and its answers are true of the account.                                *)
(***************************************************************************)
\* A step of the API is a step of the account, or none.
LEMMA HandlersSubmitOrders ==
    ASSUME BodiesAssumption, ApiNext
    PROVE  [MarketNext]_marketVars
  <1>1. PICK r \in Requests :
            \/ Read(r) \/ Begin(r) \/ BodyFails(r) \/ BodyRefused(r) \/ Login(r)
            \/ \E body \in OrderBodies : Order(r, body)
            \/ \E rows \in 0 .. 1 : Queried(r, rows)
            \/ QueryFails(r)
    BY DEF ApiNext
  <1>2. CASE \E body \in OrderBodies : Order(r, body)
    <2>1. PICK body \in OrderBodies : Order(r, body)
      BY <1>2
    <2>2. CASE Refused(body)
      BY <2>1, <2>2 DEF Order, accountVars
    <2>3. CASE ~Refused(body)
      <3>1. SubmitOrder(body.asset, body.side, body.quantity) /\ body.asset \in Assets
        BY <2>1, <2>3 DEF Order, Refused
      <3> QED
        BY <3>1, BodiesAssumption DEF MarketNext
    <2> QED
      BY <2>2, <2>3
  <1>3. CASE ~ \E body \in OrderBodies : Order(r, body)
    <2>1. UNCHANGED accountVars
      BY <1>1, <1>3 DEF Read, Begin, BodyFails, BodyRefused, Login, Queried, QueryFails
    <2> QED
      BY <2>1 DEF accountVars
  <1> QED
    BY <1>2, <1>3

\* The account behind the API is the account of packages/market-engine, whose
\* cash follows its ledger and stays non-negative and whose profit explains it.
THEOREM ApiKeepsAccount == ApiSpec => MarketSpec
  <1>1. ApiInit => MarketInit
    BY DEF ApiInit
  <1>2. [ApiNext]_<<accountVars, apiVars>> => [MarketNext]_marketVars
    BY HandlersSubmitOrders, BodiesAssumption DEF accountVars
  <1> QED
    BY <1>1, <1>2, PTL DEF ApiSpec, MarketSpec

\* A request is answered once, and only an order of the account confirms one.
Answered ==
    /\ DOMAIN waiting = Requests /\ DOMAIN answers = Requests
    /\ \A r \in Requests : waiting[r] # "nothing" => answers[r] = Unanswered
    /\ \A r \in Requests : "order" \in DOMAIN answers[r] => answers[r].order \in 1 .. filled

\* What shows all the orders there are shows the cash there is.
Current == \A r \in Requests : Shows(r) /\ answers[r].orders = filled => answers[r].cash = cash
Numbered == \A r \in Requests : Shows(r) => answers[r].orders \in 0 .. filled

ApiInv == filled \in Nat /\ environment # NoServer /\ Answered /\ Current /\ Numbered /\ AccountIsOne

\* What a handler that submits no order may answer: whatever shows no account, or the
\* account as it is.
Harmless(a) ==
    /\ "order" \notin DOMAIN a
    /\ "cash" \in DOMAIN a => a.orders = filled /\ a.trades = tradesCompleted /\ a.cash = cash

\* A status alone shows nothing of the account.
LEMMA StatusIsHarmless == ASSUME NEW code PROVE Harmless(Status(code))
  BY DEF Harmless, Status

\* What is read without waiting is harmless.
LEMMA ReadingIsHarmless ==
    ASSUME NEW route \in Readings, NEW listed \in BOOLEAN
    PROVE  Harmless(Reading(route, listed))
  <1>1. Harmless(Series(listed))
    <2>1. ASSUME NEW m, NEW n, NEW g
          PROVE Harmless([status |-> 200, mode |-> m, source |-> n, groups |-> g])
      BY DEF Harmless
    <2> QED
      BY <2>1, StatusIsHarmless DEF Series
  <1>2. Reading(route, listed) = Series(listed) \/ \E code \in Nat : Reading(route, listed) = Status(code)
    BY DEF Reading, Readings, AssetPart, Index, Pair, Research, Quant
  <1> QED
    BY <1>1, <1>2, StatusIsHarmless

\* The account is shown as it is.
LEMMA AccountIsHarmless == Harmless(Account)
  BY DEF Harmless, Account

\* The data of the data set and of the database show nothing of the account.
LEMMA DataIsHarmless ==
    ASSUME NEW rows
    PROVE  /\ Harmless(SyntheticStatus) /\ Harmless(SyntheticReferenceMetrics)
           /\ Harmless(LiveStatus(rows)) /\ Harmless(LiveReferenceMetrics)
  BY DEF Harmless, SyntheticStatus, SyntheticReferenceMetrics, LiveStatus, LiveReferenceMetrics

\* A harmless answer to a request that has none keeps the invariant.
LEMMA AnswerKeepsApi ==
    ASSUME ApiInv, NEW r \in Requests, waiting[r] # "nothing", NEW a, Harmless(a), Answer(r, a),
           UNCHANGED <<accountVars, environment, tradesCompleted>>
    PROVE  ApiInv'
  <1>1. /\ filled' = filled /\ cash' = cash /\ environment' = environment /\ tradesCompleted' = tradesCompleted
    BY DEF accountVars, marketVars
  <1>2. /\ DOMAIN waiting' = Requests /\ DOMAIN answers' = Requests
        /\ waiting'[r] = "nothing" /\ answers'[r] = a
        /\ \A s \in Requests \ {r} : waiting'[s] = waiting[s] /\ answers'[s] = answers[s]
    BY DEF Answer, ApiInv, Answered
  <1>3. "order" \notin DOMAIN answers[r] /\ "cash" \notin DOMAIN answers[r]
    BY DEF ApiInv, Answered, Unanswered
  <1>4. filled \in Nat
    BY DEF ApiInv
  <1>5. Answered'
    BY <1>1, <1>2 DEF ApiInv, Answered, Harmless, Unanswered
  <1>6. Current' /\ Numbered'
    BY <1>1, <1>2, <1>4 DEF ApiInv, Current, Numbered, Shows, Harmless
  <1>8. AccountIsOne'
    <2>1. (tradesCompleted = filled)'
      BY <1>1 DEF ApiInv, AccountIsOne
    <2>2. \A s \in Requests : \A n \in 1 .. filled : Confirms(s, n)' <=> Confirms(s, n)
      BY <1>2, <1>3 DEF Confirms, Harmless
    <2>3. \A s \in Requests : Shows(s)' =>
              answers'[s].trades = answers'[s].orders /\ answers'[s].orders <= filled
      BY <1>2, <1>4, <2>1, <1>1 DEF ApiInv, AccountIsOne, Shows, Harmless
    <2>4. \A s, t \in Requests :
              Shows(s)' /\ Shows(t)' /\ answers'[s].orders = answers'[t].orders
                => answers'[s].cash = answers'[t].cash
      BY <1>2 DEF ApiInv, AccountIsOne, Current, Shows, Harmless
    <2> QED
      BY <1>1, <2>1, <2>2, <2>3, <2>4 DEF ApiInv, AccountIsOne
  <1> QED
    BY <1>1, <1>4, <1>5, <1>6, <1>8 DEF ApiInv

\* Waiting for a body, or for the database, changes no answer.
LEMMA AwaitKeepsApi ==
    ASSUME ApiInv, NEW r \in Requests, waiting[r] = "request", NEW what, Await(r, what),
           UNCHANGED <<accountVars, environment, tradesCompleted>>
    PROVE  ApiInv'
  <1>1. /\ filled' = filled /\ cash' = cash /\ environment' = environment /\ tradesCompleted' = tradesCompleted
        /\ answers' = answers
    BY DEF accountVars, marketVars, Await
  <1>2. /\ DOMAIN waiting' = Requests /\ waiting'[r] = what
        /\ \A s \in Requests \ {r} : waiting'[s] = waiting[s]
    BY DEF Await, ApiInv, Answered
  <1>3. answers[r] = Unanswered
    BY DEF ApiInv, Answered
  <1>4. Answered'
    BY <1>1, <1>2, <1>3 DEF ApiInv, Answered, Unanswered
  <1>6. Current' /\ Numbered' /\ AccountIsOne'
    BY <1>1 DEF ApiInv, Current, Numbered, AccountIsOne, Confirms, Shows
  <1> QED
    BY <1>1, <1>4, <1>6 DEF ApiInv

\* An order that is filled is counted once, and its answer is about the account after it.
LEMMA FilledKeepsApi ==
    ASSUME ApiInv, NEW r \in Requests, waiting[r] = "order", NEW a, Answer(r, a),
           filled' = filled + 1, tradesCompleted' = tradesCompleted + 1, environment' = environment,
           a = [status |-> 201, order |-> filled', orders |-> filled',
                trades |-> tradesCompleted', cash |-> cash']
    PROVE  ApiInv'
  <1>2. /\ DOMAIN waiting' = Requests /\ DOMAIN answers' = Requests
        /\ waiting'[r] = "nothing" /\ answers'[r] = a
        /\ \A s \in Requests \ {r} : waiting'[s] = waiting[s] /\ answers'[s] = answers[s]
    BY DEF Answer, ApiInv, Answered
  <1>3. filled \in Nat /\ tradesCompleted = filled
    BY DEF ApiInv, AccountIsOne
  <1>4. "order" \notin DOMAIN answers[r] /\ "cash" \notin DOMAIN answers[r]
    BY DEF ApiInv, Answered, Unanswered
  <1>5. /\ "order" \in DOMAIN a /\ "cash" \in DOMAIN a
        /\ a.order = filled + 1 /\ a.orders = filled + 1 /\ a.trades = filled + 1 /\ a.cash = cash'
    BY <1>3
  <1>6. \A s \in Requests \ {r} : \A n : Confirms(s, n)' <=> Confirms(s, n)
    BY <1>2 DEF Confirms
  <1>7. \A n : Confirms(r, n)' <=> n = filled + 1
    BY <1>2, <1>5 DEF Confirms
  <1>8. \A s \in Requests : \A n : Confirms(s, n) => n \in 1 .. filled /\ s # r
    BY <1>4 DEF ApiInv, Answered, Confirms
  <1>9. Answered'
    BY <1>2, <1>3, <1>5 DEF ApiInv, Answered, Unanswered
  <1>10. \A s \in Requests : Shows(s)' =>
             \/ s = r
             \/ s # r /\ Shows(s) /\ answers'[s] = answers[s] /\ answers[s].orders \in 0 .. filled
    BY <1>2 DEF ApiInv, Numbered, Shows
  <1>11. Current' /\ Numbered'
    BY <1>2, <1>3, <1>5, <1>10 DEF Current, Numbered
  <1>13. AccountIsOne'
    <2>1. \A n \in 1 .. filled + 1 : \E s \in Requests : Confirms(s, n)'
      <3>1. \A n \in 1 .. filled : \E s \in Requests \ {r} : Confirms(s, n)
        BY <1>8 DEF ApiInv, AccountIsOne
      <3> QED
        BY <1>3, <1>6, <1>7, <3>1
    <2>2. ASSUME NEW s \in Requests, NEW t \in Requests, NEW n \in 1 .. filled + 1,
                 Confirms(s, n)', Confirms(t, n)'
          PROVE  s = t
      <3>1. CASE n = filled + 1
        <4>1. n \notin 1 .. filled
          BY <1>3, <3>1
        <4> QED
          BY <1>6, <1>8, <2>2, <4>1
      <3>2. CASE n # filled + 1
        <4>1. n \in 1 .. filled
          BY <1>3, <3>2
        <4> QED
          BY <1>6, <1>7, <2>2, <3>2, <4>1 DEF ApiInv, AccountIsOne
      <3> QED
        BY <3>1, <3>2
    <2>3. \A s \in Requests : Shows(s)' =>
              answers'[s].trades = answers'[s].orders /\ answers'[s].orders <= filled + 1
      BY <1>2, <1>3, <1>5, <1>10 DEF ApiInv, AccountIsOne
    <2>4. \A s, t \in Requests :
              Shows(s)' /\ Shows(t)' /\ answers'[s].orders = answers'[t].orders
                => answers'[s].cash = answers'[t].cash
      BY <1>2, <1>3, <1>5, <1>10 DEF ApiInv, AccountIsOne
    <2> QED
      BY <1>3, <2>1, <2>2, <2>3, <2>4 DEF AccountIsOne
  <1> QED
    BY <1>3, <1>9, <1>11, <1>13 DEF ApiInv

\* A handler that answers at once answers harmlessly.
LEMMA ReadKeepsApi ==
    ASSUME ApiInv, NEW r \in Requests, Read(r)
    PROVE  ApiInv'
  <1>1. waiting[r] # "nothing" /\ UNCHANGED <<accountVars, environment, tradesCompleted>>
    BY DEF Read
  <1>2. \E a : Answer(r, a) /\ Harmless(a)
    BY StatusIsHarmless, ReadingIsHarmless, AccountIsHarmless, DataIsHarmless DEF Read
  <1> QED
    BY <1>1, <1>2, AnswerKeepsApi

\* An order is refused, and leaves nothing, or is filled and counted.
LEMMA OrderKeepsApi ==
    ASSUME ApiInv, NEW r \in Requests, NEW body \in OrderBodies, Order(r, body)
    PROVE  ApiInv'
  <1>1. waiting[r] = "order" /\ environment' = environment
    BY DEF Order
  <1>2. CASE Refused(body)
    BY <1>1, <1>2, StatusIsHarmless, AnswerKeepsApi DEF Order
  <1>3. CASE ~Refused(body)
    <2>1. filled' = filled + 1
      BY <1>3 DEF Order, SubmitOrder
    <2> QED
      BY <1>1, <1>3, <2>1, FilledKeepsApi DEF Order
  <1> QED
    BY <1>2, <1>3

\* What the database said, or the data set instead, shows nothing of the account.
LEMMA QueriedKeepsApi ==
    ASSUME ApiInv, NEW r \in Requests, NEW rows \in 0 .. 1, Queried(r, rows)
    PROVE  ApiInv'
  <1>1. waiting[r] \in {"source", "metrics"} /\ UNCHANGED <<accountVars, environment, tradesCompleted>>
    BY DEF Queried
  <1>2. \E a : Answer(r, a) /\ Harmless(a)
    BY DataIsHarmless DEF Queried
  <1> QED
    BY <1>1, <1>2, AnswerKeepsApi

\* Each request is handled by one of the handlers.
LEMMA StepKeepsApi == ApiInv /\ [ApiNext]_<<accountVars, apiVars>> => ApiInv'
  <1> SUFFICES ASSUME ApiInv, [ApiNext]_<<accountVars, apiVars>> PROVE ApiInv'
    OBVIOUS
  <1>1. ASSUME NEW r \in Requests, Begin(r) PROVE ApiInv'
    <2>1. PICK what \in {"order", "login"} \cup (IF LivePool THEN {"source", "metrics"} ELSE {}) : Await(r, what)
      BY <1>1 DEF Begin
    <2> QED
      BY <1>1, <2>1, AwaitKeepsApi DEF Begin
  <1>2. ASSUME NEW r \in Requests, BodyFails(r) \/ BodyRefused(r) \/ QueryFails(r) PROVE ApiInv'
    BY <1>2, StatusIsHarmless, AnswerKeepsApi DEF BodyFails, BodyRefused, QueryFails
  <1>3. ASSUME NEW r \in Requests, Login(r) PROVE ApiInv'
    BY <1>3, AccountIsHarmless, AnswerKeepsApi DEF Login
  <1>4. ASSUME UNCHANGED <<accountVars, apiVars>> PROVE ApiInv'
    <2>1. /\ filled' = filled /\ cash' = cash /\ environment' = environment
          /\ tradesCompleted' = tradesCompleted /\ waiting' = waiting /\ answers' = answers
      BY <1>4 DEF accountVars, marketVars, apiVars
    <2> QED
      BY <2>1 DEF ApiInv, Answered, Current, Numbered, AccountIsOne, Confirms, Shows
  <1> QED
    BY <1>1, <1>2, <1>3, <1>4, ReadKeepsApi, OrderKeepsApi, QueriedKeepsApi DEF ApiNext

\* No request has an answer when the process has started.
LEMMA ApiInvInit == ServerAssumption /\ ApiInit => ApiInv
  <1> SUFFICES ASSUME ServerAssumption, ApiInit PROVE ApiInv
    OBVIOUS
  <1>1. filled = 0 /\ tradesCompleted = 0 /\ environment # NoServer
    BY DEF ApiInit, MarketInit, ApiStart, ServerAssumption
  <1>2. /\ DOMAIN waiting = Requests /\ DOMAIN answers = Requests
        /\ \A r \in Requests : waiting[r] = "request" /\ answers[r] = Unanswered
    BY DEF ApiInit, ApiStart
  <1>3. \A r \in Requests : ~Shows(r) /\ "order" \notin DOMAIN answers[r]
    BY <1>2 DEF Shows, Unanswered
  <1> QED
    BY <1>1, <1>2, <1>3 DEF ApiInv, Answered, Current, Numbered, AccountIsOne

\* Each order of the API's account is confirmed to one request, and all that shows the
\* account agrees, however the requests wait and whatever their bodies and the database answer.
THEOREM AccountStaysOne == ApiSpec => []AccountIsOne
  <1>1. ApiInit => ApiInv
    BY ApiInvInit, ServerAssumption
  <1>2. ApiInv /\ [ApiNext]_<<accountVars, apiVars>> => ApiInv'
    BY StepKeepsApi
  <1>3. ApiInv => AccountIsOne
    BY DEF ApiInv
  <1> QED
    BY <1>1, <1>2, <1>3, PTL DEF ApiSpec
=============================================================================
