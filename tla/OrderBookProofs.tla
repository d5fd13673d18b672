-------------------------- MODULE OrderBookProofs --------------------------
(***************************************************************************)
(* For every number of orders, agents, prices and quantities: the order    *)
(* book keeps its types, its order and its locators, is never crossed,     *)
(* fills the fill_or_kill orders it accepts, implements the price-time     *)
(* exchange, called in time order writes a tape that adds up to it, and    *)
(* shows one and the same book in every view and snapshot of it.           *)
(***************************************************************************)
EXTENDS OrderBookRefinement, OrderBookViews, SumProofs, SequenceTheorems

Lists == Seq(RestingOrder)

-----------------------------------------------------------------------------
(* Every non-empty side of the book has a best price.                      *)

(* A non-empty set of prices has a greatest element.                       *)
LEMMA GreatestPrice ==
    ASSUME NEW T \in SUBSET Prices, T # {}
    PROVE  \E m \in T : \A n \in T : m >= n
<1> DEFINE D == {MaxPrice - p : p \in T}
<1>1. D \in SUBSET Nat /\ D # {}
  <2>1. \A p \in T : MaxPrice - p \in Nat
    BY BoundsAssumption DEF Prices
  <2>2. D \in SUBSET Nat
    BY <2>1
  <2>3. D # {}
    OBVIOUS
  <2> QED BY <2>2, <2>3
<1>2. PICK d \in D : \A e \in D : d <= e
  <2> HIDE DEF D
  <2> QED BY <1>1, LeastElement
<1>3. PICK m \in T : d = MaxPrice - m
  BY <1>2
<1>4. ASSUME NEW n \in T PROVE m >= n
  <2>1. MaxPrice - n \in D
    OBVIOUS
  <2>2. d <= MaxPrice - n
    BY <1>2, <2>1
  <2> QED BY <1>3, <2>2, BoundsAssumption DEF Prices
<1>5. QED
  BY <1>3, <1>4

(* If anything rests on a side, one price there is best, and no worse than any other. *)
LEMMA BestExists ==
    ASSUME NEW side \in Side, NEW p \in Prices, levels[side][p] # <<>>
    PROVE  \E b \in Prices : IsBest(side, b) /\ (b = p \/ Better(side, b, p))
<1> DEFINE T == {q \in Prices : levels[side][q] # <<>>}
<1>1. p \in T /\ T \in SUBSET Prices /\ T \in SUBSET Nat
  BY BoundsAssumption DEF Prices
<1>2. CASE side = "buy"
  <2>1. PICK b \in T : \A n \in T : b >= n
    <3> HIDE DEF T
    <3> QED BY <1>1, GreatestPrice
  <2>2. \A n \in T : n = b \/ b > n
    BY <2>1, <1>1
  <2> QED BY <1>1, <1>2, <2>2 DEF IsBest, Better
<1>3. CASE side = "sell"
  <2>1. PICK b \in T : \A n \in T : b <= n
    <3> HIDE DEF T
    <3> QED BY <1>1, LeastElement
  <2>2. \A n \in T : n = b \/ b < n
    BY <2>1, <1>1
  <2> QED BY <1>1, <1>3, <2>2 DEF IsBest, Better
<1>4. QED
  BY <1>2, <1>3 DEF Side

-----------------------------------------------------------------------------
(* What the operations do to one list and to the levels.                   *)

LEMMA TailOfList ==
    ASSUME NEW q \in Lists, q # <<>>
    PROVE  /\ Tail(q) \in Lists
           /\ Head(q) = q[1] /\ Head(q) \in RestingOrder
           /\ 1 \in 1 .. Len(q)
           /\ Len(Tail(q)) = Len(q) - 1
           /\ \A k \in 1 .. Len(Tail(q)) : Tail(q)[k] = q[k + 1]
BY HeadTailProperties, EmptySeq DEF Lists

LEMMA RemovalFromList ==
    ASSUME NEW q \in Lists, NEW i \in 1 .. Len(q)
    PROVE  /\ RemoveAt(q, i) \in Lists
           /\ q # <<>>
           /\ Len(RemoveAt(q, i)) = Len(q) - 1
           /\ \A k \in 1 .. Len(q) - 1 : RemoveAt(q, i)[k] = IF k < i THEN q[k] ELSE q[k + 1]
<1> DEFINE front == SubSeq(q, 1, i - 1)
           back == SubSeq(q, i + 1, Len(q))
<1>1. \A k \in 1 .. Len(q) : q[k] \in RestingOrder
  BY ElementOfSeq DEF Lists
<1>2. /\ front \in Lists /\ Len(front) = i - 1
      /\ \A k \in 1 .. i - 1 : front[k] = q[k]
  <2>1. \A k \in 1 .. i - 1 : q[k] \in RestingOrder
    BY <1>1 DEF Lists
  <2>2. i - 1 \in Int /\ 1 \in Int
    OBVIOUS
  <2>3. /\ front \in Seq(RestingOrder)
        /\ Len(front) = IF 1 <= i - 1 THEN i - 1 - 1 + 1 ELSE 0
        /\ \A k \in 1 .. i - 1 - 1 + 1 : front[k] = q[1 + k - 1]
    BY <2>1, <2>2, SubSeqProperties
  <2> QED BY <2>3 DEF Lists
<1>3. /\ back \in Lists /\ Len(back) = Len(q) - i
      /\ \A k \in 1 .. Len(q) - i : back[k] = q[k + i]
  <2>1. Len(q) \in Nat /\ i + 1 \in Int
    BY LenProperties DEF Lists
  <2>2. \A k \in i + 1 .. Len(q) : q[k] \in RestingOrder
    BY <1>1, <2>1
  <2>3. /\ back \in Seq(RestingOrder)
        /\ Len(back) = IF i + 1 <= Len(q) THEN Len(q) - (i + 1) + 1 ELSE 0
        /\ \A k \in 1 .. Len(q) - (i + 1) + 1 : back[k] = q[i + 1 + k - 1]
    BY <2>1, <2>2, SubSeqProperties
  <2> QED BY <2>1, <2>3 DEF Lists
<1>4. RemoveAt(q, i) = front \o back
  BY DEF RemoveAt
<1>5. /\ front \o back \in Lists
      /\ Len(front \o back) = Len(front) + Len(back)
      /\ \A k \in 1 .. Len(front) + Len(back) :
            (front \o back)[k] = IF k <= Len(front) THEN front[k] ELSE back[k - Len(front)]
  <2> HIDE DEF front, back
  <2> QED BY <1>2, <1>3, ConcatProperties DEF Lists
<1>6. Len(q) \in Nat /\ q # <<>>
  BY LenProperties, EmptySeq DEF Lists
<1>7. Len(front \o back) = Len(q) - 1
  <2> HIDE DEF front, back
  <2> QED BY <1>2, <1>3, <1>5, <1>6
<1>8. ASSUME NEW k \in 1 .. Len(q) - 1
      PROVE  (front \o back)[k] = IF k < i THEN q[k] ELSE q[k + 1]
  <2> HIDE DEF front, back
  <2>1. k \in 1 .. Len(front) + Len(back) /\ Len(front) = i - 1
    BY <1>2, <1>3, <1>6
  <2>2. CASE k < i
    <3>1. (front \o back)[k] = front[k]
      BY <1>5, <2>1, <2>2, <1>6
    <3> QED BY <3>1, <1>2, <2>2, <1>6
  <2>3. CASE ~(k < i)
    <3>1. (front \o back)[k] = back[k - (i - 1)]
      BY <1>5, <2>1, <2>3, <1>6
    <3>2. k - (i - 1) \in 1 .. Len(q) - i /\ k - (i - 1) + i = k + 1
      BY <2>3, <1>6
    <3> QED BY <3>1, <3>2, <1>3, <2>3
  <2> QED BY <2>2, <2>3
<1>9. QED
  BY <1>4, <1>5, <1>6, <1>7, <1>8

LEMMA QuantityInList ==
    ASSUME NEW q \in Lists, NEW i \in 1 .. Len(q), NEW n \in 1 .. MaxQuantity
    PROVE  /\ [q EXCEPT ![i].qty = n] \in Lists
           /\ q # <<>>
           /\ Len([q EXCEPT ![i].qty = n]) = Len(q)
           /\ \A k \in 1 .. Len(q) : /\ [q EXCEPT ![i].qty = n][k].id = q[k].id
                                      /\ [q EXCEPT ![i].qty = n][k].seq = q[k].seq
<1>1. q[i] \in RestingOrder
  BY ElementOfSeq DEF Lists
<1>2. [q[i] EXCEPT !.qty = n] \in RestingOrder
  BY <1>1 DEF RestingOrder
<1>3. [q EXCEPT ![i].qty = n] = [q EXCEPT ![i] = [q[i] EXCEPT !.qty = n]]
  BY LenProperties DEF Lists
<1>4. \A k \in 1 .. Len(q) : q[k] \in RestingOrder
  BY ElementOfSeq DEF Lists
<1>5. q # <<>>
  BY EmptySeq DEF Lists
<1>6. QED
  BY <1>1, <1>2, <1>3, <1>4, <1>5, ExceptSeq DEF Lists, RestingOrder

LEMMA OneLevelChanges ==
    ASSUME NEW L \in [Side -> [Prices -> Lists]],
           NEW s \in Side, NEW p \in Prices, NEW q \in Lists
    PROVE  /\ [L EXCEPT ![s][p] = q] \in [Side -> [Prices -> Lists]]
           /\ \A t \in Side, r \in Prices :
                 [L EXCEPT ![s][p] = q][t][r] = IF t = s /\ r = p THEN q ELSE L[t][r]
OBVIOUS

-----------------------------------------------------------------------------
(* The invariant.                                                          *)

(***************************************************************************)
(* A limit order in flight has passed the price check, so it can rest, and *)
(* its id is not in the book.                                              *)
(***************************************************************************)
TakerInv ==
    ~Idle => /\ taker.req.type = "limit" => taker.req.price \in Prices
             /\ ~Active(taker.req.id)

(***************************************************************************)
(* What every step leaves true.  NotCrossed needs TakerInv: only Rest adds *)
(* an order to the book, at the limit price of the taker.                  *)
(***************************************************************************)
IInv == TypeOK /\ TakerInv /\ NotCrossed

LEMMA TypedLevels ==
    ASSUME TypeOK
    PROVE  /\ levels \in [Side -> [Prices -> Lists]]
           /\ \A s \in Side, p \in Prices :
                  /\ levels[s][p] \in Lists
                  /\ \A i \in 1 .. Len(levels[s][p]) : levels[s][p][i] \in RestingOrder
BY ElementOfSeq DEF TypeOK, Lists

(* A step that only thins the lists cannot cross the book.                 *)
LEMMA ThinningKeepsNotCrossed ==
    ASSUME NotCrossed,
           \A s \in Side, p \in Prices : levels'[s][p] # <<>> => levels[s][p] # <<>>
    PROVE  NotCrossed'
BY DEF NotCrossed, Side

(* The part of TypeOK that emit() changes.                                 *)
LEMMA EmitTyped ==
    ASSUME TypeOK, NEW n \in Nat, NEW t \in Times \cup {0}, NEW newTape \in [OrderIds -> Int],
           Emit(n, t, newTape)
    PROVE  sequence' \in Nat /\ lastTime' \in Times \cup {0} /\ tape' \in [OrderIds -> Int]
BY DEF Emit, TypeOK

LEMMA CancelledTyped ==
    ASSUME NEW aTape \in [OrderIds -> Int], NEW id \in OrderIds, NEW qty \in Int
    PROVE  Cancelled(aTape, id, qty) \in [OrderIds -> Int]
BY DEF Cancelled

LEMMA InitInv == Init => IInv
<1> SUFFICES ASSUME Init PROVE IInv
  OBVIOUS
<1>1. <<>> \in Seq(RestingOrder)
  BY EmptySeq
<1>2. TypeOK
  BY <1>1, ConfigAssumption DEF Init, TypeOK
<1>3. TakerInv /\ NotCrossed
  BY DEF Init, TakerInv, NotCrossed, Idle, Side
<1>4. QED
  BY <1>2, <1>3 DEF IInv

(* submit(): the checks.                                                   *)
LEMMA SubmitInv ==
    ASSUME IInv, NEW req \in Request, NEW t \in Times, Reject(req, t) \/ Accept(req, t)
    PROVE  IInv'
<1>1. CASE Reject(req, t)
  <2>1. sequence' \in Nat /\ lastTime' \in Times \cup {0} /\ tape' \in [OrderIds -> Int]
    BY <1>1, EmitTyped DEF Reject, IInv, TypeOK
  <2>2. TypeOK'
    BY <1>1, <2>1 DEF IInv, TypeOK, Reject, bookVars
  <2> QED BY <1>1, <2>2 DEF IInv, Reject, bookVars, TakerInv, NotCrossed, Idle, Active
<1>2. CASE Accept(req, t)
  <2>1. req.id \in OrderIds /\ req.qty \in 0 .. MaxQuantity /\ req.price \in 0 .. MaxPrice
    BY DEF Request
  <2>2. [tape EXCEPT ![req.id] = req.qty] \in [OrderIds -> Int]
    BY <2>1, BoundsAssumption DEF IInv, TypeOK
  <2>3. sequence' \in Nat /\ lastTime' \in Times \cup {0} /\ tape' \in [OrderIds -> Int]
    BY <1>2, <2>2, EmitTyped DEF Accept, IInv
  <2>4. taker' \in Taker
    BY <1>2, <2>1 DEF Accept, Taker
  <2>5. TypeOK'
    BY <1>2, <2>3, <2>4 DEF IInv, TypeOK, Accept, bookVars
  <2>6. taker'.req = req /\ ~Active(req.id)' /\ (req.type = "limit" => req.price > 0)
    BY <1>2 DEF Accept, Admissible, ValidPrice, Active, bookVars
  <2>7. TakerInv'
    BY <2>1, <2>6, BoundsAssumption DEF TakerInv, Prices, Active
  <2>8. NotCrossed'
    BY <1>2 DEF IInv, Accept, bookVars, NotCrossed
  <2> QED BY <2>5, <2>7, <2>8 DEF IInv
<1>3. QED
  BY <1>1, <1>2

-----------------------------------------------------------------------------
(* The matching loop.                                                      *)

(* Taking the front order off a level thins the lists and the locators.    *)
LEMMA RemoveFrontThins ==
    ASSUME TypeOK, NEW side \in Side, NEW price \in Prices,
           levels[side][price] # <<>>, RemoveFront(side, price)
    PROVE  /\ levels' \in [Side -> [Prices -> Lists]]
           /\ locators' \in [OrderIds -> Locator \cup {NoLocator}]
           /\ \A s \in Side, p \in Prices : levels'[s][p] # <<>> => levels[s][p] # <<>>
           /\ \A id \in OrderIds : Active(id)' => Active(id)
<1> DEFINE q == levels[side][price]
<1>1. q \in Lists /\ levels \in [Side -> [Prices -> Lists]]
  BY TypedLevels
<1>2. Tail(q) \in Lists
  BY <1>1, TailOfList
<1>3. levels' = [levels EXCEPT ![side][price] = Tail(q)]
  BY DEF RemoveFront
<1>4. /\ levels' \in [Side -> [Prices -> Lists]]
      /\ \A s \in Side, p \in Prices :
            levels'[s][p] = IF s = side /\ p = price THEN Tail(q) ELSE levels[s][p]
  <2> HIDE DEF q
  <2> QED BY <1>1, <1>2, <1>3, OneLevelChanges
<1>5. \A s \in Side, p \in Prices : levels'[s][p] # <<>> => levels[s][p] # <<>>
  BY <1>4
<1>6. /\ locators' \in [OrderIds -> Locator \cup {NoLocator}]
      /\ \A id \in OrderIds : Active(id)' => Active(id)
  BY DEF RemoveFront, TypeOK, Active
<1>7. QED
  BY <1>4, <1>5, <1>6

(* What holds of the taker and of the level its next maker heads.          *)
LEMMA MatchingFacts ==
    ASSUME TypeOK, NEW price \in Prices, Matching(price)
    PROVE  /\ taker \in Taker
           /\ taker.req \in Request
           /\ taker.req.id \in OrderIds
           /\ Opposite(taker.req.side) \in Side
           /\ levels[Opposite(taker.req.side)][price] # <<>>
           /\ Head(levels[Opposite(taker.req.side)][price]) \in RestingOrder
           /\ taker.remaining \in 1 .. MaxQuantity
<1>1. taker \in Taker
  BY DEF Matching, Idle, TypeOK
<1>2. taker.req \in Request /\ taker.remaining \in 1 .. MaxQuantity
  BY <1>1, BoundsAssumption DEF Matching, Taker
<1>3. taker.req.id \in OrderIds /\ Opposite(taker.req.side) \in Side
  BY <1>2 DEF Request, Opposite, Side
<1>4. levels[Opposite(taker.req.side)][price] # <<>>
  BY DEF Matching, IsBest
<1>5. Head(levels[Opposite(taker.req.side)][price]) \in RestingOrder
  BY <1>3, <1>4, TypedLevels, TailOfList
<1>6. QED
  BY <1>1, <1>2, <1>3, <1>4, <1>5

(* Any step of the loop that leaves the same taker, thins the lists and    *)
(* forgets locators keeps TakerInv and NotCrossed.                         *)
LEMMA LoopStepKeeps ==
    ASSUME IInv, ~Idle, taker \in Taker, taker'.req = taker.req,
           \A s \in Side, p \in Prices : levels'[s][p] # <<>> => levels[s][p] # <<>>,
           \A id \in OrderIds : Active(id)' => Active(id)
    PROVE  TakerInv' /\ NotCrossed'
<1>1. NotCrossed'
  BY ThinningKeepsNotCrossed DEF IInv
<1>2. taker.req.id \in OrderIds
  BY DEF Taker, Request
<1>3. TakerInv'
  <2>1. taker.req.type = "limit" => taker.req.price \in Prices
    BY DEF IInv, TakerInv
  <2>2. ~Active(taker.req.id)'
    BY <1>2 DEF IInv, TakerInv
  <2>3. ~(Active(taker.req.id)') => ~(locators'[taker'.req.id] # NoLocator)
    BY DEF Active
  <2>4. (taker.req.type = "limit" => taker.req.price \in Prices)
        => (taker'.req.type = "limit" => taker'.req.price \in Prices')
    BY DEF Prices
  <2> QED BY <2>1, <2>2, <2>3, <2>4 DEF TakerInv, Active
<1>4. QED
  BY <1>1, <1>3

LEMMA FillInv ==
    ASSUME IInv, NEW price \in Prices, Fill(price)
    PROVE  IInv'
<1> DEFINE side == Opposite(taker.req.side)
           q == levels[side][price]
           maker == Head(q)
           matched == IF taker.remaining <= maker.qty THEN taker.remaining ELSE maker.qty
<1>1. TypeOK /\ Matching(price)
  BY DEF IInv, Fill
<1>2. /\ taker \in Taker /\ taker.req.id \in OrderIds /\ side \in Side /\ q # <<>>
      /\ maker \in RestingOrder /\ taker.remaining \in 1 .. MaxQuantity
  BY <1>1, MatchingFacts
<1>3. /\ maker.id \in OrderIds /\ maker.qty \in 1 .. MaxQuantity
      /\ matched \in 1 .. MaxQuantity /\ matched <= maker.qty
      /\ taker.remaining - matched \in 0 .. MaxQuantity
  <2>1. maker.id \in OrderIds /\ maker.qty \in 1 .. MaxQuantity
    BY <1>2 DEF RestingOrder
  <2> HIDE DEF maker
  <2> QED BY <1>2, <2>1, BoundsAssumption
<1>4. /\ IF matched = maker.qty
         THEN RemoveFront(side, price)
         ELSE /\ levels' = [levels EXCEPT ![side][price][1].qty = @ - matched]
              /\ UNCHANGED locators
      /\ taker' = [taker EXCEPT !.remaining = @ - matched]
      /\ Emit(1, lastTime, [tape EXCEPT ![maker.id] = @ - matched,
                                        ![taker.req.id] = @ - matched])
      /\ UNCHANGED <<stpMode, state>>
  BY DEF Fill
<1> HIDE DEF matched, maker
<1>5. /\ levels' \in [Side -> [Prices -> Lists]]
      /\ locators' \in [OrderIds -> Locator \cup {NoLocator}]
      /\ \A s \in Side, p \in Prices : levels'[s][p] # <<>> => levels[s][p] # <<>>
      /\ \A id \in OrderIds : Active(id)' => Active(id)
  <2>1. CASE matched = maker.qty
    <3>1. RemoveFront(side, price)
      BY <1>4, <2>1
    <3> QED BY <1>1, <1>2, <3>1, RemoveFrontThins
  <2>2. CASE matched # maker.qty
    <3>1. q \in Lists /\ levels \in [Side -> [Prices -> Lists]] /\ 1 \in 1 .. Len(q) /\ maker = q[1]
      BY <1>1, <1>2, TypedLevels, TailOfList DEF maker
    <3>2. maker.qty - matched \in 1 .. MaxQuantity
      BY <1>3, <2>2, BoundsAssumption
    <3>3. levels' = [levels EXCEPT ![side][price] = [q EXCEPT ![1].qty = maker.qty - matched]]
      BY <1>4, <2>2, <3>1
    <3>4. [q EXCEPT ![1].qty = maker.qty - matched] \in Lists
      <4> HIDE DEF q
      <4> QED BY <3>1, <3>2, QuantityInList
    <3>5. /\ levels' \in [Side -> [Prices -> Lists]]
          /\ \A s \in Side, p \in Prices :
                levels'[s][p] = IF s = side /\ p = price
                                THEN [q EXCEPT ![1].qty = maker.qty - matched]
                                ELSE levels[s][p]
      <4> DEFINE list == [q EXCEPT ![1].qty = maker.qty - matched]
                 after == [levels EXCEPT ![side][price] = list]
      <4>1. list \in Lists /\ levels' = after
        BY <3>3, <3>4
      <4> HIDE DEF list, side
      <4>2. /\ after \in [Side -> [Prices -> Lists]]
            /\ \A s \in Side, p \in Prices : after[s][p] = IF s = side /\ p = price THEN list ELSE levels[s][p]
        BY <1>2, <3>1, <4>1, OneLevelChanges
      <4> HIDE DEF after
      <4> QED BY <4>1, <4>2 DEF list
    <3>6. locators' = locators
      BY <1>4, <2>2
    <3> QED BY <1>1, <1>2, <3>5, <3>6 DEF TypeOK, Active
  <2> QED BY <2>1, <2>2
<1>6. taker' \in Taker /\ taker'.req = taker.req
  BY <1>2, <1>3, <1>4 DEF Taker
<1>7. sequence' \in Nat /\ lastTime' \in Times \cup {0} /\ tape' \in [OrderIds -> Int]
  <2>1. [tape EXCEPT ![maker.id] = @ - matched, ![taker.req.id] = @ - matched] \in [OrderIds -> Int]
    BY <1>1, <1>2, <1>3, BoundsAssumption DEF TypeOK
  <2>2. lastTime \in Times \cup {0} /\ 1 \in Nat
    BY <1>1 DEF TypeOK
  <2> HIDE DEF side
  <2> QED BY <1>1, <1>4, <2>1, <2>2, EmitTyped
<1>8. TypeOK'
  BY <1>1, <1>4, <1>5, <1>6, <1>7 DEF TypeOK, Lists
<1>9. TakerInv' /\ NotCrossed'
  BY <1>1, <1>2, <1>5, <1>6, LoopStepKeeps DEF Matching
<1>10. QED
  BY <1>8, <1>9 DEF IInv

LEMMA StopNewestInv ==
    ASSUME IInv, NEW price \in Prices, StopNewest(price)
    PROVE  IInv'
<1>1. TypeOK /\ Matching(price)
  BY DEF IInv, StopNewest
<1>2. taker \in Taker /\ taker.req.id \in OrderIds /\ taker.remaining \in 1 .. MaxQuantity
  BY <1>1, MatchingFacts
<1>3. /\ taker' = [taker EXCEPT !.stopped = TRUE]
      /\ Emit(1, lastTime, Cancelled(tape, taker.req.id, taker.remaining))
      /\ UNCHANGED <<stpMode, state, levels, locators>>
  BY DEF StopNewest, bookVars
<1>4. taker' \in Taker /\ taker'.req = taker.req
  BY <1>2, <1>3 DEF Taker
<1>5. sequence' \in Nat /\ lastTime' \in Times \cup {0} /\ tape' \in [OrderIds -> Int]
  <2>1. Cancelled(tape, taker.req.id, taker.remaining) \in [OrderIds -> Int]
    <3>1. tape \in [OrderIds -> Int] /\ taker.remaining \in Int
      BY <1>1, <1>2, BoundsAssumption DEF TypeOK, Taker
    <3> QED BY <1>2, <3>1, CancelledTyped
  <2>2. lastTime \in Times \cup {0} /\ 1 \in Nat
    BY <1>1 DEF TypeOK
  <2> QED BY <1>1, <1>3, <2>1, <2>2, EmitTyped
<1>6. TypeOK'
  BY <1>1, <1>3, <1>4, <1>5 DEF TypeOK
<1>7. TakerInv' /\ NotCrossed'
  <2>1. \A s \in Side, p \in Prices : levels'[s][p] # <<>> => levels[s][p] # <<>>
    BY <1>3
  <2>2. \A id \in OrderIds : Active(id)' => Active(id)
    BY <1>3 DEF Active
  <2> QED BY <1>1, <1>2, <1>4, <2>1, <2>2, LoopStepKeeps DEF Matching
<1>8. QED
  BY <1>6, <1>7 DEF IInv

LEMMA CancelOldestInv ==
    ASSUME IInv, NEW price \in Prices, CancelOldest(price)
    PROVE  IInv'
<1> DEFINE side == Opposite(taker.req.side)
           maker == Head(levels[side][price])
<1>1. TypeOK /\ Matching(price)
  BY DEF IInv, CancelOldest
<1>2. /\ taker \in Taker /\ side \in Side /\ levels[side][price] # <<>>
      /\ maker.id \in OrderIds
  BY <1>1, MatchingFacts DEF RestingOrder
<1>3. /\ RemoveFront(side, price)
      /\ taker' = [taker EXCEPT !.stopped = (stpMode = "cancel_both")]
      /\ Emit(1, lastTime, Cancelled(tape, maker.id, 0))
      /\ UNCHANGED <<stpMode, state>>
  BY DEF CancelOldest
<1> HIDE DEF maker
<1>4. /\ levels' \in [Side -> [Prices -> Lists]]
      /\ locators' \in [OrderIds -> Locator \cup {NoLocator}]
      /\ \A s \in Side, p \in Prices : levels'[s][p] # <<>> => levels[s][p] # <<>>
      /\ \A id \in OrderIds : Active(id)' => Active(id)
  BY <1>1, <1>2, <1>3, RemoveFrontThins
<1>5. taker' \in Taker /\ taker'.req = taker.req
  BY <1>2, <1>3 DEF Taker
<1>6. sequence' \in Nat /\ lastTime' \in Times \cup {0} /\ tape' \in [OrderIds -> Int]
  <2>1. Cancelled(tape, maker.id, 0) \in [OrderIds -> Int]
    <3>1. tape \in [OrderIds -> Int] /\ 0 \in Int
      BY <1>1 DEF TypeOK
    <3> QED BY <1>2, <3>1, CancelledTyped
  <2>2. lastTime \in Times \cup {0} /\ 1 \in Nat
    BY <1>1 DEF TypeOK
  <2> QED BY <1>1, <1>3, <2>1, <2>2, EmitTyped
<1>7. TypeOK'
  BY <1>1, <1>3, <1>4, <1>5, <1>6 DEF TypeOK, Lists
<1>8. TakerInv' /\ NotCrossed'
  BY <1>1, <1>2, <1>4, <1>5, LoopStepKeeps DEF Matching
<1>9. QED
  BY <1>7, <1>8 DEF IInv

(* The end of the loop: only the taker and the tape change.                *)
LEMMA LoopEndInv ==
    ASSUME IInv, CancelRemainder \/ Complete
    PROVE  IInv'
<1>1. TypeOK /\ ~Idle /\ taker \in Taker
  BY DEF IInv, TypeOK, CancelRemainder, Complete, Matched, Idle
<1>2. taker.req.id \in OrderIds /\ taker.remaining \in Int
  BY <1>1, BoundsAssumption DEF Taker, Request
<1>3. /\ taker' = NoTaker
      /\ UNCHANGED <<stpMode, state, levels, locators>>
  BY DEF CancelRemainder, Complete, bookVars
<1>4. sequence' \in Nat /\ lastTime' \in Times \cup {0} /\ tape' \in [OrderIds -> Int]
  <2>1. Cancelled(tape, taker.req.id, taker.remaining) \in [OrderIds -> Int]
    BY <1>1, <1>2, CancelledTyped DEF TypeOK
  <2>2. /\ lastTime \in Times \cup {0} /\ tape \in [OrderIds -> Int]
        /\ Closing \in Nat /\ 1 + Closing \in Nat
    BY <1>1 DEF TypeOK, Closing
  <2>3. \/ Emit(1 + Closing, lastTime, Cancelled(tape, taker.req.id, taker.remaining))
        \/ Emit(Closing, lastTime, tape)
    BY DEF CancelRemainder, Complete
  <2> QED BY <1>1, <2>1, <2>2, <2>3, EmitTyped
<1>5. TypeOK'
  BY <1>1, <1>3, <1>4 DEF TypeOK
<1>6. TakerInv' /\ NotCrossed'
  BY <1>3 DEF IInv, TakerInv, Idle, NotCrossed
<1>7. QED
  BY <1>5, <1>6 DEF IInv

(***************************************************************************)
(* When the loop ends with something left and no self-trade stop, no order *)
(* of the other side rests at a price the taker accepts: the best one does *)
(* not, and every other is worse.                                          *)
(***************************************************************************)
LEMMA NothingAcceptable ==
    ASSUME NEW req \in Request, ~Marketable(req),
           NEW p \in Prices, levels[Opposite(req.side)][p] # <<>>
    PROVE  ~Accepts(req, p)
<1>1. Opposite(req.side) \in Side /\ req.side \in Side /\ req.price \in Nat
  BY BoundsAssumption DEF Request, Opposite, Side
<1>2. PICK b \in Prices : /\ IsBest(Opposite(req.side), b)
                          /\ b = p \/ Better(Opposite(req.side), b, p)
  BY <1>1, BestExists
<1>3. ~Accepts(req, b)
  BY <1>2 DEF Marketable
<1>4. p \in Nat /\ b \in Nat
  BY BoundsAssumption DEF Prices
<1>5. QED
  BY <1>1, <1>2, <1>3, <1>4 DEF Accepts, Better, Opposite, Side

LEMMA RestInv ==
    ASSUME IInv, Rest
    PROVE  IInv'
<1> DEFINE req == taker.req
           order == [id |-> req.id, agent |-> req.agent, qty |-> taker.remaining, seq |-> sequence]
           longer == Enqueue(levels[req.side][req.price], order)
<1>1. /\ TypeOK /\ ~Idle /\ taker \in Taker /\ taker.remaining > 0
      /\ ~taker.stopped /\ ~Marketable(req) /\ req.type = "limit"
  BY DEF IInv, TypeOK, Rest, Restable, Matched, Idle, Taker
<1>2. /\ req \in Request /\ req.id \in OrderIds /\ req.agent \in Agents /\ req.side \in Side
      /\ taker.remaining \in 1 .. MaxQuantity /\ req.price \in Prices
  <2>1. req \in Request /\ taker.remaining \in 1 .. MaxQuantity
    BY <1>1, BoundsAssumption DEF Taker
  <2>2. req.price \in Prices
    BY <1>1 DEF IInv, TakerInv
  <2> QED BY <2>1, <2>2 DEF Request
<1>3. /\ levels' = [levels EXCEPT ![req.side][req.price] = longer]
      /\ locators' = [locators EXCEPT ![req.id] = [side |-> req.side, price |-> req.price]]
      /\ taker' = NoTaker
      /\ Emit(1 + Closing, lastTime, tape)
      /\ UNCHANGED <<stpMode, state>>
  BY DEF Rest
<1>4. order \in RestingOrder
  BY <1>1, <1>2 DEF RestingOrder, TypeOK
<1>5. longer \in Lists
  <2>1. levels[req.side][req.price] \in Lists
    BY <1>1, <1>2, TypedLevels
  <2> HIDE DEF order
  <2> QED BY <1>4, <2>1, AppendProperties DEF Enqueue, Lists
<1> HIDE DEF longer, order
<1>6. /\ levels' \in [Side -> [Prices -> Lists]]
      /\ \A s \in Side, p \in Prices :
            levels'[s][p] = IF s = req.side /\ p = req.price THEN longer ELSE levels[s][p]
  <2>1. levels \in [Side -> [Prices -> Lists]]
    BY <1>1, TypedLevels
  <2> HIDE DEF req
  <2> QED BY <1>2, <1>3, <1>5, <2>1, OneLevelChanges
<1>7. locators' \in [OrderIds -> Locator \cup {NoLocator}]
  BY <1>1, <1>2, <1>3 DEF TypeOK, Locator
<1>8. sequence' \in Nat /\ lastTime' \in Times \cup {0} /\ tape' \in [OrderIds -> Int]
  <2>1. lastTime \in Times \cup {0} /\ tape \in [OrderIds -> Int] /\ 1 + Closing \in Nat
    BY <1>1 DEF TypeOK, Closing
  <2> QED BY <1>1, <1>3, <2>1, EmitTyped
<1>9. TypeOK'
  BY <1>1, <1>3, <1>6, <1>7, <1>8 DEF TypeOK, Lists
<1>10. TakerInv'
  BY <1>3 DEF TakerInv, Idle
<1>11. ASSUME NEW bid \in Prices, NEW ask \in Prices,
              levels'["buy"][bid] # <<>>, levels'["sell"][ask] # <<>>
       PROVE  bid < ask
  <2>1. bid \in Nat /\ ask \in Nat /\ req.price \in Nat
    BY <1>2, BoundsAssumption DEF Prices
  <2>2. CASE req.side = "buy" /\ bid = req.price
    <3>1. levels["sell"][ask] # <<>> /\ Opposite(req.side) = "sell"
      BY <1>6, <1>11, <2>2 DEF Side, Opposite
    <3>2. ~Accepts(req, ask)
      BY <1>1, <1>2, <3>1, NothingAcceptable
    <3> QED BY <1>1, <2>1, <2>2, <3>2 DEF Accepts
  <2>3. CASE req.side = "sell" /\ ask = req.price
    <3>1. levels["buy"][bid] # <<>> /\ Opposite(req.side) = "buy"
      BY <1>6, <1>11, <2>3 DEF Side, Opposite
    <3>2. ~Accepts(req, bid)
      BY <1>1, <1>2, <3>1, NothingAcceptable
    <3> QED BY <1>1, <2>1, <2>3, <3>2 DEF Accepts
  <2>4. CASE ~(req.side = "buy" /\ bid = req.price) /\ ~(req.side = "sell" /\ ask = req.price)
    <3>1. levels["buy"][bid] # <<>> /\ levels["sell"][ask] # <<>>
      BY <1>6, <1>11, <2>4 DEF Side
    <3> QED BY <3>1 DEF IInv, NotCrossed
  <2> QED BY <2>2, <2>3, <2>4
<1>12. NotCrossed'
  BY <1>11 DEF NotCrossed, Prices
<1>13. QED
  BY <1>9, <1>10, <1>12 DEF IInv

-----------------------------------------------------------------------------
(* cancel(), replace() and set_state().                                    *)

(* Where Located finds an order, its side, price and quantity are typed.   *)
LEMMA LocatedFacts ==
    ASSUME TypeOK, NEW id \in OrderIds, NEW agent \in Agents, NEW i, Located(id, agent, i)
    PROVE  /\ locators[id] \in Locator
           /\ locators[id].side \in Side /\ locators[id].price \in Prices
           /\ levels[locators[id].side][locators[id].price] \in Lists
           /\ i \in 1 .. Len(levels[locators[id].side][locators[id].price])
           /\ Level(locators[id])[i].qty \in 1 .. MaxQuantity
<1>1. locators[id] \in Locator
  BY DEF Located, Active, TypeOK
<1>2. locators[id].side \in Side /\ locators[id].price \in Prices
  BY <1>1 DEF Locator
<1>3. i \in 1 .. Len(levels[locators[id].side][locators[id].price])
  BY DEF Located, Level
<1>4. levels[locators[id].side][locators[id].price][i] \in RestingOrder
  BY <1>2, <1>3, TypedLevels
<1>5. QED
  BY <1>1, <1>2, <1>3, <1>4, TypedLevels DEF Level, RestingOrder

LEMMA RemoveOrderThins ==
    ASSUME TypeOK, NEW id \in OrderIds, NEW agent \in Agents, NEW i,
           Located(id, agent, i), RemoveOrder(id, i)
    PROVE  /\ levels' \in [Side -> [Prices -> Lists]]
           /\ locators' \in [OrderIds -> Locator \cup {NoLocator}]
           /\ \A s \in Side, p \in Prices : levels'[s][p] # <<>> => levels[s][p] # <<>>
           /\ ~Active(id)'
<1> DEFINE loc == locators[id]
           q == levels[loc.side][loc.price]
<1>1. /\ loc.side \in Side /\ loc.price \in Prices /\ q \in Lists /\ i \in 1 .. Len(q)
  BY LocatedFacts
<1>2. RemoveAt(q, i) \in Lists /\ q # <<>>
  <2> HIDE DEF q
  <2> QED BY <1>1, RemovalFromList
<1>3. /\ levels' = [levels EXCEPT ![loc.side][loc.price] = RemoveAt(q, i)]
      /\ locators' = [locators EXCEPT ![id] = NoLocator]
  BY DEF RemoveOrder
<1>4. /\ levels' \in [Side -> [Prices -> Lists]]
      /\ \A s \in Side, p \in Prices :
            levels'[s][p] = IF s = loc.side /\ p = loc.price THEN RemoveAt(q, i) ELSE levels[s][p]
  <2>1. levels \in [Side -> [Prices -> Lists]]
    BY TypedLevels
  <2> HIDE DEF loc, q
  <2> QED BY <1>1, <1>2, <1>3, <2>1, OneLevelChanges
<1>5. \A s \in Side, p \in Prices : levels'[s][p] # <<>> => levels[s][p] # <<>>
  BY <1>2, <1>4
<1>6. locators' \in [OrderIds -> Locator \cup {NoLocator}] /\ ~Active(id)'
  BY <1>3 DEF TypeOK, Active
<1>7. QED
  BY <1>4, <1>5, <1>6

LEMMA CancelInv ==
    ASSUME IInv, NEW id \in OrderIds, NEW agent \in Agents, NEW i, NEW t \in Times,
           Cancel(id, agent, i, t)
    PROVE  IInv'
<1>1. TypeOK /\ Idle /\ Located(id, agent, i) /\ RemoveOrder(id, i)
  BY DEF IInv, Cancel
<1>2. UNCHANGED <<stpMode, state, taker>>
  BY DEF Cancel
<1>3. /\ levels' \in [Side -> [Prices -> Lists]]
      /\ locators' \in [OrderIds -> Locator \cup {NoLocator}]
      /\ \A s \in Side, p \in Prices : levels'[s][p] # <<>> => levels[s][p] # <<>>
  BY <1>1, RemoveOrderThins
<1>4. sequence' \in Nat /\ lastTime' \in Times \cup {0} /\ tape' \in [OrderIds -> Int]
  <2>1. tape \in [OrderIds -> Int] /\ Level(locators[id])[i].qty \in Int
    BY <1>1, LocatedFacts, BoundsAssumption DEF TypeOK
  <2>2. Cancelled(tape, id, Level(locators[id])[i].qty) \in [OrderIds -> Int]
    BY <2>1, CancelledTyped
  <2>3. Emit(1, t, Cancelled(tape, id, Level(locators[id])[i].qty)) /\ 1 \in Nat
    BY DEF Cancel
  <2> QED BY <1>1, <2>2, <2>3, EmitTyped
<1>5. TypeOK'
  BY <1>1, <1>2, <1>3, <1>4 DEF TypeOK, Lists
<1>6. TakerInv'
  BY <1>1, <1>2 DEF TakerInv, Idle
<1>7. NotCrossed'
  BY <1>3, ThinningKeepsNotCrossed DEF IInv
<1>8. QED
  BY <1>5, <1>6, <1>7 DEF IInv

LEMMA ReduceInPlaceInv ==
    ASSUME IInv, NEW id \in OrderIds, NEW agent \in Agents, NEW i, NEW t \in Times,
           NEW price \in 0 .. MaxPrice, NEW qty \in 0 .. MaxQuantity,
           ReduceInPlace(id, agent, i, price, qty, t)
    PROVE  IInv'
<1> DEFINE loc == locators[id]
           q == levels[loc.side][loc.price]
<1>1. TypeOK /\ Idle /\ Located(id, agent, i)
  BY DEF IInv, ReduceInPlace
<1>2. /\ loc.side \in Side /\ loc.price \in Prices /\ q \in Lists /\ i \in 1 .. Len(q)
  BY <1>1, LocatedFacts
<1>3. qty \in 1 .. MaxQuantity
  BY ConfigAssumption, BoundsAssumption DEF ReduceInPlace, KeepsPriority, ValidQuantity
<1>4. /\ levels' = [levels EXCEPT ![loc.side][loc.price] = [q EXCEPT ![i].qty = qty]]
      /\ Emit(1, t, [tape EXCEPT ![id] = qty])
      /\ UNCHANGED <<stpMode, state, locators, taker>>
  BY DEF ReduceInPlace
<1>5. [q EXCEPT ![i].qty = qty] \in Lists /\ q # <<>>
  <2> HIDE DEF q
  <2> QED BY <1>2, <1>3, QuantityInList
<1>6. /\ levels' \in [Side -> [Prices -> Lists]]
      /\ \A s \in Side, p \in Prices :
            levels'[s][p] = IF s = loc.side /\ p = loc.price
                            THEN [q EXCEPT ![i].qty = qty]
                            ELSE levels[s][p]
  <2>1. levels \in [Side -> [Prices -> Lists]]
    BY <1>1, TypedLevels
  <2> HIDE DEF loc
  <2> QED BY <1>2, <1>4, <1>5, <2>1, OneLevelChanges
<1>7. sequence' \in Nat /\ lastTime' \in Times \cup {0} /\ tape' \in [OrderIds -> Int]
  <2>1. [tape EXCEPT ![id] = qty] \in [OrderIds -> Int] /\ 1 \in Nat
    BY <1>1, BoundsAssumption DEF TypeOK
  <2> QED BY <1>1, <1>4, <2>1, EmitTyped
<1>8. TypeOK'
  BY <1>1, <1>4, <1>6, <1>7 DEF TypeOK, Lists
<1>9. TakerInv'
  BY <1>1, <1>4 DEF TakerInv, Idle
<1>10. \A s \in Side, p \in Prices : levels'[s][p] # <<>> => levels[s][p] # <<>>
  BY <1>5, <1>6
<1>11. NotCrossed'
  BY <1>10, ThinningKeepsNotCrossed DEF IInv
<1>12. QED
  BY <1>8, <1>9, <1>11 DEF IInv

LEMMA CancelAndResubmitInv ==
    ASSUME IInv, NEW id \in OrderIds, NEW agent \in Agents, NEW i, NEW t \in Times,
           NEW price \in 0 .. MaxPrice, NEW qty \in 0 .. MaxQuantity,
           CancelAndResubmit(id, agent, i, price, qty, t)
    PROVE  IInv'
<1> DEFINE loc == locators[id]
           req == [id |-> id, agent |-> agent, side |-> loc.side, type |-> "limit",
                   tif |-> "good_til_cancel", price |-> price, qty |-> qty, postOnly |-> FALSE]
           accepted == t >= lastTime /\ state = "open" /\ ValidQuantity(qty) /\ ValidPrice(req)
<1>1. TypeOK /\ Idle /\ Located(id, agent, i) /\ RemoveOrder(id, i)
  BY DEF IInv, CancelAndResubmit
<1>2. loc.side \in Side /\ Level(loc)[i].qty \in 1 .. MaxQuantity
  BY <1>1, LocatedFacts
<1>3. /\ taker' = IF accepted
                  THEN [req |-> req, remaining |-> qty, stopped |-> FALSE, replacing |-> TRUE]
                  ELSE NoTaker
      /\ Emit(2, t, IF accepted THEN [tape EXCEPT ![id] = qty]
                                ELSE Cancelled(tape, id, Level(loc)[i].qty))
      /\ UNCHANGED <<stpMode, state>>
  BY DEF CancelAndResubmit
<1>4. /\ levels' \in [Side -> [Prices -> Lists]]
      /\ locators' \in [OrderIds -> Locator \cup {NoLocator}]
      /\ \A s \in Side, p \in Prices : levels'[s][p] # <<>> => levels[s][p] # <<>>
      /\ ~Active(id)'
  BY <1>1, RemoveOrderThins
<1>5. req \in Request
  BY <1>2 DEF Request
<1>6. accepted => price \in Prices
  BY BoundsAssumption DEF ValidPrice, Prices
<1>7. req.id = id /\ req.price = price
  OBVIOUS
<1> HIDE DEF accepted, req
<1>8. taker' \in Taker \cup {NoTaker}
  BY <1>3, <1>5 DEF Taker
<1>9. sequence' \in Nat /\ lastTime' \in Times \cup {0} /\ tape' \in [OrderIds -> Int]
  <2>1. tape \in [OrderIds -> Int] /\ Level(loc)[i].qty \in Int /\ qty \in Int
    BY <1>1, <1>2, BoundsAssumption DEF TypeOK
  <2>2. Cancelled(tape, id, Level(loc)[i].qty) \in [OrderIds -> Int]
    BY <2>1, CancelledTyped
  <2>3. (IF accepted THEN [tape EXCEPT ![id] = qty] ELSE Cancelled(tape, id, Level(loc)[i].qty))
        \in [OrderIds -> Int]
    BY <2>1, <2>2
  <2> HIDE DEF loc
  <2> QED BY <1>1, <1>3, <2>3, EmitTyped
<1>10. TypeOK'
  BY <1>1, <1>3, <1>4, <1>8, <1>9 DEF TypeOK, Lists
<1>11. TakerInv'
  <2>1. CASE accepted
    <3>1. taker'.req = req
      BY <1>3, <2>1
    <3>2. taker'.req.id = id /\ taker'.req.price \in Prices
      BY <1>6, <1>7, <2>1, <3>1
    <3> QED BY <1>4, <3>2 DEF TakerInv, Active, Prices
  <2>2. CASE ~accepted
    BY <1>3, <2>2 DEF TakerInv, Idle
  <2> QED BY <2>1, <2>2
<1>12. NotCrossed'
  BY <1>4, ThinningKeepsNotCrossed DEF IInv
<1>13. QED
  BY <1>10, <1>11, <1>12 DEF IInv

LEMMA SetStateInv ==
    ASSUME IInv, NEW next \in BookStates, NEW t \in Times, SetState(next, t)
    PROVE  IInv'
<1>1. TypeOK /\ Idle /\ UNCHANGED <<stpMode, levels, locators, taker>> /\ state' = next
  BY DEF IInv, SetState
<1>2. sequence' \in Nat /\ lastTime' \in Times \cup {0} /\ tape' \in [OrderIds -> Int]
  <2>1. Emit(1, t, tape) /\ 1 \in Nat /\ tape \in [OrderIds -> Int]
    BY <1>1 DEF SetState, TypeOK
  <2> QED BY <1>1, <2>1, EmitTyped
<1>3. TypeOK'
  BY <1>1, <1>2 DEF TypeOK
<1>4. TakerInv' /\ NotCrossed'
  BY <1>1 DEF IInv, TakerInv, Idle, NotCrossed
<1>5. QED
  BY <1>3, <1>4 DEF IInv

-----------------------------------------------------------------------------
(* The theorems.                                                           *)

LEMMA NextInv == IInv /\ [Next]_vars => IInv'
<1> SUFFICES ASSUME IInv, [Next]_vars PROVE IInv'
  OBVIOUS
<1>1. CASE Submit
  BY <1>1, SubmitInv DEF Submit
<1>2. CASE Match
  BY <1>2, FillInv, StopNewestInv, CancelOldestInv, RestInv, LoopEndInv DEF Match
<1>3. CASE Amend
  BY <1>3, CancelInv, ReduceInPlaceInv, CancelAndResubmitInv DEF Amend
<1>4. CASE \E next \in BookStates, t \in Times : SetState(next, t)
  BY <1>4, SetStateInv
<1>5. CASE UNCHANGED vars
  BY <1>5 DEF vars, IInv, TypeOK, TakerInv, NotCrossed, Idle, Active
<1>6. QED
  BY <1>1, <1>2, <1>3, <1>4, <1>5 DEF Next

(* The variables of the book keep their types in every reachable state.    *)
THEOREM TypeCorrect == Spec => []TypeOK
<1>1. IInv => TypeOK
  BY DEF IInv
<1>2. QED
  BY InitInv, NextInv, <1>1, PTL DEF Spec

(***************************************************************************)
(* In every reachable state, inside the matching loop too, every resting   *)
(* bid is below every resting ask: what submit(), cancel(), replace() and  *)
(* set_state() do keeps the first line of invariant_holds().               *)
(***************************************************************************)
THEOREM BookNeverCrossed == Spec => []NotCrossed
<1>1. IInv => NotCrossed
  BY DEF IInv
<1>2. QED
  BY InitInv, NextInv, <1>1, PTL DEF Spec

-----------------------------------------------------------------------------
(***************************************************************************)
(* For every number of orders, agents, prices and quantities: an order is  *)
(* found where its locator says and nowhere else, and along each list the  *)
(* accepted sequence increases.                                            *)
(***************************************************************************)
(* The invariant.                                                          *)

(* Each order rests where its locator says, and once.                      *)
Placed ==
    \A s \in Side, p \in Prices : \A i \in 1 .. Len(levels[s][p]) :
        /\ locators[levels[s][p][i].id] = [side |-> s, price |-> p]
        /\ \A j \in 1 .. Len(levels[s][p]) : levels[s][p][j].id = levels[s][p][i].id => j = i

(* What a locator points at is there.                                      *)
Found ==
    \A id \in OrderIds : Active(id) =>
        \E i \in 1 .. Len(Level(locators[id])) : Level(locators[id])[i].id = id

(* Along each list the sequence increases, and the next one is free.       *)
Queued ==
    \A s \in Side, p \in Prices : \A i \in 1 .. Len(levels[s][p]) :
        /\ levels[s][p][i].seq < sequence
        /\ \A j \in 1 .. Len(levels[s][p]) : i < j => levels[s][p][i].seq < levels[s][p][j].seq

QueueInv == IInv /\ Placed /\ Found /\ Queued

(* The sequence never goes back.                                           *)
LEMMA EmitGrows ==
    ASSUME TypeOK, NEW n \in Nat, NEW t, NEW newTape, Emit(n, t, newTape)
    PROVE  sequence' \in Nat /\ sequence' >= sequence
BY DEF Emit, TypeOK

-----------------------------------------------------------------------------
(* The three ways an operation changes the lists.                          *)

(* The i-th order of a list leaves, and its locator with it.               *)
Removal(s, p, i) ==
    /\ levels' \in [Side -> [Prices -> Lists]]
    /\ \A t \in Side, r \in Prices : (t = s /\ r = p) \/ levels'[t][r] = levels[t][r]
    /\ Len(levels'[s][p]) = Len(levels[s][p]) - 1
    /\ \A k \in 1 .. Len(levels[s][p]) - 1 :
           levels'[s][p][k] = IF k < i THEN levels[s][p][k] ELSE levels[s][p][k + 1]
    /\ locators' = [locators EXCEPT ![levels[s][p][i].id] = NoLocator]

(* Quantities change at most.                                              *)
Requantified ==
    /\ levels' \in [Side -> [Prices -> Lists]]
    /\ \A t \in Side, r \in Prices :
           /\ Len(levels'[t][r]) = Len(levels[t][r])
           /\ \A k \in 1 .. Len(levels[t][r]) : /\ levels'[t][r][k].id = levels[t][r][k].id
                                                /\ levels'[t][r][k].seq = levels[t][r][k].seq
    /\ locators' = locators

(* An order joins the end of a list.                                       *)
Joining(s, p, order) ==
    /\ levels' \in [Side -> [Prices -> Lists]]
    /\ \A t \in Side, r \in Prices : (t = s /\ r = p) \/ levels'[t][r] = levels[t][r]
    /\ Len(levels'[s][p]) = Len(levels[s][p]) + 1
    /\ \A k \in 1 .. Len(levels[s][p]) : levels'[s][p][k] = levels[s][p][k]
    /\ levels'[s][p][Len(levels[s][p]) + 1] = order
    /\ locators' = [locators EXCEPT ![order.id] = [side |-> s, price |-> p]]

LEMMA TypedOrders ==
    ASSUME TypeOK, NEW t \in Side, NEW r \in Prices
    PROVE  /\ Len(levels[t][r]) \in Nat
           /\ \A k \in 1 .. Len(levels[t][r]) :
                 levels[t][r][k].seq \in Nat /\ levels[t][r][k].id \in OrderIds
<1>1. levels[t][r] \in Lists /\ \A k \in 1 .. Len(levels[t][r]) : levels[t][r][k] \in RestingOrder
  BY TypedLevels
<1>2. Len(levels[t][r]) \in Nat
  BY <1>1, LenProperties DEF Lists
<1>3. \A order \in RestingOrder : order.seq \in Nat /\ order.id \in OrderIds
  BY DEF RestingOrder
<1> HIDE DEF Lists
<1>4. QED
  BY <1>1, <1>2, <1>3

(* What Placed says of one list.                                           *)
LEMMA PlacedInList ==
    ASSUME Placed, NEW s \in Side, NEW p \in Prices
    PROVE  /\ \A k \in 1 .. Len(levels[s][p]) :
                 locators[levels[s][p][k].id] = [side |-> s, price |-> p]
           /\ \A m, l \in 1 .. Len(levels[s][p]) :
                 levels[s][p][m].id = levels[s][p][l].id => m = l
BY DEF Placed

LEMMA RequantifiedKeeps ==
    ASSUME QueueInv, Requantified, sequence' \in Nat, sequence' >= sequence
    PROVE  Placed' /\ Found' /\ Queued'
<1>1. TypeOK /\ sequence \in Nat
  BY DEF QueueInv, IInv, TypeOK
<1>2. \A s \in Side, p \in Prices :
         /\ Len(levels[s][p]) \in Nat
         /\ \A i \in 1 .. Len(levels[s][p]) : levels[s][p][i].seq \in Nat
  BY <1>1, TypedLevels DEF RestingOrder, Lists
<1>3. Placed'
  <2> SUFFICES ASSUME NEW s \in Side, NEW p \in Prices, NEW i \in 1 .. Len(levels'[s][p])
               PROVE  /\ locators'[levels'[s][p][i].id] = [side |-> s, price |-> p]
                      /\ \A j \in 1 .. Len(levels'[s][p]) :
                            levels'[s][p][j].id = levels'[s][p][i].id => j = i
    BY DEF Placed, Prices, Side
  <2>1. i \in 1 .. Len(levels[s][p]) /\ levels'[s][p][i].id = levels[s][p][i].id
    BY DEF Requantified
  <2>2. \A j \in 1 .. Len(levels'[s][p]) :
           j \in 1 .. Len(levels[s][p]) /\ levels'[s][p][j].id = levels[s][p][j].id
    BY DEF Requantified
  <2>3. locators' = locators
    BY DEF Requantified
  <2> QED BY <2>1, <2>2, <2>3 DEF QueueInv, Placed
<1>4. Queued'
  <2> SUFFICES ASSUME NEW s \in Side, NEW p \in Prices, NEW i \in 1 .. Len(levels'[s][p])
               PROVE  /\ levels'[s][p][i].seq < sequence'
                      /\ \A j \in 1 .. Len(levels'[s][p]) :
                            i < j => levels'[s][p][i].seq < levels'[s][p][j].seq
    BY DEF Queued, Prices, Side
  <2>1. i \in 1 .. Len(levels[s][p]) /\ levels'[s][p][i].seq = levels[s][p][i].seq
    BY DEF Requantified
  <2>2. \A j \in 1 .. Len(levels'[s][p]) :
           j \in 1 .. Len(levels[s][p]) /\ levels'[s][p][j].seq = levels[s][p][j].seq
    BY DEF Requantified
  <2>3. levels[s][p][i].seq < sequence
    BY <2>1 DEF QueueInv, Queued
  <2>4. levels'[s][p][i].seq < sequence'
    BY <1>1, <1>2, <2>1, <2>3
  <2> QED BY <2>1, <2>2, <2>4 DEF QueueInv, Queued
<1>5. Found'
  <2> SUFFICES ASSUME NEW id \in OrderIds, Active(id)'
               PROVE  \E i \in 1 .. Len(Level(locators[id])') : Level(locators[id])'[i].id = id
    BY DEF Found
  <2>1. Active(id) /\ locators'[id] = locators[id]
    BY DEF Active, Requantified
  <2>2. locators[id] \in Locator
    BY <1>1, <2>1 DEF Active, TypeOK
  <2>3. locators[id].side \in Side /\ locators[id].price \in Prices
    BY <2>2 DEF Locator
  <2>4. PICK i \in 1 .. Len(Level(locators[id])) : Level(locators[id])[i].id = id
    BY <2>1 DEF QueueInv, Found
  <2> QED BY <2>1, <2>3, <2>4 DEF Level, Requantified
<1>6. QED
  BY <1>3, <1>4, <1>5

LEMMA RemovalKeeps ==
    ASSUME QueueInv, NEW s \in Side, NEW p \in Prices, NEW i \in 1 .. Len(levels[s][p]),
           Removal(s, p, i), sequence' \in Nat, sequence' >= sequence
    PROVE  Placed' /\ Found' /\ Queued'
<1> DEFINE q == levels[s][p]
           id == q[i].id
           Old(k) == IF k < i THEN k ELSE k + 1
<1>1. TypeOK /\ sequence \in Nat /\ locators \in [OrderIds -> Locator \cup {NoLocator}]
  BY DEF QueueInv, IInv, TypeOK
<1>2. \A t \in Side, r \in Prices :
         /\ Len(levels[t][r]) \in Nat
         /\ \A k \in 1 .. Len(levels[t][r]) :
               levels[t][r][k].seq \in Nat /\ levels[t][r][k].id \in OrderIds
  BY <1>1, TypedOrders
<1>3. Len(q) \in Nat /\ i \in 1 .. Len(q)
  BY <1>2
<1>4. /\ \A t \in Side, r \in Prices : (t = s /\ r = p) \/ levels'[t][r] = levels[t][r]
      /\ Len(levels'[s][p]) = Len(q) - 1
      /\ \A k \in 1 .. Len(q) - 1 : levels'[s][p][k] = q[Old(k)] /\ Old(k) \in 1 .. Len(q) \ {i}
      /\ \A k, l \in 1 .. Len(q) - 1 : k < l <=> Old(k) < Old(l)
      /\ locators' = [locators EXCEPT ![id] = NoLocator]
  BY <1>2 DEF Removal
<1>5. Placed
  BY DEF QueueInv
<1>6. id \in OrderIds /\ locators[id] = [side |-> s, price |-> p]
  BY <1>2 DEF QueueInv, Placed
<1>7. \A t \in Side, r \in Prices : \A k \in 1 .. Len(levels[t][r]) :
         levels[t][r][k].id = id => t = s /\ r = p /\ k = i
  <2> SUFFICES ASSUME NEW t \in Side, NEW r \in Prices, NEW k \in 1 .. Len(levels[t][r]),
                      levels[t][r][k].id = id
               PROVE  t = s /\ r = p /\ k = i
    OBVIOUS
  <2>1. locators[id] = [side |-> t, price |-> r]
    BY <1>5, PlacedInList
  <2>2. t = s /\ r = p
    <3> HIDE DEF id
    <3> QED BY <1>6, <2>1
  <2> QED BY <2>2 DEF QueueInv, Placed
<1>8. Placed'
  <2> SUFFICES ASSUME NEW t \in Side, NEW r \in Prices, NEW k \in 1 .. Len(levels'[t][r])
               PROVE  /\ locators'[levels'[t][r][k].id] = [side |-> t, price |-> r]
                      /\ \A j \in 1 .. Len(levels'[t][r]) :
                            levels'[t][r][j].id = levels'[t][r][k].id => j = k
    BY DEF Placed, Prices
  <2>1. CASE t = s /\ r = p
    <3>1. /\ levels'[t][r][k] = q[Old(k)] /\ Old(k) \in 1 .. Len(q) /\ Old(k) # i
      BY <1>4, <2>1
    <3>2. q[Old(k)].id # id /\ locators[q[Old(k)].id] = [side |-> s, price |-> p]
      BY <1>7, <3>1 DEF QueueInv, Placed
    <3>3. locators'[q[Old(k)].id] = [side |-> s, price |-> p]
      BY <1>1, <1>2, <1>4, <3>1, <3>2
    <3>4. ASSUME NEW j \in 1 .. Len(levels'[t][r]), levels'[t][r][j].id = levels'[t][r][k].id
          PROVE  j = k
      <4>1. j \in 1 .. Len(q) - 1 /\ k \in 1 .. Len(q) - 1
        BY <1>4, <2>1
      <4>2. levels'[t][r][j] = q[Old(j)] /\ Old(j) \in 1 .. Len(q)
        BY <1>4, <2>1, <4>1
      <4>3. q[Old(j)].id = q[Old(k)].id
        BY <3>1, <3>4, <4>2
      <4>4. \A m, l \in 1 .. Len(q) : q[m].id = q[l].id => m = l
        BY <1>5, PlacedInList
      <4>5. Old(j) = Old(k)
        <5> HIDE DEF q, Old
        <5> QED BY <3>1, <4>2, <4>3, <4>4
      <4> QED BY <1>2, <4>1, <4>5
    <3> QED BY <2>1, <3>1, <3>3, <3>4
  <2>2. CASE ~(t = s /\ r = p)
    <3>1. levels'[t][r] = levels[t][r]
      BY <1>4, <2>2
    <3>2. levels[t][r][k].id # id /\ levels[t][r][k].id \in OrderIds
      BY <1>2, <1>7, <2>2, <3>1
    <3>3. locators'[levels[t][r][k].id] = locators[levels[t][r][k].id]
      BY <1>1, <1>4, <3>2
    <3> QED BY <3>1, <3>3 DEF QueueInv, Placed
  <2> QED BY <2>1, <2>2
<1>9. Queued'
  <2> SUFFICES ASSUME NEW t \in Side, NEW r \in Prices, NEW k \in 1 .. Len(levels'[t][r])
               PROVE  /\ levels'[t][r][k].seq < sequence'
                      /\ \A j \in 1 .. Len(levels'[t][r]) :
                            k < j => levels'[t][r][k].seq < levels'[t][r][j].seq
    BY DEF Queued, Prices
  <2>1. CASE t = s /\ r = p
    <3>1. /\ levels'[t][r][k] = q[Old(k)] /\ Old(k) \in 1 .. Len(q)
          /\ \A j \in 1 .. Len(levels'[t][r]) :
                /\ levels'[t][r][j] = q[Old(j)] /\ Old(j) \in 1 .. Len(q)
                /\ k < j => Old(k) < Old(j)
      BY <1>4, <2>1
    <3>2. \A m \in 1 .. Len(q) :
             /\ q[m].seq \in Nat /\ q[m].seq < sequence
             /\ \A n \in 1 .. Len(q) : m < n => q[m].seq < q[n].seq
      BY <1>2 DEF QueueInv, Queued
    <3>3. \A m \in 1 .. Len(q) : q[m].seq < sequence'
      BY <1>1, <3>2
    <3> HIDE DEF q, Old
    <3> QED BY <3>1, <3>2, <3>3
  <2>2. CASE ~(t = s /\ r = p)
    <3>1. levels'[t][r] = levels[t][r]
      BY <1>4, <2>2
    <3> QED BY <1>1, <1>2, <3>1 DEF QueueInv, Queued
  <2> QED BY <2>1, <2>2
<1>10. Found'
  <2> SUFFICES ASSUME NEW x \in OrderIds, Active(x)'
               PROVE  \E k \in 1 .. Len(Level(locators[x])') : Level(locators[x])'[k].id = x
    BY DEF Found
  <2>1. x # id /\ locators'[x] = locators[x] /\ Active(x)
    BY <1>1, <1>4, <1>6 DEF Active
  <2>2. locators[x].side \in Side /\ locators[x].price \in Prices
    BY <1>1, <2>1 DEF Active, Locator
  <2>3. PICK k \in 1 .. Len(Level(locators[x])) : Level(locators[x])[k].id = x
    BY <2>1 DEF QueueInv, Found
  <2>4. CASE locators[x].side = s /\ locators[x].price = p
    <3>1. k \in 1 .. Len(q) /\ q[k].id = x /\ k # i
      BY <2>1, <2>3, <2>4 DEF Level
    <3>2. PICK l \in 1 .. Len(q) - 1 : Old(l) = k
      <4>1. CASE k < i
        <5>1. k \in 1 .. Len(q) - 1 /\ Old(k) = k
          <6> HIDE DEF q
          <6> QED BY <1>3, <3>1, <4>1
        <5> QED BY <5>1
      <4>2. CASE k > i
        <5>1. k - 1 \in 1 .. Len(q) - 1 /\ Old(k - 1) = k
          BY <1>2, <3>1, <4>2
        <5> QED BY <5>1
      <4> QED BY <1>2, <3>1, <4>1, <4>2
    <3>3. l \in 1 .. Len(levels'[s][p]) /\ levels'[s][p][l].id = x
      BY <1>4, <3>1, <3>2
    <3> QED BY <2>1, <2>4, <3>3 DEF Level
  <2>5. CASE ~(locators[x].side = s /\ locators[x].price = p)
    <3>1. levels'[locators[x].side][locators[x].price] = levels[locators[x].side][locators[x].price]
      BY <1>4, <2>2, <2>5
    <3> QED BY <2>1, <2>3, <3>1 DEF Level
  <2> QED BY <2>4, <2>5
<1>11. QED
  BY <1>8, <1>9, <1>10

LEMMA JoiningKeeps ==
    ASSUME QueueInv, NEW s \in Side, NEW p \in Prices, NEW order \in RestingOrder,
           Joining(s, p, order), ~Active(order.id), order.seq = sequence,
           sequence' \in Nat, sequence' > sequence
    PROVE  Placed' /\ Found' /\ Queued'
<1> DEFINE q == levels[s][p]
           n == Len(q) + 1
           here == [side |-> s, price |-> p]
<1>1. TypeOK /\ sequence \in Nat /\ locators \in [OrderIds -> Locator \cup {NoLocator}]
  BY DEF QueueInv, IInv, TypeOK
<1>2. \A t \in Side, r \in Prices :
         /\ Len(levels[t][r]) \in Nat
         /\ \A k \in 1 .. Len(levels[t][r]) :
               levels[t][r][k].seq \in Nat /\ levels[t][r][k].id \in OrderIds
  BY <1>1, TypedOrders
<1>3. Len(q) \in Nat
  BY <1>2
<1>4. \A m \in 1 .. n : m # n => m \in 1 .. Len(q)
  <2> HIDE DEF q
  <2> QED BY <1>3
<1>5. /\ \A t \in Side, r \in Prices : (t = s /\ r = p) \/ levels'[t][r] = levels[t][r]
      /\ Len(levels'[s][p]) = n
      /\ \A k \in 1 .. Len(q) : levels'[s][p][k] = q[k]
      /\ levels'[s][p][n] = order
      /\ locators' = [locators EXCEPT ![order.id] = here]
  BY DEF Joining
<1>6. Placed
  BY DEF QueueInv
<1>7. order.id \in OrderIds /\ order.seq \in Nat
  BY DEF RestingOrder
<1>8. \A t \in Side, r \in Prices : \A k \in 1 .. Len(levels[t][r]) :
         levels[t][r][k].id # order.id
  <2> SUFFICES ASSUME NEW t \in Side, NEW r \in Prices, NEW k \in 1 .. Len(levels[t][r])
               PROVE  levels[t][r][k].id # order.id
    OBVIOUS
  <2>1. locators[levels[t][r][k].id] = [side |-> t, price |-> r]
    BY DEF QueueInv, Placed
  <2>2. [side |-> t, price |-> r] \in Locator
    BY DEF Locator
  <2> QED BY <2>1, <2>2, AbsentAssumption DEF Active
<1>9. Placed'
  <2> SUFFICES ASSUME NEW t \in Side, NEW r \in Prices, NEW k \in 1 .. Len(levels'[t][r])
               PROVE  /\ locators'[levels'[t][r][k].id] = [side |-> t, price |-> r]
                      /\ \A j \in 1 .. Len(levels'[t][r]) :
                            levels'[t][r][j].id = levels'[t][r][k].id => j = k
    BY DEF Placed, Prices
  <2>1. CASE t = s /\ r = p /\ k = n
    <3>1. levels'[t][r][k].id = order.id /\ locators'[order.id] = here
      BY <1>1, <1>5, <1>7, <2>1
    <3>2. ASSUME NEW j \in 1 .. Len(levels'[t][r]), j # n
          PROVE  levels'[t][r][j].id # order.id
      <4>1. j \in 1 .. n
        BY <1>5, <2>1
      <4>2. j \in 1 .. Len(q)
        BY <1>3, <3>2, <4>1
      <4>3. levels'[t][r][j] = q[j]
        BY <1>5, <2>1, <4>2
      <4>4. q[j].id # order.id
        BY <1>8, <4>2
      <4> QED BY <4>3, <4>4
    <3> HIDE DEF q, n, here
    <3>3. \A j \in 1 .. Len(levels'[t][r]) : levels'[t][r][j].id = levels'[t][r][k].id => j = k
      BY <2>1, <3>1, <3>2
    <3>4. [side |-> t, price |-> r] = here
      BY <2>1 DEF here
    <3>5. locators'[levels'[t][r][k].id] = [side |-> t, price |-> r]
      BY <3>1, <3>4
    <3> QED BY <3>3, <3>5
  <2>2. CASE t = s /\ r = p /\ k # n
    <3>1. k \in 1 .. Len(q) /\ levels'[t][r][k] = q[k]
      <4>1. k \in 1 .. n
        BY <1>5, <2>2
      <4>2. k \in 1 .. Len(q)
        BY <1>4, <2>2, <4>1
      <4> QED BY <1>5, <2>2, <4>2
    <3>2. q[k].id # order.id /\ q[k].id \in OrderIds /\ locators[q[k].id] = here
      BY <1>2, <1>8, <3>1 DEF QueueInv, Placed
    <3>3. locators'[q[k].id] = here
      BY <1>1, <1>5, <3>2
    <3>4. ASSUME NEW j \in 1 .. Len(levels'[t][r]), levels'[t][r][j].id = levels'[t][r][k].id
          PROVE  j = k
      <4>1. j # n
        BY <1>5, <2>2, <3>1, <3>2, <3>4
      <4>2. j \in 1 .. Len(q) /\ levels'[t][r][j] = q[j]
        <5>1. j \in 1 .. n
          BY <1>5, <2>2
        <5>2. j \in 1 .. Len(q)
          BY <1>4, <4>1, <5>1
        <5> QED BY <1>5, <2>2, <5>2
      <4>3. q[j].id = q[k].id
        BY <3>1, <3>4, <4>2
      <4>4. \A m, l \in 1 .. Len(q) : q[m].id = q[l].id => m = l
        BY <1>6 DEF Placed
      <4> HIDE DEF q
      <4> QED BY <3>1, <4>2, <4>3, <4>4
    <3> QED BY <2>2, <3>1, <3>3, <3>4
  <2>3. CASE ~(t = s /\ r = p)
    <3>1. levels'[t][r] = levels[t][r]
      BY <1>5, <2>3
    <3>2. levels[t][r][k].id # order.id /\ levels[t][r][k].id \in OrderIds
      BY <1>2, <1>8, <3>1
    <3>3. locators'[levels[t][r][k].id] = locators[levels[t][r][k].id]
      BY <1>1, <1>5, <3>2
    <3> QED BY <3>1, <3>3 DEF QueueInv, Placed
  <2> QED BY <2>1, <2>2, <2>3
<1>10. Queued'
  <2> SUFFICES ASSUME NEW t \in Side, NEW r \in Prices, NEW k \in 1 .. Len(levels'[t][r])
               PROVE  /\ levels'[t][r][k].seq < sequence'
                      /\ \A j \in 1 .. Len(levels'[t][r]) :
                            k < j => levels'[t][r][k].seq < levels'[t][r][j].seq
    BY DEF Queued, Prices
  <2>1. CASE t = s /\ r = p
    <3>1. \A m \in 1 .. Len(q) :
             /\ q[m].seq \in Nat /\ q[m].seq < sequence
             /\ \A l \in 1 .. Len(q) : m < l => q[m].seq < q[l].seq
      BY <1>2 DEF QueueInv, Queued
    <3>2. ASSUME NEW j \in 1 .. Len(levels'[t][r])
          PROVE  \/ j = n /\ levels'[t][r][j].seq = sequence
                 \/ j \in 1 .. Len(q) /\ levels'[t][r][j] = q[j]
      <4>1. j \in 1 .. n
        BY <1>5, <2>1
      <4>2. j = n \/ j \in 1 .. Len(q)
        BY <1>3, <4>1
      <4> QED BY <1>5, <2>1, <4>2
    <3>3. k = n \/ (k \in 1 .. Len(q) /\ levels'[t][r][k] = q[k])
      BY <3>2
    <3>4. CASE k = n
      <4>1. levels'[t][r][k].seq = sequence
        BY <1>5, <2>1, <3>4
      <4>2. \A j \in 1 .. Len(levels'[t][r]) : ~(k < j)
        <5>1. Len(levels'[t][r]) = n /\ k = n
          BY <1>5, <2>1, <3>4
        <5> HIDE DEF q
        <5> QED BY <1>3, <5>1
      <4> QED BY <1>1, <4>1, <4>2
    <3>5. CASE k \in 1 .. Len(q) /\ levels'[t][r][k] = q[k]
      <4> HIDE DEF q, n
      <4>1. q[k].seq \in Nat /\ q[k].seq < sequence
        BY <3>1, <3>5
      <4>2. q[k].seq < sequence'
        BY <1>1, <4>1
      <4>3. \A j \in 1 .. Len(levels'[t][r]) : k < j => q[k].seq < levels'[t][r][j].seq
        BY <3>1, <3>2, <3>5, <4>1
      <4> QED BY <3>5, <4>2, <4>3
    <3> QED BY <3>3, <3>4, <3>5
  <2>2. CASE ~(t = s /\ r = p)
    <3>1. levels'[t][r] = levels[t][r]
      BY <1>5, <2>2
    <3> QED BY <1>1, <1>2, <3>1 DEF QueueInv, Queued
  <2> QED BY <2>1, <2>2
<1>11. Found'
  <2> SUFFICES ASSUME NEW x \in OrderIds, Active(x)'
               PROVE  \E k \in 1 .. Len(Level(locators[x])') : Level(locators[x])'[k].id = x
    BY DEF Found
  <2>1. CASE x = order.id
    <3>1. locators'[x] = here /\ here.side = s /\ here.price = p
      BY <1>1, <1>5, <1>7, <2>1
    <3>2. n \in 1 .. Len(levels'[s][p]) /\ levels'[s][p][n].id = x
      BY <1>2, <1>5, <2>1
    <3> HIDE DEF here, n
    <3> QED BY <3>1, <3>2 DEF Level
  <2>2. CASE x # order.id
    <3>1. locators'[x] = locators[x] /\ Active(x)
      BY <1>1, <1>5, <2>2 DEF Active
    <3>2. locators[x].side \in Side /\ locators[x].price \in Prices
      BY <1>1, <3>1 DEF Active, Locator
    <3>3. PICK k \in 1 .. Len(Level(locators[x])) : Level(locators[x])[k].id = x
      BY <3>1 DEF QueueInv, Found
    <3>4. CASE locators[x].side = s /\ locators[x].price = p
      <4>1. k \in 1 .. Len(q) /\ q[k].id = x
        BY <3>3, <3>4 DEF Level
      <4>2. k \in 1 .. Len(levels'[s][p])
        <5> HIDE DEF q
        <5> QED BY <1>3, <1>5, <4>1
      <4>3. levels'[s][p][k].id = x
        BY <1>5, <4>1
      <4> QED BY <3>1, <3>4, <4>2, <4>3 DEF Level
    <3>5. CASE ~(locators[x].side = s /\ locators[x].price = p)
      <4>1. levels'[locators[x].side][locators[x].price]
            = levels[locators[x].side][locators[x].price]
        BY <1>5, <3>2, <3>5
      <4> QED BY <3>1, <3>3, <4>1 DEF Level
    <3> QED BY <3>4, <3>5
  <2> QED BY <2>1, <2>2
<1>12. QED
  BY <1>9, <1>10, <1>11
-----------------------------------------------------------------------------
(* Each operation is one of the three.                                     *)

(* Nothing moves: the book is as it was.                                   *)
LEMMA UnchangedBook ==
    ASSUME TypeOK, UNCHANGED <<levels, locators>>
    PROVE  Requantified
<1>1. levels \in [Side -> [Prices -> Lists]]
  BY TypedLevels
<1>2. QED
  BY <1>1 DEF Requantified

(* RemoveFront takes the first order of a list.                            *)
LEMMA FrontRemoved ==
    ASSUME TypeOK, NEW side \in Side, NEW price \in Prices,
           levels[side][price] # <<>>, RemoveFront(side, price)
    PROVE  1 \in 1 .. Len(levels[side][price]) /\ Removal(side, price, 1)
<1> DEFINE q == levels[side][price]
<1>1. q \in Lists /\ levels \in [Side -> [Prices -> Lists]]
  BY TypedLevels
<1>2. /\ Tail(q) \in Lists /\ Head(q) = q[1] /\ 1 \in 1 .. Len(q)
      /\ Len(Tail(q)) = Len(q) - 1
      /\ \A k \in 1 .. Len(Tail(q)) : Tail(q)[k] = q[k + 1]
  BY <1>1, TailOfList
<1>3. /\ levels' = [levels EXCEPT ![side][price] = Tail(q)]
      /\ locators' = [locators EXCEPT ![Head(q).id] = NoLocator]
  BY DEF RemoveFront
<1>4. /\ levels' \in [Side -> [Prices -> Lists]]
      /\ \A s \in Side, p \in Prices :
            levels'[s][p] = IF s = side /\ p = price THEN Tail(q) ELSE levels[s][p]
  <2> HIDE DEF q
  <2> QED BY <1>1, <1>2, <1>3, OneLevelChanges
<1>5. levels'[side][price] = Tail(q)
  BY <1>4
<1>6. \A k \in 1 .. Len(q) - 1 : Tail(q)[k] = IF k < 1 THEN q[k] ELSE q[k + 1]
  <2> HIDE DEF q
  <2> QED BY <1>2
<1>7. QED
  BY <1>2, <1>3, <1>4, <1>5, <1>6 DEF Removal

(* RemoveOrder takes the order at the place Located gives.                 *)
LEMMA OrderRemoved ==
    ASSUME TypeOK, NEW id \in OrderIds, NEW agent \in Agents, NEW i,
           Located(id, agent, i), RemoveOrder(id, i)
    PROVE  Removal(locators[id].side, locators[id].price, i)
<1> DEFINE loc == locators[id]
           q == levels[loc.side][loc.price]
<1>1. /\ loc.side \in Side /\ loc.price \in Prices /\ q \in Lists /\ i \in 1 .. Len(q)
  BY LocatedFacts
<1>2. q[i].id = id
  BY DEF Located, Level
<1>3. /\ RemoveAt(q, i) \in Lists
      /\ Len(RemoveAt(q, i)) = Len(q) - 1
      /\ \A k \in 1 .. Len(q) - 1 : RemoveAt(q, i)[k] = IF k < i THEN q[k] ELSE q[k + 1]
  <2> HIDE DEF q
  <2> QED BY <1>1, RemovalFromList
<1>4. /\ levels' = [levels EXCEPT ![loc.side][loc.price] = RemoveAt(q, i)]
      /\ locators' = [locators EXCEPT ![id] = NoLocator]
  BY DEF RemoveOrder
<1>5. /\ levels' \in [Side -> [Prices -> Lists]]
      /\ \A s \in Side, p \in Prices :
            levels'[s][p] = IF s = loc.side /\ p = loc.price THEN RemoveAt(q, i) ELSE levels[s][p]
  <2>1. levels \in [Side -> [Prices -> Lists]]
    BY TypedLevels
  <2> HIDE DEF loc, q
  <2> QED BY <1>1, <1>3, <1>4, <2>1, OneLevelChanges
<1>6. levels'[loc.side][loc.price] = RemoveAt(q, i)
  BY <1>1, <1>5
<1>7. QED
  BY <1>2, <1>3, <1>4, <1>5, <1>6 DEF Removal

(* A new quantity for one order of a list moves nothing.                   *)
LEMMA QuantityChanged ==
    ASSUME TypeOK, NEW s \in Side, NEW p \in Prices, NEW i \in 1 .. Len(levels[s][p]),
           NEW n \in 1 .. MaxQuantity,
           levels' = [levels EXCEPT ![s][p] = [levels[s][p] EXCEPT ![i].qty = n]],
           locators' = locators
    PROVE  Requantified
<1> DEFINE q == levels[s][p]
           changed == [q EXCEPT ![i].qty = n]
<1>1. q \in Lists /\ i \in 1 .. Len(q) /\ levels \in [Side -> [Prices -> Lists]]
  BY TypedLevels
<1>2. /\ changed \in Lists /\ Len(changed) = Len(q)
      /\ \A k \in 1 .. Len(q) : changed[k].id = q[k].id /\ changed[k].seq = q[k].seq
  <2> HIDE DEF q
  <2> QED BY <1>1, QuantityInList
<1>3. levels' = [levels EXCEPT ![s][p] = changed]
  OBVIOUS
<1> HIDE DEF changed
<1>4. /\ levels' \in [Side -> [Prices -> Lists]]
      /\ \A t \in Side, r \in Prices :
            levels'[t][r] = IF t = s /\ r = p THEN changed ELSE levels[t][r]
  <2>1. changed \in Lists /\ levels \in [Side -> [Prices -> Lists]]
    BY <1>1, <1>2
  <2> DEFINE after == [levels EXCEPT ![s][p] = changed]
  <2>2. /\ after \in [Side -> [Prices -> Lists]]
        /\ \A t \in Side, r \in Prices :
              after[t][r] = IF t = s /\ r = p THEN changed ELSE levels[t][r]
    BY <2>1, OneLevelChanges
  <2>3. levels' = after
    BY <1>3
  <2> HIDE DEF after
  <2> QED BY <2>2, <2>3
<1>5. QED
  BY <1>2, <1>4 DEF Requantified

(* Rest puts the taker at the end of the list of its side and price.       *)
LEMMA RestIsJoining ==
    ASSUME QueueInv, Rest
    PROVE  LET req == taker.req
               order == [id |-> req.id, agent |-> req.agent, qty |-> taker.remaining, seq |-> sequence]
           IN  /\ req.side \in Side /\ req.price \in Prices /\ ~Active(req.id)
               /\ order \in RestingOrder /\ order.id = req.id /\ order.seq = sequence
               /\ Joining(req.side, req.price, order)
<1> DEFINE req == taker.req
           order == [id |-> req.id, agent |-> req.agent, qty |-> taker.remaining, seq |-> sequence]
           q == levels[req.side][req.price]
<1>1. /\ IInv /\ TypeOK /\ ~Idle /\ taker \in Taker /\ taker.remaining > 0 /\ req.type = "limit"
  BY DEF QueueInv, IInv, TypeOK, Rest, Restable, Matched, Idle, Taker
<1>2. /\ req.id \in OrderIds /\ req.agent \in Agents /\ req.side \in Side
      /\ taker.remaining \in 1 .. MaxQuantity /\ req.price \in Prices /\ ~Active(req.id)
  <2>1. req \in Request /\ taker.remaining \in 1 .. MaxQuantity
    BY <1>1, BoundsAssumption DEF Taker
  <2>2. req.price \in Prices /\ ~Active(req.id)
    BY <1>1 DEF IInv, TakerInv
  <2> QED BY <2>1, <2>2 DEF Request
<1>3. /\ levels' = [levels EXCEPT ![req.side][req.price] = Append(q, order)]
      /\ locators' = [locators EXCEPT ![req.id] = [side |-> req.side, price |-> req.price]]
      /\ Emit(1 + Closing, lastTime, tape)
  BY DEF Rest, Enqueue
<1>4. order \in RestingOrder /\ order.id = req.id /\ order.seq = sequence
  BY <1>1, <1>2 DEF RestingOrder, TypeOK
<1>5. q \in Lists /\ levels \in [Side -> [Prices -> Lists]]
  BY <1>1, <1>2, TypedLevels
<1> HIDE DEF order
<1>6. /\ Append(q, order) \in Lists
      /\ Len(Append(q, order)) = Len(q) + 1
      /\ \A k \in 1 .. Len(q) : Append(q, order)[k] = q[k]
      /\ Append(q, order)[Len(q) + 1] = order
  <2> HIDE DEF q
  <2> QED BY <1>4, <1>5, AppendProperties DEF Lists
<1>7. /\ levels' \in [Side -> [Prices -> Lists]]
      /\ \A s \in Side, p \in Prices :
            levels'[s][p] = IF s = req.side /\ p = req.price THEN Append(q, order) ELSE levels[s][p]
  <2> HIDE DEF req, q
  <2> QED BY <1>2, <1>3, <1>5, <1>6, OneLevelChanges
<1>8. Joining(req.side, req.price, order)
  <2>1. levels'[req.side][req.price] = Append(q, order)
    BY <1>2, <1>7
  <2> QED BY <1>3, <1>4, <1>6, <1>7, <2>1 DEF Joining
<1>9. QED
  BY <1>2, <1>4, <1>8 DEF order

LEMMA RestJoins ==
    ASSUME QueueInv, Rest
    PROVE  Placed' /\ Found' /\ Queued'
<1> DEFINE req == taker.req
           order == [id |-> req.id, agent |-> req.agent, qty |-> taker.remaining, seq |-> sequence]
<1>1. /\ req.side \in Side /\ req.price \in Prices /\ ~Active(req.id)
      /\ order \in RestingOrder /\ order.id = req.id /\ order.seq = sequence
      /\ Joining(req.side, req.price, order)
  BY RestIsJoining
<1>2. sequence' \in Nat /\ sequence' > sequence
  <2>1. lastTime \in Nat /\ sequence \in Nat /\ Closing \in Nat
    BY BoundsAssumption DEF QueueInv, IInv, TypeOK, Closing
  <2>2. Emit(1 + Closing, lastTime, tape)
    BY DEF Rest
  <2> QED BY <2>1, <2>2 DEF Emit
<1>3. QED
  <2> HIDE DEF req, order
  <2> QED BY <1>1, <1>2, JoiningKeeps DEF order

(* A fill removes the maker or reduces it where it stands.                 *)
LEMMA FillKeeps ==
    ASSUME QueueInv, NEW price \in Prices, Fill(price)
    PROVE  Placed' /\ Found' /\ Queued'
<1> DEFINE side == Opposite(taker.req.side)
           q == levels[side][price]
           maker == Head(q)
           matched == IF taker.remaining <= maker.qty THEN taker.remaining ELSE maker.qty
<1>1. TypeOK /\ Matching(price)
  BY DEF QueueInv, IInv, Fill
<1>2. /\ side \in Side /\ q # <<>> /\ maker \in RestingOrder /\ taker.remaining \in 1 .. MaxQuantity
  BY <1>1, MatchingFacts
<1>3. maker.qty \in 1 .. MaxQuantity /\ matched \in 1 .. MaxQuantity /\ matched <= maker.qty
  <2>1. maker.qty \in 1 .. MaxQuantity
    BY <1>2 DEF RestingOrder
  <2> HIDE DEF maker
  <2> QED BY <1>2, <2>1, BoundsAssumption
<1>4. /\ IF matched = maker.qty
         THEN RemoveFront(side, price)
         ELSE /\ levels' = [levels EXCEPT ![side][price][1].qty = @ - matched]
              /\ UNCHANGED locators
      /\ \E newTape : Emit(1, lastTime, newTape)
  BY DEF Fill
<1> HIDE DEF matched, maker
<1>5. sequence' \in Nat /\ sequence' >= sequence
  BY <1>1, <1>4, EmitGrows
<1>6. CASE matched = maker.qty
  <2>1. RemoveFront(side, price)
    BY <1>4, <1>6
  <2>2. 1 \in 1 .. Len(levels[side][price]) /\ Removal(side, price, 1)
    BY <1>1, <1>2, <2>1, FrontRemoved
  <2> HIDE DEF side
  <2> QED BY <1>2, <1>5, <2>2, RemovalKeeps
<1>7. CASE matched # maker.qty
  <2>1. q \in Lists /\ levels \in [Side -> [Prices -> Lists]] /\ 1 \in 1 .. Len(q) /\ maker = q[1]
    BY <1>1, <1>2, TypedLevels, TailOfList DEF maker
  <2>2. maker.qty - matched \in 1 .. MaxQuantity
    BY <1>3, <1>7, BoundsAssumption
  <2>3. levels' = [levels EXCEPT ![side][price] = [q EXCEPT ![1].qty = maker.qty - matched]]
    BY <1>4, <1>7, <2>1
  <2>4. locators' = locators
    BY <1>4, <1>7
  <2>5. Requantified
    <3> HIDE DEF side
    <3> QED BY <1>1, <1>2, <2>1, <2>2, <2>3, <2>4, QuantityChanged
  <2> QED BY <1>5, <2>5, RequantifiedKeeps
<1>8. QED
  BY <1>6, <1>7

LEMMA CancelOldestKeeps ==
    ASSUME QueueInv, NEW price \in Prices, CancelOldest(price)
    PROVE  Placed' /\ Found' /\ Queued'
<1> DEFINE side == Opposite(taker.req.side)
<1>1. TypeOK /\ Matching(price) /\ RemoveFront(side, price)
  BY DEF QueueInv, IInv, CancelOldest
<1>2. side \in Side /\ levels[side][price] # <<>>
  BY <1>1, MatchingFacts
<1>3. sequence' \in Nat /\ sequence' >= sequence
  <2>1. \E newTape : Emit(1, lastTime, newTape)
    BY DEF CancelOldest
  <2> QED BY <1>1, <2>1, EmitGrows
<1>4. 1 \in 1 .. Len(levels[side][price]) /\ Removal(side, price, 1)
  BY <1>1, <1>2, FrontRemoved
<1>5. QED
  <2> HIDE DEF side
  <2> QED BY <1>2, <1>3, <1>4, RemovalKeeps

(* cancel(), and the cancel half of replace().                             *)
LEMMA RemoveOrderKeeps ==
    ASSUME QueueInv, NEW id \in OrderIds, NEW agent \in Agents, NEW i,
           Located(id, agent, i), RemoveOrder(id, i), sequence' \in Nat, sequence' >= sequence
    PROVE  Placed' /\ Found' /\ Queued'
<1>1. TypeOK
  BY DEF QueueInv, IInv
<1>2. /\ locators[id].side \in Side /\ locators[id].price \in Prices
      /\ i \in 1 .. Len(levels[locators[id].side][locators[id].price])
  BY <1>1, LocatedFacts
<1>3. Removal(locators[id].side, locators[id].price, i)
  BY <1>1, OrderRemoved
<1>4. QED
  BY <1>2, <1>3, RemovalKeeps

LEMMA AmendKeeps ==
    ASSUME QueueInv, NEW id \in OrderIds, NEW agent \in Agents, NEW i, NEW t \in Times,
           NEW price \in 0 .. MaxPrice, NEW qty \in 0 .. MaxQuantity,
           \/ Cancel(id, agent, i, t)
           \/ ReduceInPlace(id, agent, i, price, qty, t)
           \/ CancelAndResubmit(id, agent, i, price, qty, t)
    PROVE  Placed' /\ Found' /\ Queued'
<1>1. TypeOK /\ Located(id, agent, i)
  BY DEF QueueInv, IInv, Cancel, ReduceInPlace, CancelAndResubmit
<1>2. sequence' \in Nat /\ sequence' >= sequence
  <2>1. \E n \in Nat : \E newTape : Emit(n, t, newTape)
    <3>1. 1 \in Nat /\ 2 \in Nat
      OBVIOUS
    <3> QED BY <3>1 DEF Cancel, ReduceInPlace, CancelAndResubmit
  <2> QED BY <1>1, <2>1, EmitGrows
<1>3. CASE Cancel(id, agent, i, t) \/ CancelAndResubmit(id, agent, i, price, qty, t)
  <2>1. RemoveOrder(id, i)
    BY <1>3 DEF Cancel, CancelAndResubmit
  <2> QED BY <1>1, <1>2, <2>1, RemoveOrderKeeps
<1>4. CASE ReduceInPlace(id, agent, i, price, qty, t)
  <2> DEFINE s == locators[id].side
             p == locators[id].price
  <2>1. s \in Side /\ p \in Prices /\ levels[s][p] \in Lists /\ i \in 1 .. Len(levels[s][p])
    BY <1>1, LocatedFacts
  <2>2. qty \in 1 .. MaxQuantity
    <3>1. qty >= MinimumOrderSize
      BY <1>4 DEF ReduceInPlace, KeepsPriority, ValidQuantity
    <3> QED BY <3>1, ConfigAssumption, BoundsAssumption
  <2>3. /\ levels' = [levels EXCEPT ![s][p] = [levels[s][p] EXCEPT ![i].qty = qty]]
        /\ locators' = locators
    BY <1>4 DEF ReduceInPlace
  <2>4. Requantified
    <3> HIDE DEF s, p
    <3> QED BY <1>1, <2>1, <2>2, <2>3, QuantityChanged
  <2> QED BY <1>2, <2>4, RequantifiedKeeps
<1>5. QED
  BY <1>3, <1>4

(* The steps that leave every list alone.                                  *)
LEMMA OtherStepsKeep ==
    ASSUME QueueInv, UNCHANGED <<levels, locators>>,
           sequence' = sequence \/ \E n \in Nat : \E t, newTape : Emit(n, t, newTape)
    PROVE  Placed' /\ Found' /\ Queued'
<1>1. TypeOK
  BY DEF QueueInv, IInv
<1>2. sequence' \in Nat /\ sequence' >= sequence
  <2>1. sequence \in Nat
    BY <1>1 DEF TypeOK
  <2> QED BY <1>1, <2>1, EmitGrows
<1>3. Requantified
  BY <1>1, UnchangedBook
<1>4. QED
  BY <1>2, <1>3, RequantifiedKeeps

-----------------------------------------------------------------------------
(* The theorems.                                                           *)

LEMMA QueueInit == Init => QueueInv
<1> SUFFICES ASSUME Init PROVE QueueInv
  OBVIOUS
<1>1. IInv
  BY InitInv
<1>2. \A s \in Side, p \in Prices : levels[s][p] = <<>> /\ 1 .. Len(levels[s][p]) = {}
  <2>1. Len(<<>>) = 0 /\ 1 .. 0 = {}
    BY EmptySeq
  <2> QED BY <2>1 DEF Init
<1>3. Placed /\ Queued
  BY <1>2 DEF Placed, Queued
<1>4. Found
  BY DEF Init, Found, Active
<1>5. QED
  BY <1>1, <1>3, <1>4 DEF QueueInv

LEMMA QueueNext == QueueInv /\ [Next]_vars => QueueInv'
<1> SUFFICES ASSUME QueueInv, [Next]_vars PROVE QueueInv'
  OBVIOUS
<1>1. IInv'
  BY NextInv DEF QueueInv
<1>2. 1 \in Nat /\ Closing \in Nat /\ 1 + Closing \in Nat
  BY DEF Closing
<1>3. CASE Submit
  BY <1>2, <1>3, OtherStepsKeep, <1>1 DEF Submit, Reject, Accept, bookVars, QueueInv
<1>4. CASE Match
  <2>1. CASE \E price \in Prices : Fill(price) \/ StopNewest(price) \/ CancelOldest(price)
    <3> PICK price \in Prices : Fill(price) \/ StopNewest(price) \/ CancelOldest(price)
      BY <2>1
    <3>1. CASE StopNewest(price)
      BY <1>1, <1>2, <3>1, OtherStepsKeep DEF StopNewest, bookVars, QueueInv
    <3> QED BY <1>1, <3>1, FillKeeps, CancelOldestKeeps DEF QueueInv
  <2>2. CASE Rest
    BY <1>1, <2>2, RestJoins DEF QueueInv
  <2>3. CASE CancelRemainder \/ Complete
    BY <1>1, <1>2, <2>3, OtherStepsKeep DEF CancelRemainder, Complete, bookVars, QueueInv
  <2> QED BY <1>4, <2>1, <2>2, <2>3 DEF Match
<1>5. CASE Amend
  <2> PICK id \in OrderIds, agent \in Agents, i \in 1 .. Cardinality(OrderIds), t \in Times :
           \/ Cancel(id, agent, i, t)
           \/ \E price \in 0 .. MaxPrice, qty \in 0 .. MaxQuantity :
                  \/ ReduceInPlace(id, agent, i, price, qty, t)
                  \/ CancelAndResubmit(id, agent, i, price, qty, t)
    BY <1>5 DEF Amend
  <2>1. 0 \in 0 .. MaxPrice /\ 0 \in 0 .. MaxQuantity
    BY BoundsAssumption
  <2>2. Placed' /\ Found' /\ Queued'
    BY <2>1, AmendKeeps
  <2> QED BY <1>1, <2>2 DEF QueueInv
<1>6. CASE \E next \in BookStates, t \in Times : SetState(next, t)
  BY <1>1, <1>2, <1>6, OtherStepsKeep DEF SetState, QueueInv
<1>7. CASE UNCHANGED vars
  BY <1>1, <1>7, OtherStepsKeep DEF vars, QueueInv
<1>8. QED
  BY <1>3, <1>4, <1>5, <1>6, <1>7 DEF Next

(***************************************************************************)
(* In every reachable state each active order is in the list its locator   *)
(* names, once, and each resting order has that locator: whichever of      *)
(* submit(), cancel() and replace() erases a list node and an entry of     *)
(* locators_, the two stay one-to-one.                                     *)
(***************************************************************************)
THEOREM LocatorsAlwaysMatch == Spec => []LocatorsMatchBook
<1>1. QueueInv => LocatorsMatchBook
  <2> SUFFICES ASSUME QueueInv PROVE LocatorsMatchBook
    OBVIOUS
  <2>1. \A s \in Side, p \in Prices : \A i \in 1 .. Len(levels[s][p]) :
           locators[levels[s][p][i].id] = [side |-> s, price |-> p]
    BY DEF QueueInv, Placed
  <2>2. ASSUME NEW id \in OrderIds, Active(id)
        PROVE  \E i \in 1 .. Len(Level(locators[id])) :
                  /\ Level(locators[id])[i].id = id
                  /\ \A j \in 1 .. Len(Level(locators[id])) :
                         Level(locators[id])[j].id = id => j = i
    <3>1. PICK i \in 1 .. Len(Level(locators[id])) : Level(locators[id])[i].id = id
      BY <2>2 DEF QueueInv, Found
    <3>2. locators[id].side \in Side /\ locators[id].price \in Prices
      BY <2>2 DEF QueueInv, IInv, TypeOK, Active, Locator
    <3>3. \A j \in 1 .. Len(Level(locators[id])) :
             Level(locators[id])[j].id = Level(locators[id])[i].id => j = i
      BY <3>2 DEF QueueInv, Placed, Level
    <3> QED BY <3>1, <3>3
  <2> QED BY <2>1, <2>2 DEF LocatorsMatchBook
<1>2. QED
  BY QueueInit, QueueNext, <1>1, PTL DEF Spec

(***************************************************************************)
(* In every reachable state the accepted sequence increases along each     *)
(* list: partial fills and reductions keep an order's place, removals from *)
(* the middle keep the order of the rest, and a new arrival is the last.   *)
(***************************************************************************)
THEOREM TimePriorityHolds == Spec => []TimePriority
<1>1. QueueInv => TimePriority
  <2> SUFFICES ASSUME QueueInv PROVE TimePriority
    OBVIOUS
  <2>1. TypeOK /\ sequence \in Nat
    BY DEF QueueInv, IInv, TypeOK
  <2>2. \A s \in Side, p \in Prices : \A i \in 1 .. Len(levels[s][p]) :
           /\ levels[s][p][i].seq <= sequence
           /\ \A j \in 1 .. Len(levels[s][p]) : i < j => levels[s][p][i].seq < levels[s][p][j].seq
    BY <2>1, TypedOrders DEF QueueInv, Queued
  <2> QED BY <2>2 DEF TimePriority
<1>2. QED
  BY QueueInit, QueueNext, <1>1, PTL DEF Spec

-----------------------------------------------------------------------------
(* The resting orders as a set, as the exchange sees them.                 *)

Shown(side, price, order) ==
    [id |-> order.id, agent |-> order.agent, side |-> side, price |-> price,
     qty |-> order.qty, arrival |-> order.seq]

LEMMA ShownBy ==
    ASSUME NEW s \in Side, NEW p \in Prices, NEW o \in RestingOrder
    PROVE  /\ Shown(s, p, o).id = o.id /\ Shown(s, p, o).agent = o.agent
           /\ Shown(s, p, o).side = s /\ Shown(s, p, o).price = p
           /\ Shown(s, p, o).qty = o.qty /\ Shown(s, p, o).arrival = o.seq
BY DEF Shown

LEMMA RestingMembers ==
    ASSUME levels \in [Side -> [Prices -> Lists]], NEW x
    PROVE  x \in RestingOrders <=>
             \E s \in Side, p \in Prices : \E i \in 1 .. Len(levels[s][p]) :
                 x = Shown(s, p, levels[s][p][i])
<1>1. \A s \in Side, p \in Prices : DOMAIN levels[s][p] = 1 .. Len(levels[s][p])
  <2>1. ASSUME NEW q \in Lists PROVE DOMAIN q = 1 .. Len(q)
    BY <2>1, LenProperties DEF Lists
  <2> QED BY <2>1
<1>2. \A s \in Side : \A spot : spot \in Spots(s) <=>
         \E p \in Prices : \E i \in 1 .. Len(levels[s][p]) : spot = <<p, i>>
  BY <1>1 DEF Spots
<1>4. RestingOrders = UNION {{Shown(s, spot[1], OrderAt(s, spot)) : spot \in Spots(s)} : s \in Side}
  BY DEF RestingOrders, Shown
<1>5. \A s, p, i : Shown(s, <<p, i>>[1], OrderAt(s, <<p, i>>)) = Shown(s, p, levels[s][p][i])
  BY DEF OrderAt
<1>6. x \in RestingOrders <=> \E s \in Side : \E spot \in Spots(s) : x = Shown(s, spot[1], OrderAt(s, spot))
  BY <1>4
<1>7. ASSUME x \in RestingOrders
      PROVE  \E s \in Side, p \in Prices : \E i \in 1 .. Len(levels[s][p]) : x = Shown(s, p, levels[s][p][i])
  <2>1. PICK s \in Side : \E spot \in Spots(s) : x = Shown(s, spot[1], OrderAt(s, spot))
    BY <1>6, <1>7
  <2>2. PICK spot \in Spots(s) : x = Shown(s, spot[1], OrderAt(s, spot))
    BY <2>1
  <2>3. PICK p \in Prices : \E i \in 1 .. Len(levels[s][p]) : spot = <<p, i>>
    BY <1>2
  <2>4. PICK i \in 1 .. Len(levels[s][p]) : spot = <<p, i>>
    BY <2>3
  <2>5. x = Shown(s, p, levels[s][p][i])
    BY <1>5, <2>2, <2>4
  <2> QED BY <2>5
<1>8. ASSUME NEW s \in Side, NEW p \in Prices, NEW i \in 1 .. Len(levels[s][p]), x = Shown(s, p, levels[s][p][i])
      PROVE  x \in RestingOrders
  <2>1. <<p, i>> \in Spots(s)
    BY <1>2
  <2>2. x = Shown(s, <<p, i>>[1], OrderAt(s, <<p, i>>))
    BY <1>5, <1>8
  <2> QED BY ONLY <1>6, <2>1, <2>2
<1>9. QED
  BY <1>7, <1>8

(* The same for the book after a step.                                     *)
LEMMA RestingMembersAfter ==
    (levels \in [Side -> [Prices -> Lists]] =>
       \A x : x \in RestingOrders <=>
          \E s \in Side, p \in Prices : \E i \in 1 .. Len(levels[s][p]) :
              x = Shown(s, p, levels[s][p][i]))'
<1>1. levels \in [Side -> [Prices -> Lists]] =>
        \A x : x \in RestingOrders <=>
           \E s \in Side, p \in Prices : \E i \in 1 .. Len(levels[s][p]) :
               x = Shown(s, p, levels[s][p][i])
  BY RestingMembers
<1>2. QED
  BY <1>1, PTL

LEMMA RestingMembersNext ==
    ASSUME levels' \in [Side -> [Prices -> Lists]], NEW x
    PROVE  x \in RestingOrders' <=>
             \E s \in Side, p \in Prices : \E i \in 1 .. Len(levels'[s][p]) :
                 x = Shown(s, p, levels'[s][p][i])
BY RestingMembersAfter DEF Prices

(* An order of the set is known by its id.                                 *)
LEMMA KnownById ==
    ASSUME QueueInv, NEW s \in Side, NEW p \in Prices, NEW i \in 1 .. Len(levels[s][p]),
           NEW t \in Side, NEW r \in Prices, NEW j \in 1 .. Len(levels[t][r]),
           levels[s][p][i].id = levels[t][r][j].id
    PROVE  s = t /\ p = r /\ i = j
<1>1. [side |-> s, price |-> p] = [side |-> t, price |-> r]
  BY SMTT(20) DEF QueueInv, Placed
<1>2. s = t /\ p = r
  BY <1>1
<1>3. QED
  BY <1>2, PlacedInList DEF QueueInv

LEMMA RemovalShown ==
    ASSUME QueueInv, NEW s \in Side, NEW p \in Prices, NEW i \in 1 .. Len(levels[s][p]),
           Removal(s, p, i)
    PROVE  /\ Shown(s, p, levels[s][p][i]) \in RestingOrders
           /\ RestingOrders' = RestingOrders \ {Shown(s, p, levels[s][p][i])}
<1> DEFINE x == Shown(s, p, levels[s][p][i])
<1>1. TypeOK /\ levels \in [Side -> [Prices -> Lists]]
  BY TypedLevels DEF QueueInv, IInv
<1>2. \A t \in Side, r \in Prices : /\ Len(levels[t][r]) \in Nat
                                    /\ \A k \in 1 .. Len(levels[t][r]) : levels[t][r][k] \in RestingOrder
  BY <1>1, TypedLevels, TypedOrders
<1>3. x \in RestingOrders
  BY <1>1, RestingMembers
<1>4. ASSUME NEW y \in RestingOrders, y # x PROVE y \in RestingOrders'
  <2>1. PICK t \in Side, r \in Prices : \E j \in 1 .. Len(levels[t][r]) : y = Shown(t, r, levels[t][r][j])
    BY <1>1, RestingMembers
  <2>2. PICK j \in 1 .. Len(levels[t][r]) : y = Shown(t, r, levels[t][r][j])
    BY <2>1
  <2>3. \E k \in 1 .. Len(levels'[t][r]) : levels'[t][r][k] = levels[t][r][j]
    <3>1. CASE t = s /\ r = p
      <4>1. j # i
        BY <1>4, <2>2, <3>1
      <4>2. CASE j < i
        <5>1. j \in 1 .. Len(levels[s][p]) - 1
          BY <1>2, <3>1, <4>2
        <5> QED BY <3>1, <4>2, <5>1 DEF Removal
      <4>3. CASE j > i
        <5>1. j - 1 \in 1 .. Len(levels[s][p]) - 1 /\ ~ (j - 1 < i) /\ (j - 1) + 1 = j
          BY <1>2, <3>1, <4>3
        <5>2. levels'[s][p][j - 1] = levels[s][p][j]
          BY <5>1 DEF Removal
        <5> QED BY <3>1, <5>1, <5>2 DEF Removal
      <4>4. j < i \/ j > i
        BY <1>2, <4>1
      <4> QED BY <4>2, <4>3, <4>4
    <3>2. CASE ~(t = s /\ r = p)
      BY <3>2 DEF Removal
    <3> QED BY <3>1, <3>2
  <2> QED BY <2>2, <2>3, RestingMembersNext DEF Removal
<1>5. ASSUME NEW y \in RestingOrders' PROVE y \in RestingOrders /\ y # x
  <2>1. PICK t \in Side, r \in Prices : \E j \in 1 .. Len(levels'[t][r]) : y = Shown(t, r, levels'[t][r][j])
    BY RestingMembersNext DEF Removal
  <2>2. PICK j \in 1 .. Len(levels'[t][r]) : y = Shown(t, r, levels'[t][r][j])
    BY <2>1
  <2>3. \E k \in 1 .. Len(levels[t][r]) : /\ levels'[t][r][j] = levels[t][r][k]
                                           /\ ~(t = s /\ r = p /\ k = i)
    <3>1. CASE t = s /\ r = p
      <4>1. j \in 1 .. Len(levels[s][p]) - 1
        BY <3>1 DEF Removal
      <4>2. levels'[s][p][j] = IF j < i THEN levels[s][p][j] ELSE levels[s][p][j + 1]
        BY <4>1 DEF Removal
      <4>3. CASE j < i
        BY <1>2, <3>1, <4>1, <4>2, <4>3
      <4>4. CASE ~(j < i)
        <5>1. j + 1 \in 1 .. Len(levels[s][p]) /\ j + 1 # i
          BY <1>2, <4>1, <4>4
        <5> QED BY <3>1, <4>2, <4>4, <5>1
      <4> QED BY <4>3, <4>4
    <3>2. CASE ~(t = s /\ r = p)
      BY <3>2 DEF Removal
    <3> QED BY <3>1, <3>2
  <2>4. PICK k \in 1 .. Len(levels[t][r]) : /\ levels'[t][r][j] = levels[t][r][k]
                                             /\ ~(t = s /\ r = p /\ k = i)
    BY <2>3
  <2>5. y \in RestingOrders
    BY <1>1, <2>2, <2>4, RestingMembers
  <2>6. levels[t][r][k].id # levels[s][p][i].id
    BY <2>4, KnownById
  <2>7. y.id = levels[t][r][k].id /\ x.id = levels[s][p][i].id
    BY <1>2, <2>2, <2>4, ShownBy
  <2> QED BY <2>5, <2>6, <2>7
<1>6. QED
  <2> HIDE DEF x
  <2>1. RestingOrders' = RestingOrders \ {x}
    BY <1>4, <1>5
  <2> QED BY <1>3, <2>1 DEF x

(* The order at i now has the quantity n; no other order changed.          *)
LEMMA QuantityShown ==
    ASSUME QueueInv, NEW s \in Side, NEW p \in Prices, NEW i \in 1 .. Len(levels[s][p]),
           NEW n \in 1 .. MaxQuantity,
           levels' = [levels EXCEPT ![s][p] = [levels[s][p] EXCEPT ![i].qty = n]]
    PROVE  LET x == Shown(s, p, levels[s][p][i])
           IN  /\ x \in RestingOrders
               /\ RestingOrders' = (RestingOrders \ {x}) \cup {[x EXCEPT !.qty = n]}
<1> DEFINE x == Shown(s, p, levels[s][p][i])
           q == levels[s][p]
           changed == [q EXCEPT ![i].qty = n]
<1>1. TypeOK /\ levels \in [Side -> [Prices -> Lists]]
  BY TypedLevels DEF QueueInv, IInv
<1>2. \A t \in Side, r \in Prices : /\ levels[t][r] \in Lists
                                    /\ \A k \in 1 .. Len(levels[t][r]) : levels[t][r][k] \in RestingOrder
  BY <1>1, TypedLevels
<1>3. x \in RestingOrders
  BY <1>1, RestingMembers
<1>4. changed \in Lists /\ Len(changed) = Len(q)
      /\ changed[i] = [q[i] EXCEPT !.qty = n]
      /\ \A k \in 1 .. Len(q) : k # i => changed[k] = q[k]
  <2>1. changed \in Lists /\ Len(changed) = Len(q)
    <3> HIDE DEF q
    <3>1. q \in Lists /\ i \in 1 .. Len(q)
      BY <1>2 DEF q
    <3> QED BY <3>1, QuantityInList
  <2>2. DOMAIN q = 1 .. Len(q)
    BY <1>2, LenProperties DEF Lists
  <2> QED BY <2>1, <2>2
<1>5. /\ levels' \in [Side -> [Prices -> Lists]]
      /\ \A t \in Side, r \in Prices : levels'[t][r] = IF t = s /\ r = p THEN changed ELSE levels[t][r]
  <2> DEFINE after == [levels EXCEPT ![s][p] = changed]
  <2>1. levels' = after
    OBVIOUS
  <2> HIDE DEF changed
  <2>2. /\ after \in [Side -> [Prices -> Lists]]
        /\ \A t \in Side, r \in Prices : after[t][r] = IF t = s /\ r = p THEN changed ELSE levels[t][r]
    BY <1>1, <1>4, OneLevelChanges
  <2> HIDE DEF after
  <2> QED BY <2>1, <2>2
<1>6. Shown(s, p, changed[i]) = [x EXCEPT !.qty = n]
  <2>1. q[i] \in RestingOrder
    BY <1>2
  <2>2. changed[i].id = q[i].id /\ changed[i].agent = q[i].agent /\ changed[i].qty = n
        /\ changed[i].seq = q[i].seq
    <3> HIDE DEF q, changed
    <3> QED BY <1>4, <2>1 DEF RestingOrder
  <2> HIDE DEF q, changed
  <2>3. Shown(s, p, changed[i]) = [id |-> q[i].id, agent |-> q[i].agent, side |-> s, price |-> p,
                                   qty |-> n, arrival |-> q[i].seq]
    BY <2>2 DEF Shown
  <2>4. x = [id |-> q[i].id, agent |-> q[i].agent, side |-> s, price |-> p,
             qty |-> q[i].qty, arrival |-> q[i].seq]
    BY DEF Shown, q
  <2> HIDE DEF x
  <2> QED BY <2>3, <2>4
<1> HIDE DEF changed
<1>7. ASSUME NEW y \in RestingOrders, y # x PROVE y \in RestingOrders'
  <2>1. PICK t \in Side, r \in Prices : \E j \in 1 .. Len(levels[t][r]) : y = Shown(t, r, levels[t][r][j])
    BY <1>1, RestingMembers
  <2>2. PICK j \in 1 .. Len(levels[t][r]) : y = Shown(t, r, levels[t][r][j])
    BY <2>1
  <2>3. ~(t = s /\ r = p /\ j = i)
    BY <1>7, <2>2
  <2>4. j \in 1 .. Len(levels'[t][r]) /\ levels'[t][r][j] = levels[t][r][j]
    BY <1>4, <1>5, <2>3
  <2> QED BY <1>5, <2>2, <2>4, RestingMembersNext
<1>8. [x EXCEPT !.qty = n] \in RestingOrders'
  <2>1. i \in 1 .. Len(levels'[s][p]) /\ levels'[s][p][i] = changed[i]
    BY <1>4, <1>5
  <2> DEFINE y == [x EXCEPT !.qty = n]
  <2>2. y = Shown(s, p, levels'[s][p][i])
    BY <1>6, <2>1
  <2> HIDE DEF y
  <2>3. \E t \in Side, r \in Prices : \E k \in 1 .. Len(levels'[t][r]) : y = Shown(t, r, levels'[t][r][k])
    BY <2>1, <2>2
  <2> HIDE DEF x
  <2>4. y \in RestingOrders'
    BY ONLY <1>5, <2>3, RestingMembersNext
  <2> QED BY <2>4 DEF y
<1>9. ASSUME NEW y \in RestingOrders', y # [x EXCEPT !.qty = n] PROVE y \in RestingOrders /\ y # x
  <2>1. PICK t \in Side, r \in Prices : \E j \in 1 .. Len(levels'[t][r]) : y = Shown(t, r, levels'[t][r][j])
    <3> HIDE DEF x, q
    <3> QED BY ONLY <1>5, <1>9, RestingMembersNext
  <2>2. PICK j \in 1 .. Len(levels'[t][r]) : y = Shown(t, r, levels'[t][r][j])
    BY <2>1
  <2>3. ~(t = s /\ r = p /\ j = i)
    BY <1>5, <1>6, <1>9, <2>2
  <2>4. j \in 1 .. Len(levels[t][r]) /\ levels'[t][r][j] = levels[t][r][j]
    BY <1>4, <1>5, <2>3
  <2>5. y \in RestingOrders
    BY <1>1, <2>2, <2>4, RestingMembers
  <2>6. levels[t][r][j].id # levels[s][p][i].id
    BY SMTT(20), <2>3, <2>4, KnownById
  <2>7. y.id = levels[t][r][j].id /\ x.id = levels[s][p][i].id
    BY <1>2, <2>2, <2>4, ShownBy
  <2> QED BY <2>5, <2>6, <2>7
<1>10. QED
  <2> HIDE DEF x
  <2>1. RestingOrders' = (RestingOrders \ {x}) \cup {[x EXCEPT !.qty = n]}
    BY <1>7, <1>8, <1>9
  <2> QED BY <1>3, <2>1 DEF x

(* An order that joins a list joins the set.                               *)
LEMMA JoiningShown ==
    ASSUME QueueInv, NEW s \in Side, NEW p \in Prices, NEW order, Joining(s, p, order)
    PROVE  RestingOrders' = RestingOrders \cup {Shown(s, p, order)}
<1> DEFINE x == Shown(s, p, order)
<1>1. TypeOK /\ levels \in [Side -> [Prices -> Lists]]
  BY TypedLevels DEF QueueInv, IInv
<1>2. \A t \in Side, r \in Prices : Len(levels[t][r]) \in Nat
  BY <1>1, TypedOrders
<1>3. ASSUME NEW y \in RestingOrders PROVE y \in RestingOrders'
  <2>1. PICK t \in Side, r \in Prices : \E j \in 1 .. Len(levels[t][r]) : y = Shown(t, r, levels[t][r][j])
    BY <1>1, RestingMembers
  <2>2. PICK j \in 1 .. Len(levels[t][r]) : y = Shown(t, r, levels[t][r][j])
    BY <2>1
  <2>3. j \in 1 .. Len(levels'[t][r]) /\ levels'[t][r][j] = levels[t][r][j]
    BY <1>2 DEF Joining
  <2> QED BY <2>2, <2>3, RestingMembersNext DEF Joining
<1>4. x \in RestingOrders'
  <2>1. Len(levels[s][p]) + 1 \in 1 .. Len(levels'[s][p])
    BY <1>2 DEF Joining
  <2> QED BY <2>1, RestingMembersNext DEF Joining
<1>5. ASSUME NEW y \in RestingOrders', y # x PROVE y \in RestingOrders
  <2>1. PICK t \in Side, r \in Prices : \E j \in 1 .. Len(levels'[t][r]) : y = Shown(t, r, levels'[t][r][j])
    BY RestingMembersNext DEF Joining
  <2>2. PICK j \in 1 .. Len(levels'[t][r]) : y = Shown(t, r, levels'[t][r][j])
    BY <2>1
  <2>3. ~(t = s /\ r = p /\ j = Len(levels[s][p]) + 1)
    BY <1>5, <2>2 DEF Joining
  <2>4. j \in 1 .. Len(levels[t][r]) /\ levels'[t][r][j] = levels[t][r][j]
    BY <1>2, <2>3 DEF Joining
  <2> QED BY <1>1, <2>2, <2>4, RestingMembers
<1>6. QED
  <2> HIDE DEF x
  <2>1. RestingOrders' = RestingOrders \cup {x}
    BY <1>3, <1>4, <1>5
  <2> QED BY <2>1 DEF x

-----------------------------------------------------------------------------
(* The taker as the exchange's incoming order.                             *)

Incoming(t) ==
    [id |-> t.req.id, agent |-> t.req.agent, side |-> t.req.side,
     price |-> t.req.price, qty |-> t.remaining,
     mayRest |-> t.req.type = "limit" /\ t.req.tif = "good_til_cancel" /\ ~t.stopped,
     accepts |-> {p \in Prices : ~t.stopped /\ Accepts(t.req, p)},
     allOrNothing |-> t.req.tif = "fill_or_kill"]

LEMMA IncomingIs ==
    /\ IncomingOrder = IF Idle THEN NoTaker ELSE Incoming(taker)
    /\ IncomingOrder' = IF Idle' THEN NoTaker ELSE Incoming(taker')
<1>1. IncomingOrder = IF Idle THEN NoTaker ELSE Incoming(taker)
  BY DEF IncomingOrder, Incoming, Restable
<1>2. IncomingOrder' = IF Idle' THEN NoTaker ELSE Incoming(taker')
  BY DEF IncomingOrder, Incoming, Restable, Prices, Accepts
<1>3. QED
  BY <1>1, <1>2

LEMMA IncomingFacts ==
    ASSUME NEW t \in Taker
    PROVE  /\ Incoming(t) # NoTaker
           /\ Incoming(t).id = t.req.id /\ Incoming(t).agent = t.req.agent
           /\ Incoming(t).side = t.req.side /\ Incoming(t).price = t.req.price
           /\ Incoming(t).qty = t.remaining
           /\ Incoming(t).mayRest <=> (t.req.type = "limit" /\ t.req.tif = "good_til_cancel" /\ ~t.stopped)
           /\ Incoming(t).allOrNothing <=> t.req.tif = "fill_or_kill"
           /\ \A p : p \in Incoming(t).accepts <=> p \in Prices /\ ~t.stopped /\ Accepts(t.req, p)
           /\ \A n : Incoming([t EXCEPT !.remaining = n]) = [Incoming(t) EXCEPT !.qty = n]
           /\ Incoming([t EXCEPT !.stopped = TRUE])
                 = [Incoming(t) EXCEPT !.accepts = {}, !.mayRest = FALSE]
           /\ Incoming([t EXCEPT !.stopped = t.stopped]) = Incoming(t)
<1>1. t.req \in Request /\ t.remaining \in 0 .. MaxQuantity /\ t.stopped \in BOOLEAN
      /\ t.replacing \in BOOLEAN
  BY DEF Taker
<1>2. t.req.id \in OrderIds /\ t.req.agent \in Agents /\ t.req.side \in Side /\ t.req.price \in 0 .. MaxPrice
  BY <1>1 DEF Request
<1> DEFINE may == t.req.type = "limit" /\ t.req.tif = "good_til_cancel" /\ ~t.stopped
           prices == {p \in Prices : ~t.stopped /\ Accepts(t.req, p)}
           all == t.req.tif = "fill_or_kill"
<1>3. may \in BOOLEAN /\ all \in BOOLEAN /\ prices \in SUBSET Prices
  OBVIOUS
<1>4. Incoming(t) = [id |-> t.req.id, agent |-> t.req.agent, side |-> t.req.side,
                     price |-> t.req.price, qty |-> t.remaining, mayRest |-> may,
                     accepts |-> prices, allOrNothing |-> all]
  BY DEF Incoming
<1>5. Incoming(t) # NoTaker
  <2> HIDE DEF may, prices, all
  <2>1. Incoming(t) \in [id : OrderIds, agent : Agents, side : Side, price : 0 .. MaxPrice,
                    qty : 0 .. MaxQuantity, mayRest : BOOLEAN, accepts : SUBSET Prices,
                    allOrNothing : BOOLEAN]
    BY <1>1, <1>2, <1>3, <1>4
  <2> QED BY <2>1, NoTakerAssumption
<1>6. \A n : Incoming([t EXCEPT !.remaining = n]) = [Incoming(t) EXCEPT !.qty = n]
  <2> SUFFICES ASSUME NEW n PROVE Incoming([t EXCEPT !.remaining = n]) = [Incoming(t) EXCEPT !.qty = n]
    OBVIOUS
  <2> DEFINE u == [t EXCEPT !.remaining = n]
  <2>1. u.req = t.req /\ u.remaining = n /\ u.stopped = t.stopped
    BY DEF Taker
  <2> HIDE DEF u
  <2>2. Incoming(u) = [id |-> t.req.id, agent |-> t.req.agent, side |-> t.req.side,
                     price |-> t.req.price, qty |-> n, mayRest |-> may,
                     accepts |-> prices, allOrNothing |-> all]
    BY <2>1 DEF Incoming
  <2> HIDE DEF may, prices, all
  <2>3. Incoming(u) = [Incoming(t) EXCEPT !.qty = n]
    BY <1>4, <2>2
  <2> QED BY <2>3 DEF u
<1>7. Incoming([t EXCEPT !.stopped = TRUE]) = [Incoming(t) EXCEPT !.accepts = {}, !.mayRest = FALSE]
  <2> DEFINE u == [t EXCEPT !.stopped = TRUE]
             mayU == u.req.type = "limit" /\ u.req.tif = "good_til_cancel" /\ ~u.stopped
             pricesU == {p \in Prices : ~u.stopped /\ Accepts(u.req, p)}
  <2>1. u.req = t.req /\ u.remaining = t.remaining /\ u.stopped = TRUE
    BY DEF Taker
  <2>2. mayU = FALSE /\ pricesU = {}
    BY <2>1
  <2>3. Incoming(u) = [id |-> u.req.id, agent |-> u.req.agent, side |-> u.req.side,
                     price |-> u.req.price, qty |-> u.remaining, mayRest |-> mayU,
                     accepts |-> pricesU, allOrNothing |-> u.req.tif = "fill_or_kill"]
    BY DEF Incoming
  <2> HIDE DEF u, mayU, pricesU
  <2>4. Incoming(u) = [id |-> t.req.id, agent |-> t.req.agent, side |-> t.req.side,
                     price |-> t.req.price, qty |-> t.remaining, mayRest |-> FALSE,
                     accepts |-> {}, allOrNothing |-> all]
    BY <2>1, <2>2, <2>3
  <2> HIDE DEF may, prices, all
  <2>5. Incoming(u) = [Incoming(t) EXCEPT !.accepts = {}, !.mayRest = FALSE]
    <3> DEFINE i == Incoming(t)  j == [i EXCEPT !.accepts = {}]
    <3>1. j = [id |-> t.req.id, agent |-> t.req.agent, side |-> t.req.side,
               price |-> t.req.price, qty |-> t.remaining, mayRest |-> may,
               accepts |-> {}, allOrNothing |-> all]
      BY <1>4
    <3>2. [j EXCEPT !.mayRest = FALSE] = Incoming(u)
      <4>1. \A b : [j EXCEPT !.mayRest = b] =
                [id |-> t.req.id, agent |-> t.req.agent, side |-> t.req.side,
                 price |-> t.req.price, qty |-> t.remaining, mayRest |-> b,
                 accepts |-> {}, allOrNothing |-> all]
        <5> HIDE DEF j
        <5> QED BY <3>1
      <4> HIDE DEF j
      <4> QED BY <2>4, <4>1, Zenon
    <3>3. [i EXCEPT !.accepts = {}, !.mayRest = FALSE] = [j EXCEPT !.mayRest = FALSE]
      <4> HIDE DEF i
      <4> QED OBVIOUS
    <3> QED BY <3>2, <3>3
  <2> QED BY <2>5 DEF u
<1>8. Incoming([t EXCEPT !.stopped = t.stopped]) = Incoming(t)
  <2>1. [t EXCEPT !.stopped = t.stopped] = t
    BY DEF Taker
  <2> QED BY <2>1
<1>9. \A p : p \in Incoming(t).accepts <=> p \in Prices /\ ~t.stopped /\ Accepts(t.req, p)
  <2>1. Incoming(t).accepts = prices
    BY <1>4
  <2> QED BY <2>1
<1>10. /\ Incoming(t).id = t.req.id /\ Incoming(t).agent = t.req.agent
       /\ Incoming(t).side = t.req.side /\ Incoming(t).price = t.req.price
       /\ Incoming(t).qty = t.remaining
       /\ Incoming(t).mayRest = may
       /\ Incoming(t).allOrNothing = all
  <2> HIDE DEF may, prices, all
  <2> QED BY <1>4
<1>11. QED
  BY <1>5, <1>6, <1>7, <1>8, <1>9, <1>10

(* The exchange waits for an order exactly when no call is in the loop.    *)
LEMMA IdleAlike == ASSUME TypeOK PROVE Exchange!Idle <=> Idle
<1>1. ~Idle => taker \in Taker
  BY DEF TypeOK, Idle
<1>2. QED
  BY <1>1, IncomingIs, IncomingFacts DEF Exchange!Idle

(* The next maker of the loop is the exchange's counterpart.               *)
LEMMA FrontIsCounterpart ==
    ASSUME QueueInv, NEW price \in Prices, Matching(price)
    PROVE  LET side == Opposite(taker.req.side)
           IN  Exchange!IsCounterpart(Shown(side, price, Head(levels[side][price])))
<1> DEFINE side == Opposite(taker.req.side)
           q == levels[side][price]
           x == Shown(side, price, Head(q))
<1>1. TypeOK /\ sequence \in Nat
  BY DEF QueueInv, IInv, TypeOK
<1>2. /\ taker \in Taker /\ taker.req \in Request /\ side \in Side /\ q # <<>>
      /\ Head(q) \in RestingOrder /\ ~Idle
  BY <1>1, MatchingFacts DEF Matching
<1>3. \A t \in Side, r \in Prices : /\ levels[t][r] \in Lists /\ Len(levels[t][r]) \in Nat
                                    /\ \A k \in 1 .. Len(levels[t][r]) : levels[t][r][k] \in RestingOrder
  BY <1>1, TypedLevels, TypedOrders
<1>4. levels \in [Side -> [Prices -> Lists]]
  BY <1>1, TypedLevels
<1>5. Head(q) = q[1] /\ 1 \in 1 .. Len(q)
  <2>1. q \in Lists
    BY <1>2, <1>3
  <2> HIDE DEF q
  <2> QED BY <1>2, <2>1, TailOfList
<1>6. IncomingOrder = Incoming(taker)
  BY <1>2, IncomingIs
<1>7. IncomingOrder.side = taker.req.side
      /\ \A p : p \in IncomingOrder.accepts <=> p \in Prices /\ ~taker.stopped /\ Accepts(taker.req, p)
  BY <1>2, <1>6, IncomingFacts
<1>8. side # taker.req.side /\ \A t \in Side : t # taker.req.side => t = side
  BY <1>2 DEF Opposite, Side, Request
<1>9. x \in RestingOrders
  BY <1>2, <1>4, <1>5, RestingMembers
<1>10. x \in Exchange!Acceptable
  <2>1. x.side = side /\ x.price = price
    BY <1>2, ShownBy
  <2> HIDE DEF x, side
  <2> QED BY <1>7, <1>8, <1>9, <2>1 DEF Exchange!Acceptable, Matching
<1>11. ASSUME NEW y \in Exchange!Acceptable, y # x PROVE Exchange!Before(x, y)
  <2>1. y \in RestingOrders /\ y.side # taker.req.side
    BY <1>7 DEF Exchange!Acceptable
  <2>2. PICK t \in Side, r \in Prices : \E j \in 1 .. Len(levels[t][r]) : y = Shown(t, r, levels[t][r][j])
    BY <1>4, <2>1, RestingMembers
  <2>3. PICK j \in 1 .. Len(levels[t][r]) : y = Shown(t, r, levels[t][r][j])
    BY <2>2
  <2>4. y.side = t /\ y.price = r /\ y.arrival = levels[t][r][j].seq
    BY <1>3, <2>3, ShownBy
  <2>5. t = side
    BY <1>8, <2>1, <2>4
  <2>6. x.side = side /\ x.price = price /\ x.arrival = q[1].seq
    BY <1>2, <1>5, ShownBy
  <2>7. levels[side][r] # <<>>
    <3>1. levels[side][r] \in Lists /\ j \in 1 .. Len(levels[side][r])
      BY <1>2, <1>3, <2>3, <2>5
    <3>2. ASSUME NEW l \in Lists, NEW k \in 1 .. Len(l) PROVE l # <<>>
      BY EmptySeq DEF Lists
    <3> QED BY <3>1, <3>2
  <2>8. r = price \/ Better(side, price, r)
    BY <2>7 DEF Matching, IsBest
  <2>9. CASE r = price
    <3>1. j # 1 /\ 1 < j
      BY <1>3, <1>5, <1>11, <2>3, <2>5, <2>9
    <3>2. q[1].seq < levels[t][r][j].seq
      BY <1>2, <1>5, <2>3, <2>5, <2>9, <3>1 DEF QueueInv, Queued
    <3> HIDE DEF x, q, side
    <3> QED BY <2>4, <2>6, <2>9, <3>2 DEF Exchange!Before
  <2>10. CASE Better(side, price, r)
    <3> HIDE DEF x, q, side
    <3> QED BY <2>4, <2>6, <2>10 DEF Exchange!Before, Better
  <2> QED BY <2>8, <2>9, <2>10
<1>12. QED
  <2> HIDE DEF x
  <2>1. Exchange!IsCounterpart(x)
    BY <1>10, <1>11 DEF Exchange!IsCounterpart
  <2> QED BY <2>1 DEF x

-----------------------------------------------------------------------------
(* Each step of the book is a step of the exchange, or none.               *)

LEMMA UnchangedShown == levels' = levels => RestingOrders' = RestingOrders
BY DEF RestingOrders, Spots, OrderAt

(* What rests is active.                                                   *)
LEMMA RestingActive ==
    ASSUME QueueInv, NEW x \in RestingOrders
    PROVE  x.id \in OrderIds /\ Active(x.id)
<1>1. TypeOK /\ levels \in [Side -> [Prices -> Lists]]
  BY TypedLevels DEF QueueInv, IInv
<1>2. PICK s \in Side, p \in Prices : \E i \in 1 .. Len(levels[s][p]) : x = Shown(s, p, levels[s][p][i])
  BY <1>1, RestingMembers
<1>3. PICK i \in 1 .. Len(levels[s][p]) : x = Shown(s, p, levels[s][p][i])
  BY <1>2
<1>4. levels[s][p][i] \in RestingOrder /\ levels[s][p][i].id \in OrderIds
  BY <1>1, TypedLevels, TypedOrders
<1>5. x.id = levels[s][p][i].id
  BY <1>3, <1>4, ShownBy
<1>6. locators[levels[s][p][i].id] = [side |-> s, price |-> p]
  BY DEF QueueInv, Placed
<1>7. [side |-> s, price |-> p] \in Locator
  BY DEF Locator
<1>8. QED
  BY <1>4, <1>5, <1>6, <1>7, AbsentAssumption DEF Active

LEMMA RejectStutters ==
    ASSUME NEW req, NEW t, Reject(req, t) PROVE UNCHANGED Exchange!vars
<1>1. UNCHANGED <<state, levels, taker, stpMode>>
  BY DEF Reject, bookVars
<1>2. RestingOrders' = RestingOrders
  BY <1>1, UnchangedShown
<1>3. IncomingOrder' = IncomingOrder
  BY <1>1 DEF IncomingOrder, Idle, Restable, Prices, Accepts
<1>4. QED
  BY <1>1, <1>2, <1>3 DEF Exchange!vars

LEMMA AcceptAdmits ==
    ASSUME QueueInv, NEW req \in Request, NEW t \in Times, Accept(req, t)
    PROVE  Exchange!Admit
<1>1. TypeOK /\ TypeOK'
  BY SubmitInv DEF QueueInv, IInv
<1>2. /\ Idle /\ state = "open" /\ ~Active(req.id) /\ req.qty > 0
      /\ UNCHANGED <<state, levels>>
      /\ taker' = [req |-> req, remaining |-> req.qty, stopped |-> FALSE, replacing |-> FALSE]
  <2>1. req.qty >= MinimumOrderSize
    BY DEF Accept, Admissible, ValidQuantity
  <2>2. req.qty > 0
    BY <2>1, ConfigAssumption, BoundsAssumption DEF Request
  <2> QED BY <2>2 DEF Accept, Admissible, bookVars
<1>3. taker' \in Taker
  BY <1>2, BoundsAssumption DEF Taker, Request
<1>4. ~Idle' /\ taker'.req = req /\ taker'.remaining = req.qty
  BY <1>2, <1>3, AbsentAssumption DEF Idle
<1>5. IncomingOrder' = Incoming(taker')
  BY <1>4, IncomingIs
<1>6. IncomingOrder' # NoTaker /\ IncomingOrder'.qty = req.qty /\ IncomingOrder'.id = req.id
  BY <1>3, <1>4, <1>5, IncomingFacts
<1>7. \A x \in RestingOrders : x.id # IncomingOrder'.id
  BY <1>2, <1>6, RestingActive
<1>8. Exchange!Enter(RestingOrders)
  BY <1>2, <1>6, <1>7 DEF Exchange!Enter
<1>9. RestingOrders' = RestingOrders
  BY <1>2, UnchangedShown
<1>10. Exchange!Idle
  BY <1>1, <1>2, IdleAlike
<1>11. QED
  BY <1>2, <1>8, <1>9, <1>10 DEF Exchange!Admit

LEMMA FillTrades ==
    ASSUME QueueInv, NEW price \in Prices, Fill(price)
    PROVE  Exchange!Trade
<1> DEFINE side == Opposite(taker.req.side)
           list == levels[side][price]
           maker == Head(list)
           matched == IF taker.remaining <= maker.qty THEN taker.remaining ELSE maker.qty
           x == Shown(side, price, maker)
<1>1. TypeOK /\ Matching(price) /\ ~Idle
  BY DEF QueueInv, IInv, Fill, Matching
<1>2. /\ side \in Side /\ list # <<>> /\ maker \in RestingOrder
      /\ taker \in Taker /\ taker.remaining \in 1 .. MaxQuantity
  BY <1>1, MatchingFacts
<1>3. maker.qty \in 1 .. MaxQuantity /\ matched \in 1 .. MaxQuantity /\ matched <= maker.qty
  <2>1. maker.qty \in 1 .. MaxQuantity
    BY <1>2 DEF RestingOrder
  <2> HIDE DEF maker
  <2> QED BY <1>2, <2>1, BoundsAssumption
<1>4. list \in Lists /\ 1 \in 1 .. Len(list) /\ maker = list[1] /\ Head(list) = list[1]
  <2>1. list \in Lists
    BY <1>1, <1>2, TypedLevels
  <2> HIDE DEF list
  <2>2. 1 \in 1 .. Len(list) /\ Head(list) = list[1]
    BY <1>2, <2>1, TailOfList
  <2> QED BY <2>1, <2>2
<1>5. /\ maker.agent # taker.req.agent
      /\ taker' = [taker EXCEPT !.remaining = @ - matched]
      /\ state' = state
      /\ matched = maker.qty => RemoveFront(side, price)
      /\ matched # maker.qty => levels' = [levels EXCEPT ![side][price][1].qty = @ - matched]
  BY DEF Fill
<1>6. /\ x.qty = maker.qty /\ x.agent = maker.agent
  BY <1>2, ShownBy
<1>7. Exchange!IsCounterpart(x)
  BY <1>1, FrontIsCounterpart
<1>8. IncomingOrder = Incoming(taker) /\ IncomingOrder.qty = taker.remaining
      /\ IncomingOrder.agent = taker.req.agent
  BY <1>1, <1>2, IncomingIs, IncomingFacts
<1>9. IncomingOrder' = [IncomingOrder EXCEPT !.qty = @ - matched]
  <2>1. taker' \in Taker
    <3>1. taker.remaining - matched \in 0 .. MaxQuantity
      BY <1>2, <1>3, BoundsAssumption
    <3> HIDE DEF matched
    <3> QED BY <1>2, <1>5, <3>1 DEF Taker
  <2>2. ~Idle'
    BY <2>1, AbsentAssumption DEF Idle
  <2>3. IncomingOrder' = Incoming(taker')
    BY <2>2, IncomingIs
  <2>4. taker' = [taker EXCEPT !.remaining = taker.remaining - matched]
    BY <1>2, <1>5 DEF Taker
  <2>5. Incoming([taker EXCEPT !.remaining = taker.remaining - matched])
           = [Incoming(taker) EXCEPT !.qty = taker.remaining - matched]
    BY <1>2, IncomingFacts
  <2>6. \A i : i.qty = taker.remaining => [i EXCEPT !.qty = @ - matched] = [i EXCEPT !.qty = taker.remaining - matched]
    OBVIOUS
  <2> HIDE DEF matched
  <2> QED BY <1>8, <2>3, <2>4, <2>5, <2>6
<1>10. x \in RestingOrders
       /\ RestingOrders' = (RestingOrders \ {x}) \cup
                    (IF matched < x.qty THEN {[x EXCEPT !.qty = @ - matched]} ELSE {})
  <2>1. CASE matched = maker.qty
    <3>1. Removal(side, price, 1)
      BY <1>1, <1>2, <1>5, <2>1, FrontRemoved
    <3>2. Shown(side, price, list[1]) \in RestingOrders
          /\ RestingOrders' = RestingOrders \ {Shown(side, price, list[1])}
      <4> HIDE DEF side
      <4> QED BY <1>2, <1>4, <3>1, RemovalShown
    <3>3. x = Shown(side, price, list[1]) /\ ~(matched < x.qty)
      <4>1. x = Shown(side, price, list[1])
        BY <1>4
      <4> HIDE DEF x, matched, side, list, maker
      <4>2. ~(matched < x.qty)
        BY <1>3, <1>6, <2>1
      <4> QED BY <4>1, <4>2
    <3> HIDE DEF x, matched, side, list
    <3> QED BY <3>2, <3>3
  <2>2. CASE matched # maker.qty
    <3>1. maker.qty - matched \in 1 .. MaxQuantity /\ matched < x.qty
      <4> HIDE DEF maker, matched, x
      <4> QED BY <1>3, <1>6, <2>2, BoundsAssumption
    <3>2. levels' = [levels EXCEPT ![side][price] = [list EXCEPT ![1].qty = maker.qty - matched]]
      <4>1. levels' = [levels EXCEPT ![side][price][1].qty = @ - matched]
        BY <1>5, <2>2
      <4>2. levels \in [Side -> [Prices -> Lists]]
        BY <1>1, TypedLevels
      <4> HIDE DEF matched
      <4> QED BY <1>2, <1>4, <4>1, <4>2
    <3>3. LET y == Shown(side, price, levels[side][price][1])
          IN  /\ y \in RestingOrders
              /\ RestingOrders' = (RestingOrders \ {y}) \cup {[y EXCEPT !.qty = maker.qty - matched]}
      <4> DEFINE n == maker.qty - matched
      <4> HIDE DEF side, n
      <4>1. n \in 1 .. MaxQuantity /\ side \in Side /\ 1 \in 1 .. Len(levels[side][price])
            /\ levels' = [levels EXCEPT ![side][price] = [levels[side][price] EXCEPT ![1].qty = n]]
        BY <1>2, <1>4, <3>1, <3>2 DEF n
      <4>2. LET y == Shown(side, price, levels[side][price][1])
            IN  /\ y \in RestingOrders
                /\ RestingOrders' = (RestingOrders \ {y}) \cup {[y EXCEPT !.qty = n]}
        BY <4>1, QuantityShown
      <4> QED BY <4>2 DEF n
    <3>4. x = Shown(side, price, levels[side][price][1])
      BY <1>4
    <3>5. [x EXCEPT !.qty = @ - matched] = [x EXCEPT !.qty = maker.qty - matched]
      BY <1>6
    <3> HIDE DEF x, matched, side, maker
    <3> QED BY <3>1, <3>3, <3>4, <3>5
  <2> QED BY <2>1, <2>2
<1>11. LET q == IF x.qty <= IncomingOrder.qty THEN x.qty ELSE IncomingOrder.qty IN q = matched
  <2>1. x.qty = maker.qty /\ IncomingOrder.qty = taker.remaining
    BY <1>6, <1>8
  <2>2. maker.qty \in Nat /\ taker.remaining \in Nat
    BY <1>2, <1>3
  <2> HIDE DEF x, maker
  <2> QED BY <2>1, <2>2
<1>12. ~Exchange!Idle /\ IncomingOrder.qty > 0
  BY <1>1, <1>2, <1>8, IdleAlike
<1>13. (state = "open")' = (state = "open")
  BY <1>5
<1>14. QED
  <2> HIDE DEF x, matched, maker
  <2> QED BY <1>5, <1>6, <1>7, <1>8, <1>9, <1>10, <1>11, <1>12, <1>13 DEF Exchange!Trade

LEMMA StopNewestPrevents ==
    ASSUME QueueInv, NEW price \in Prices, StopNewest(price)
    PROVE  Exchange!PreventSelfTrade
<1> DEFINE side == Opposite(taker.req.side)
           x == Shown(side, price, Head(levels[side][price]))
<1>1. TypeOK /\ Matching(price) /\ ~Idle
  BY DEF QueueInv, IInv, StopNewest, Matching
<1>2. /\ side \in Side /\ levels[side][price] # <<>> /\ Head(levels[side][price]) \in RestingOrder
      /\ taker \in Taker /\ taker.remaining \in 1 .. MaxQuantity
  BY <1>1, MatchingFacts
<1>3. /\ Head(levels[side][price]).agent = taker.req.agent
      /\ taker' = [taker EXCEPT !.stopped = TRUE]
      /\ UNCHANGED <<state, levels>>
  BY DEF StopNewest, bookVars
<1>4. x.agent = taker.req.agent
  BY <1>2, <1>3, ShownBy
<1>5. Exchange!IsCounterpart(x)
  BY <1>1, FrontIsCounterpart
<1>6. IncomingOrder = Incoming(taker) /\ IncomingOrder.qty = taker.remaining
      /\ IncomingOrder.agent = taker.req.agent
  BY <1>1, <1>2, IncomingIs, IncomingFacts
<1>7. IncomingOrder' = [IncomingOrder EXCEPT !.accepts = {}, !.mayRest = FALSE]
  <2>1. taker' \in Taker
    BY <1>2, <1>3 DEF Taker
  <2>2. ~Idle'
    BY <2>1, AbsentAssumption DEF Idle
  <2>3. IncomingOrder' = Incoming([taker EXCEPT !.stopped = TRUE])
    BY <1>3, <2>2, IncomingIs
  <2>4. Incoming([taker EXCEPT !.stopped = TRUE]) = [Incoming(taker) EXCEPT !.accepts = {}, !.mayRest = FALSE]
    BY <1>2, IncomingFacts
  <2> QED BY <1>6, <2>3, <2>4
<1>8. RestingOrders' = RestingOrders
  BY <1>3, UnchangedShown
<1>9. ~Exchange!Idle /\ IncomingOrder.qty > 0
  BY <1>1, <1>2, <1>6, IdleAlike
<1>10. x \in RestingOrders
  BY <1>5 DEF Exchange!IsCounterpart, Exchange!Acceptable
<1>11. QED
  <2> HIDE DEF x
  <2>1. (state = "open")' = (state = "open")
    BY <1>3
  <2> QED BY <1>4, <1>5, <1>6, <1>7, <1>8, <1>9, <1>10, <2>1 DEF Exchange!PreventSelfTrade

LEMMA CancelOldestPrevents ==
    ASSUME QueueInv, NEW price \in Prices, CancelOldest(price)
    PROVE  Exchange!PreventSelfTrade
<1> DEFINE side == Opposite(taker.req.side)
           list == levels[side][price]
           x == Shown(side, price, Head(list))
<1>1. TypeOK /\ Matching(price) /\ ~Idle
  BY DEF QueueInv, IInv, CancelOldest, Matching
<1>2. /\ side \in Side /\ list # <<>> /\ Head(list) \in RestingOrder
      /\ taker \in Taker /\ taker.remaining \in 1 .. MaxQuantity
  BY <1>1, MatchingFacts
<1>3. /\ Head(list).agent = taker.req.agent
      /\ RemoveFront(side, price)
      /\ taker' = [taker EXCEPT !.stopped = (stpMode = "cancel_both")]
      /\ state' = state
  BY DEF CancelOldest
<1>4. x.agent = taker.req.agent
  BY <1>2, <1>3, ShownBy
<1>5. Exchange!IsCounterpart(x)
  BY <1>1, FrontIsCounterpart
<1>6. IncomingOrder = Incoming(taker) /\ IncomingOrder.qty = taker.remaining
      /\ IncomingOrder.agent = taker.req.agent
  BY <1>1, <1>2, IncomingIs, IncomingFacts
<1>7. IncomingOrder' \in {IncomingOrder, [IncomingOrder EXCEPT !.accepts = {}, !.mayRest = FALSE]}
  <2>1. taker' \in Taker
    BY <1>2, <1>3, Zenon DEF Taker
  <2>2. ~Idle'
    BY <2>1, AbsentAssumption DEF Idle
  <2>3. IncomingOrder' = Incoming(taker')
    BY <2>2, IncomingIs
  <2>4. CASE stpMode = "cancel_both"
    <3>1. taker' = [taker EXCEPT !.stopped = TRUE]
      BY <1>3, <2>4, Zenon
    <3> QED BY <1>2, <1>6, <2>3, <3>1, IncomingFacts
  <2>5. CASE stpMode # "cancel_both"
    <3>1. taker.stopped = FALSE
      BY <1>1, <1>2 DEF Matching, Taker
    <3>2. taker' = [taker EXCEPT !.stopped = taker.stopped]
      <4>1. (stpMode = "cancel_both") = FALSE
        BY <2>5
      <4> QED BY <1>3, <3>1, <4>1, Zenon
    <3> QED BY <1>2, <1>6, <2>3, <3>2, IncomingFacts
  <2> QED BY <2>4, <2>5
<1>8. RestingOrders' = RestingOrders \ {x}
  <2>1. 1 \in 1 .. Len(list) /\ Removal(side, price, 1)
    BY <1>1, <1>2, <1>3, FrontRemoved
  <2>2. Head(list) = list[1]
    <3>1. list \in Lists
      BY <1>1, <1>2, TypedLevels
    <3> HIDE DEF list
    <3> QED BY <1>2, <3>1, TailOfList
  <2>3. RestingOrders' = RestingOrders \ {Shown(side, price, list[1])}
    <3> HIDE DEF side
    <3> QED BY <1>2, <2>1, RemovalShown
  <2> QED BY <2>2, <2>3
<1>9. ~Exchange!Idle /\ IncomingOrder.qty > 0
  BY <1>1, <1>2, <1>6, IdleAlike
<1>10. x \in RestingOrders
  BY <1>5 DEF Exchange!IsCounterpart, Exchange!Acceptable
<1>11. QED
  <2> HIDE DEF x
  <2>1. (state = "open")' = (state = "open")
    BY <1>3
  <2> QED BY <1>4, <1>5, <1>6, <1>7, <1>8, <1>9, <1>10, <2>1 DEF Exchange!PreventSelfTrade

-----------------------------------------------------------------------------
(* The sum that available() takes.                                         *)

Total(S) == MapThenSumSet(LAMBDA o : o.qty, S)

LEMMA TotalSums ==
    ASSUME NEW S \in SUBSET RestingOrder, IsFiniteSet(S)
    PROVE  \E g : Summing(g, [o \in S |-> o.qty], S) /\ Total(S) = g[S]
<1> DEFINE f == [o \in S |-> o.qty]
           raw(g) == [s \in SUBSET S |-> IF s = {} THEN 0 ELSE Picked(s).qty + g[s \ {Picked(s)}]]
           sums == CHOOSE g : g = raw(g)
<1>1. f \in [S -> Int]
  <2>1. \A o \in S : o.qty \in Int
    BY BoundsAssumption DEF RestingOrder
  <2> QED BY <2>1
<1>2. Total(S) = sums[S]
  BY DEF Total, MapThenSumSet, MapThenFoldSet, Picked
<1>3. \A s \in SUBSET S : s # {} => Picked(s) \in S
  BY DEF Picked
<1>4. \A g : Summing(g, f, S) <=> g = raw(g)
  BY <1>3 DEF Summing
<1>5. \E g : Summing(g, f, S)
  <2> HIDE DEF f
  <2> QED BY <1>1, SumExists
<1>6. \E g : g = raw(g)
  BY ONLY <1>4, <1>5
<1>7. sums = raw(sums)
  <2> HIDE DEF raw
  <2> QED BY ONLY <1>6, Zenon DEF sums
<1>8. Summing(sums, f, S)
  BY ONLY <1>4, <1>7
<1>9. QED
  BY <1>2, <1>8

LEMMA TotalOf ==
    ASSUME NEW S \in SUBSET RestingOrder, IsFiniteSet(S)
    PROVE  /\ Total(S) \in Nat
           /\ S = {} => Total(S) = 0
           /\ \A x \in S : x.qty \in Nat /\ Total(S) = x.qty + Total(S \ {x})
<1> DEFINE f == [o \in S |-> o.qty]
<1>1. f \in [S -> Nat] /\ f \in [S -> Int] /\ \A x \in S : x.qty \in Nat /\ f[x] = x.qty
  <2>1. \A o \in S : o.qty \in Nat
    BY BoundsAssumption DEF RestingOrder
  <2> QED BY <2>1
<1>2. PICK g : Summing(g, f, S) /\ Total(S) = g[S]
  BY TotalSums
<1> HIDE DEF f
<1>3. Total(S) \in Nat
  BY <1>1, <1>2, SumNotNegative
<1>4. S = {} => Total(S) = 0
  BY <1>1, <1>2, SumUnfolds
<1>5. \A s \in SUBSET S : g[s] \in Int /\ \A x \in s : g[s] = f[x] + g[s \ {x}]
  BY SMTT(20), <1>1, <1>2, SumUnfolds
<1>6. \A x \in S : g[S] = f[x] + g[S \ {x}]
  <2>1. S \in SUBSET S
    OBVIOUS
  <2> QED BY <1>5, <2>1
<1>7. ASSUME NEW x \in S PROVE Total(S) = x.qty + Total(S \ {x})
  <2> DEFINE T == S \ {x}
  <2>1. T \in SUBSET RestingOrder /\ T \in SUBSET S
    OBVIOUS
  <2>2. IsFiniteSet(T)
    <3> HIDE DEF T
    <3> QED BY <2>1, FS_Subset
  <2>3. PICK h : Summing(h, [o \in T |-> o.qty], T) /\ Total(T) = h[T]
    <3> HIDE DEF T
    <3> QED BY <2>1, <2>2, TotalSums
  <2>4. g[T] = h[T]
    <3> DEFINE k == [o \in T |-> o.qty]
    <3>1. k \in [T -> Int] /\ \A y \in T : f[y] = k[y]
      BY <1>1
    <3>2. T \in SUBSET (S \cap T)
      OBVIOUS
    <3> HIDE DEF T, k
    <3>3. Summing(h, k, T) /\ Summing(g, f, S)
      BY <1>2, <2>3 DEF k
    <3> QED BY <1>1, <2>2, <3>1, <3>2, <3>3, SumAgrees
  <2>5. g[S] = f[x] + g[S \ {x}]
    BY <1>6
  <2> QED BY <1>1, <1>2, <2>3, <2>4, <2>5
<1>8. QED
  BY <1>1, <1>3, <1>4, <1>7

-----------------------------------------------------------------------------
(* What available() counts.                                                *)

(* The i-th order at p is counted: no own order that stops the loop is ahead. *)
Reaches(req, p, i) ==
    LET side == Opposite(req.side)
    IN  /\ Accepts(req, p)
        /\ levels[side][p][i].agent # req.agent
        /\ \/ stpMode = "cancel_oldest"
           \/ \A r \in Prices : \A j \in 1 .. Len(levels[side][r]) :
                  Accepts(req, r) /\ levels[side][r][j].agent = req.agent
                  => ~(Better(side, r, p) \/ (r = p /\ j < i))

LEMMA ReachableMembers ==
    levels \in [Side -> [Prices -> Lists]] =>
      \A req \in Request : \A o :
         o \in ReachableOrders(req) <=>
           \E p \in Prices : \E i \in 1 .. Len(levels[Opposite(req.side)][p]) :
               Reaches(req, p, i) /\ o = levels[Opposite(req.side)][p][i]
<1> SUFFICES ASSUME levels \in [Side -> [Prices -> Lists]], NEW req \in Request, NEW o
             PROVE  o \in ReachableOrders(req) <=>
                      \E p \in Prices : \E i \in 1 .. Len(levels[Opposite(req.side)][p]) :
                         Reaches(req, p, i) /\ o = levels[Opposite(req.side)][p][i]
  OBVIOUS
<1> DEFINE side == Opposite(req.side)
<1>1. side \in Side
  BY DEF Opposite, Side
<1>2. \A p \in Prices : DOMAIN levels[side][p] = 1 .. Len(levels[side][p])
  <2>1. ASSUME NEW q \in Lists PROVE DOMAIN q = 1 .. Len(q)
    BY <2>1, LenProperties DEF Lists
  <2> QED BY <1>1, <2>1
<1>3. \A spot : spot \in Spots(side) <=>
         \E p \in Prices : \E i \in 1 .. Len(levels[side][p]) : spot = <<p, i>>
  BY <1>2 DEF Spots
<1>4. \A p, i : /\ OrderAt(side, <<p, i>>) = levels[side][p][i]
                /\ \A r, j : Ahead(side, <<r, j>>, <<p, i>>) <=> Better(side, r, p) \/ (r = p /\ j < i)
  BY DEF OrderAt, Ahead
<1>5. \A p \in Prices : \A i \in 1 .. Len(levels[side][p]) : <<p, i>> \in Spots(side)
  BY <1>3
<1>6. ASSUME NEW p \in Prices, NEW i \in 1 .. Len(levels[side][p])
      PROVE  <<p, i>> \in Reachable(req) <=> Reaches(req, p, i)
  <2> DEFINE acceptable == {spot \in Spots(side) : Accepts(req, spot[1])}
             own == {spot \in acceptable : OrderAt(side, spot).agent = req.agent}
  <2>1. Reachable(req) = {spot \in acceptable \ own :
            stpMode = "cancel_oldest" \/ ~ \E s \in own : Ahead(side, s, spot)}
    BY DEF Reachable
  <2>2. \A r \in Prices : \A j \in 1 .. Len(levels[side][r]) :
           <<r, j>> \in own <=> Accepts(req, r) /\ levels[side][r][j].agent = req.agent
    BY <1>4, <1>5
  <2>3. <<p, i>> \in acceptable <=> Accepts(req, p)
    BY <1>5
  <2>4. (\E s \in own : Ahead(side, s, <<p, i>>)) <=>
          \E r \in Prices : \E j \in 1 .. Len(levels[side][r]) :
             /\ Accepts(req, r) /\ levels[side][r][j].agent = req.agent
             /\ Better(side, r, p) \/ (r = p /\ j < i)
    <3>1. ASSUME NEW s \in own, Ahead(side, s, <<p, i>>)
          PROVE  \E r \in Prices : \E j \in 1 .. Len(levels[side][r]) :
             /\ Accepts(req, r) /\ levels[side][r][j].agent = req.agent
             /\ Better(side, r, p) \/ (r = p /\ j < i)
      <4>1. s \in Spots(side)
        OBVIOUS
      <4>2. PICK r \in Prices : \E j \in 1 .. Len(levels[side][r]) : s = <<r, j>>
        BY <1>3, <4>1
      <4>3. PICK j \in 1 .. Len(levels[side][r]) : s = <<r, j>>
        BY <4>2
      <4> HIDE DEF own, acceptable
      <4> QED BY <1>4, <2>2, <3>1, <4>3
    <3>2. ASSUME NEW r \in Prices, NEW j \in 1 .. Len(levels[side][r]),
                 Accepts(req, r), levels[side][r][j].agent = req.agent,
                 Better(side, r, p) \/ (r = p /\ j < i)
          PROVE  \E s \in own : Ahead(side, s, <<p, i>>)
      <4> HIDE DEF own, acceptable
      <4>1. <<r, j>> \in own
        BY <2>2, <3>2
      <4>2. Ahead(side, <<r, j>>, <<p, i>>)
        BY <1>4, <3>2
      <4> QED BY <4>1, <4>2
    <3> HIDE DEF own, acceptable
    <3> QED BY <3>1, <3>2
  <2> HIDE DEF own, acceptable
  <2> QED BY <2>1, <2>2, <2>3, <2>4 DEF Reaches
<1>7. \A spot \in Reachable(req) : spot \in Spots(side)
  BY DEF Reachable
<1>8. ReachableOrders(req) = {OrderAt(side, spot) : spot \in Reachable(req)}
  BY DEF ReachableOrders
<1>9. ASSUME o \in ReachableOrders(req)
      PROVE  \E p \in Prices : \E i \in 1 .. Len(levels[side][p]) :
                Reaches(req, p, i) /\ o = levels[side][p][i]
  <2>1. PICK spot \in Reachable(req) : o = OrderAt(side, spot)
    BY <1>8, <1>9
  <2>2. PICK p \in Prices : \E i \in 1 .. Len(levels[side][p]) : spot = <<p, i>>
    BY <1>3, <1>7
  <2>3. PICK i \in 1 .. Len(levels[side][p]) : spot = <<p, i>>
    BY <2>2
  <2>4. Reaches(req, p, i)
    BY <1>6, <2>1, <2>3
  <2>5. o = levels[side][p][i]
    BY <1>4, <2>1, <2>3
  <2> QED BY <2>4, <2>5
<1>10. ASSUME NEW p \in Prices, NEW i \in 1 .. Len(levels[side][p]),
              Reaches(req, p, i), o = levels[side][p][i]
       PROVE  o \in ReachableOrders(req)
  <2>1. <<p, i>> \in Reachable(req) /\ o = OrderAt(side, <<p, i>>)
    BY <1>4, <1>6, <1>10
  <2> QED BY <1>8, <2>1
<1>11. QED
  BY <1>9, <1>10

LEMMA ReachableTyped ==
    levels \in [Side -> [Prices -> Lists]] =>
      \A req \in Request : /\ ReachableOrders(req) \in SUBSET RestingOrder
                           /\ IsFiniteSet(ReachableOrders(req))
                           /\ Available(req) = Total(ReachableOrders(req))
<1> SUFFICES ASSUME levels \in [Side -> [Prices -> Lists]], NEW req \in Request
             PROVE  /\ ReachableOrders(req) \in SUBSET RestingOrder
                    /\ IsFiniteSet(ReachableOrders(req))
                    /\ Available(req) = Total(ReachableOrders(req))
  OBVIOUS
<1> DEFINE side == Opposite(req.side)
           at(p) == {levels[side][p][i] : i \in 1 .. Len(levels[side][p])}
           all == UNION {at(p) : p \in Prices}
<1>1. side \in Side
  BY DEF Opposite, Side
<1>2. ASSUME NEW q \in Lists
      PROVE  /\ Len(q) \in Nat /\ IsFiniteSet({q[i] : i \in 1 .. Len(q)})
             /\ \A i \in 1 .. Len(q) : q[i] \in RestingOrder
  <2>1. Len(q) \in Nat /\ q = [i \in 1 .. Len(q) |-> q[i]]
    BY LenProperties DEF Lists
  <2>2. IsFiniteSet(1 .. Len(q))
    <3>1. ASSUME NEW n \in Nat PROVE IsFiniteSet(1 .. n)
      BY FS_Interval
    <3> QED BY <2>1, <3>1
  <2>3. IsFiniteSet({q[i] : i \in 1 .. Len(q)})
    <3> DEFINE S == 1 .. Len(q)
    <3>1. q = [i \in S |-> q[i]] /\ IsFiniteSet(S)
      BY <2>1, <2>2
    <3> HIDE DEF S
    <3>2. IsFiniteSet({q[i] : i \in S})
      BY <3>1, FiniteImage
    <3> QED BY <3>2 DEF S
  <2> QED BY <2>1, <2>3, ElementOfSeq DEF Lists
<1>3. \A p \in Prices : IsFiniteSet(at(p)) /\ at(p) \in SUBSET RestingOrder
  <2> SUFFICES ASSUME NEW p \in Prices PROVE IsFiniteSet(at(p)) /\ at(p) \in SUBSET RestingOrder
    OBVIOUS
  <2> DEFINE q == levels[side][p]
  <2>1. q \in Lists
    BY <1>1
  <2> HIDE DEF q
  <2>2. IsFiniteSet({q[i] : i \in 1 .. Len(q)}) /\ {q[i] : i \in 1 .. Len(q)} \in SUBSET RestingOrder
    BY <1>2, <2>1
  <2> QED BY <2>2 DEF q
<1>4. IsFiniteSet({at(p) : p \in Prices})
  <2> DEFINE f == [p \in Prices |-> at(p)]
  <2>1. f = [p \in Prices |-> f[p]] /\ {at(p) : p \in Prices} = {f[p] : p \in Prices}
    OBVIOUS
  <2>2. IsFiniteSet(Prices)
    BY BoundsAssumption, FS_Interval DEF Prices
  <2> HIDE DEF f
  <2>3. IsFiniteSet({f[p] : p \in Prices})
    BY <2>1, <2>2, FiniteImage
  <2> QED BY <2>1, <2>3
<1>5. IsFiniteSet(all)
  <2> DEFINE S == {at(p) : p \in Prices}
  <2>1. IsFiniteSet(S) /\ \A s \in S : IsFiniteSet(s)
    BY <1>3, <1>4
  <2> HIDE DEF S
  <2>2. IsFiniteSet(UNION S)
    BY <2>1, FS_UNION
  <2> QED BY <2>2 DEF S
<1>6. ReachableOrders(req) \in SUBSET all
  <2>1. ASSUME NEW o \in ReachableOrders(req) PROVE o \in all
    <3>1. PICK p \in Prices : \E i \in 1 .. Len(levels[side][p]) : o = levels[side][p][i]
      BY ReachableMembers
    <3>2. o \in at(p)
      BY <3>1
    <3> QED BY <3>2
  <2> QED BY <2>1
<1>7. all \in SUBSET RestingOrder
  BY <1>3
<1> HIDE DEF all
<1>8. ReachableOrders(req) \in SUBSET RestingOrder /\ IsFiniteSet(ReachableOrders(req))
  BY <1>5, <1>6, <1>7, FS_Subset
<1>9. QED
  BY <1>8 DEF Available, Total

LEMMA ReachableNext ==
    (levels \in [Side -> [Prices -> Lists]] =>
      \A req \in Request :
         /\ \A o : o \in ReachableOrders(req) <=>
               \E p \in Prices : \E i \in 1 .. Len(levels[Opposite(req.side)][p]) :
                  Reaches(req, p, i) /\ o = levels[Opposite(req.side)][p][i]
         /\ ReachableOrders(req) \in SUBSET RestingOrder
         /\ IsFiniteSet(ReachableOrders(req))
         /\ \A S : S = ReachableOrders(req) => Available(req) = Total(S))'
<1>1. levels \in [Side -> [Prices -> Lists]] =>
      \A req \in Request :
         /\ \A o : o \in ReachableOrders(req) <=>
               \E p \in Prices : \E i \in 1 .. Len(levels[Opposite(req.side)][p]) :
                  Reaches(req, p, i) /\ o = levels[Opposite(req.side)][p][i]
         /\ ReachableOrders(req) \in SUBSET RestingOrder
         /\ IsFiniteSet(ReachableOrders(req))
         /\ \A S : S = ReachableOrders(req) => Available(req) = Total(S)
  BY ReachableMembers, ReachableTyped
<1>2. QED
  BY <1>1, PTL

-----------------------------------------------------------------------------
(***************************************************************************)
(* A fill_or_kill order in flight is never stopped, and what available()   *)
(* would count now still covers what is left of it.                        *)
(***************************************************************************)
Covered ==
    \A req \in Request :
        ~Idle /\ taker.req = req /\ req.tif = "fill_or_kill" =>
            ~taker.stopped /\ Available(req) >= taker.remaining

(* The front order of a level leaves: it alone is no longer counted.       *)
LEMMA RemovalReach ==
    ASSUME QueueInv, NEW req \in Request, NEW price \in Prices,
           1 \in 1 .. Len(levels[Opposite(req.side)][price]),
           Removal(Opposite(req.side), price, 1), stpMode' = stpMode,
           \/ stpMode = "cancel_oldest"
           \/ levels[Opposite(req.side)][price][1].agent # req.agent
    PROVE  ReachableOrders(req)' = ReachableOrders(req) \ {levels[Opposite(req.side)][price][1]}
<1> DEFINE side == Opposite(req.side)
           Old(r, j) == IF r = price THEN j + 1 ELSE j
           maker == levels[side][price][1]
<1>1. side \in Side /\ TypeOK /\ levels \in [Side -> [Prices -> Lists]]
  BY TypedLevels DEF QueueInv, IInv, Opposite, Side
<1>2. \A r \in Prices : Len(levels[side][r]) \in Nat
  BY <1>1, TypedOrders
<1>3. /\ levels' \in [Side -> [Prices -> Lists]]
      /\ \A r \in Prices : r # price => levels'[side][r] = levels[side][r]
      /\ Len(levels'[side][price]) = Len(levels[side][price]) - 1
      /\ \A k \in 1 .. Len(levels[side][price]) - 1 : levels'[side][price][k] = levels[side][price][k + 1]
  <2>1. \A k \in 1 .. Len(levels[side][price]) - 1 : ~(k < 1)
    BY <1>2
  <2> QED BY <1>1, <2>1 DEF Removal
<1>4. \A r \in Prices : \A j \in 1 .. Len(levels'[side][r]) :
         /\ Old(r, j) \in 1 .. Len(levels[side][r])
         /\ levels'[side][r][j] = levels[side][r][Old(r, j)]
         /\ r = price => Old(r, j) # 1
  <2> SUFFICES ASSUME NEW r \in Prices, NEW j \in 1 .. Len(levels'[side][r])
               PROVE  /\ Old(r, j) \in 1 .. Len(levels[side][r])
                      /\ levels'[side][r][j] = levels[side][r][Old(r, j)]
                      /\ r = price => Old(r, j) # 1
    OBVIOUS
  <2>1. CASE r = price
    <3>1. j \in 1 .. Len(levels[side][price]) - 1
      BY <1>3, <2>1
    <3>2. j + 1 \in 1 .. Len(levels[side][price]) /\ j + 1 # 1
      BY <1>2, <3>1
    <3> QED BY <1>3, <2>1, <3>1, <3>2
  <2>2. CASE r # price
    BY <1>3, <2>2
  <2> QED BY <2>1, <2>2
<1>5. \A r \in Prices : \A k \in 1 .. Len(levels[side][r]) :
         (r = price => k # 1) => \E j \in 1 .. Len(levels'[side][r]) : Old(r, j) = k
  <2> SUFFICES ASSUME NEW r \in Prices, NEW k \in 1 .. Len(levels[side][r]), r = price => k # 1
               PROVE  \E j \in 1 .. Len(levels'[side][r]) : Old(r, j) = k
    OBVIOUS
  <2>1. CASE r = price
    <3>1. k - 1 \in 1 .. Len(levels'[side][r]) /\ (k - 1) + 1 = k
      BY <1>2, <1>3, <2>1
    <3> QED BY <2>1, <3>1
  <2>2. CASE r # price
    BY <1>3, <2>2
  <2> QED BY <2>1, <2>2
<1>6. \A r \in Prices : \A i, j \in 1 .. Len(levels'[side][r]) : j < i <=> Old(r, j) < Old(r, i)
  <2>1. \A r \in Prices : Len(levels'[side][r]) \in Nat
    <3>1. ASSUME NEW q \in Lists PROVE Len(q) \in Nat
      BY <3>1, LenProperties DEF Lists
    <3> QED BY <1>1, <1>3, <3>1
  <2> QED BY <2>1
<1> HIDE DEF Old
<1>7. \A p \in Prices : \A i \in 1 .. Len(levels'[side][p]) :
         Reaches(req, p, i)' <=> Reaches(req, p, Old(p, i))
  <2> SUFFICES ASSUME NEW p \in Prices, NEW i \in 1 .. Len(levels'[side][p])
               PROVE  Reaches(req, p, i)' <=> Reaches(req, p, Old(p, i))
    OBVIOUS
  <2>1. /\ Reaches(req, p, i)' <=>
             /\ Accepts(req, p)
             /\ levels'[side][p][i].agent # req.agent
             /\ \/ stpMode = "cancel_oldest"
                \/ \A r \in Prices : \A j \in 1 .. Len(levels'[side][r]) :
                  Accepts(req, r) /\ levels'[side][r][j].agent = req.agent
                  => ~(Better(side, r, p) \/ (r = p /\ j < i))
        /\ Reaches(req, p, Old(p, i)) <=>
             /\ Accepts(req, p)
             /\ levels[side][p][Old(p, i)].agent # req.agent
             /\ \/ stpMode = "cancel_oldest"
                \/ \A r \in Prices : \A j \in 1 .. Len(levels[side][r]) :
                  Accepts(req, r) /\ levels[side][r][j].agent = req.agent
                  => ~(Better(side, r, p) \/ (r = p /\ j < Old(p, i)))
    BY DEF Reaches, Prices, Accepts, Better
  <2>2. CASE stpMode = "cancel_oldest"
    BY <1>4, <2>1, <2>2
  <2>3. CASE stpMode # "cancel_oldest"
    <3>1. maker.agent # req.agent
      BY <2>3
    <3>2. ASSUME \A r \in Prices : \A j \in 1 .. Len(levels'[side][r]) :
                    Accepts(req, r) /\ levels'[side][r][j].agent = req.agent
                    => ~(Better(side, r, p) \/ (r = p /\ j < i)),
                 NEW r \in Prices, NEW k \in 1 .. Len(levels[side][r]),
                 Accepts(req, r), levels[side][r][k].agent = req.agent
          PROVE  ~(Better(side, r, p) \/ (r = p /\ k < Old(p, i)))
      <4>1. r = price => k # 1
        BY <3>1, <3>2
      <4>2. PICK j \in 1 .. Len(levels'[side][r]) : Old(r, j) = k
        BY <1>5, <4>1
      <4>3. levels'[side][r][j].agent = req.agent
        BY <1>4, <3>2, <4>2
      <4>4. ~(Better(side, r, p) \/ (r = p /\ j < i))
        BY <3>2, <4>3
      <4>5. r = p => (j < i <=> k < Old(p, i))
        BY <1>6, <4>2
      <4> QED BY <4>4, <4>5
    <3>3. ASSUME \A r \in Prices : \A j \in 1 .. Len(levels[side][r]) :
                    Accepts(req, r) /\ levels[side][r][j].agent = req.agent
                    => ~(Better(side, r, p) \/ (r = p /\ j < Old(p, i))),
                 NEW r \in Prices, NEW j \in 1 .. Len(levels'[side][r]),
                 Accepts(req, r), levels'[side][r][j].agent = req.agent
          PROVE  ~(Better(side, r, p) \/ (r = p /\ j < i))
      <4>1. /\ Old(r, j) \in 1 .. Len(levels[side][r])
            /\ levels[side][r][Old(r, j)].agent = req.agent
        BY <1>4, <3>3
      <4>2. ~(Better(side, r, p) \/ (r = p /\ Old(r, j) < Old(p, i)))
        BY <3>3, <4>1
      <4>3. r = p => (j < i <=> Old(r, j) < Old(p, i))
        BY <1>6
      <4> QED BY <4>2, <4>3
    <3>4. levels'[side][p][i] = levels[side][p][Old(p, i)]
      BY <1>4
    <3> QED BY <2>1, <2>3, <3>2, <3>3, <3>4
  <2> QED BY <2>2, <2>3
<1>8. ASSUME NEW o \in ReachableOrders(req)' PROVE o \in ReachableOrders(req) /\ o # maker
  <2>1. PICK p \in Prices : \E i \in 1 .. Len(levels'[side][p]) : Reaches(req, p, i)' /\ o = levels'[side][p][i]
    BY <1>3, ReachableNext
  <2>2. PICK i \in 1 .. Len(levels'[side][p]) : Reaches(req, p, i)' /\ o = levels'[side][p][i]
    BY <2>1
  <2>3. /\ Old(p, i) \in 1 .. Len(levels[side][p]) /\ o = levels[side][p][Old(p, i)]
        /\ p = price => Old(p, i) # 1
    BY <1>4, <2>2
  <2>4. Reaches(req, p, Old(p, i))
    BY <1>7, <2>2
  <2>5. o \in ReachableOrders(req)
    BY <1>1, <2>3, <2>4, ReachableMembers
  <2>6. o.id # maker.id
    BY <1>1, <2>3, KnownById
  <2> QED BY <2>5, <2>6
<1>9. ASSUME NEW o \in ReachableOrders(req), o # maker PROVE o \in ReachableOrders(req)'
  <2>1. PICK p \in Prices : \E k \in 1 .. Len(levels[side][p]) : Reaches(req, p, k) /\ o = levels[side][p][k]
    BY <1>1, ReachableMembers
  <2>2. PICK k \in 1 .. Len(levels[side][p]) : Reaches(req, p, k) /\ o = levels[side][p][k]
    BY <2>1
  <2>3. p = price => k # 1
    BY <1>9, <2>2
  <2>4. PICK i \in 1 .. Len(levels'[side][p]) : Old(p, i) = k
    BY <1>5, <2>3
  <2>5. o = levels'[side][p][i] /\ Reaches(req, p, i)'
    BY <1>4, <1>7, <2>2, <2>4
  <2> QED BY <1>3, <2>5, ReachableNext
<1>10. QED
  BY <1>8, <1>9

(* The front order of the best level is counted unless it is the taker's own. *)
LEMMA FrontReached ==
    ASSUME QueueInv, NEW price \in Prices, Matching(price)
    PROVE  LET list == levels[Opposite(taker.req.side)][price]
           IN  /\ list[1].agent # taker.req.agent => list[1] \in ReachableOrders(taker.req)
               /\ list[1].agent = taker.req.agent /\ stpMode # "cancel_oldest" =>
                      ReachableOrders(taker.req) = {}
<1> DEFINE req == taker.req
           side == Opposite(req.side)
           list == levels[side][price]
<1>1. TypeOK /\ levels \in [Side -> [Prices -> Lists]]
  BY TypedLevels DEF QueueInv, IInv
<1>2. req \in Request /\ side \in Side /\ list # <<>> /\ Accepts(req, price) /\ IsBest(side, price)
  BY <1>1, MatchingFacts DEF Matching
<1>3. 1 \in 1 .. Len(list) /\ \A r \in Prices : Len(levels[side][r]) \in Nat
  <2>1. list \in Lists
    BY <1>1, <1>2
  <2> HIDE DEF list
  <2>2. 1 \in 1 .. Len(list)
    BY <1>2, <2>1, TailOfList
  <2> QED BY <1>1, <1>2, <2>2, TypedOrders
<1>4. \A r \in Prices : \A j \in 1 .. Len(levels[side][r]) : r = price \/ Better(side, price, r)
  <2>1. ASSUME NEW l \in Lists, NEW k \in 1 .. Len(l) PROVE l # <<>>
    BY EmptySeq DEF Lists
  <2> QED BY <1>1, <1>2, <2>1 DEF IsBest
<1>5. \A r \in Prices : Better(side, price, r) => ~Better(side, r, price)
  BY <1>2, BoundsAssumption DEF Better, Prices
<1>6. ~Better(side, price, price)
  BY <1>2, BoundsAssumption DEF Better, Prices
<1> HIDE DEF side, req
<1>7. ASSUME list[1].agent # req.agent PROVE list[1] \in ReachableOrders(req)
  <2>1. \A r \in Prices : \A j \in 1 .. Len(levels[side][r]) :
           ~(Better(side, r, price) \/ (r = price /\ j < 1))
    BY <1>3, <1>4, <1>5, <1>6
  <2>2. Reaches(req, price, 1)
    BY <1>2, <1>7, <2>1 DEF Reaches, side
  <2> QED BY <1>1, <1>2, <1>3, <2>2, ReachableMembers DEF side
<1>8. ASSUME list[1].agent = req.agent, stpMode # "cancel_oldest" PROVE ReachableOrders(req) = {}
  <2> SUFFICES ASSUME NEW o \in ReachableOrders(req) PROVE FALSE
    OBVIOUS
  <2>1. PICK p \in Prices : \E i \in 1 .. Len(levels[side][p]) : Reaches(req, p, i)
    BY <1>1, <1>2, ReachableMembers DEF side
  <2>2. PICK i \in 1 .. Len(levels[side][p]) : Reaches(req, p, i)
    BY <2>1
  <2>3. ~(Better(side, price, p) \/ (price = p /\ 1 < i))
    BY <1>2, <1>3, <1>8, <2>2 DEF Reaches, side
  <2>4. p = price /\ i = 1
    BY <1>3, <1>4, <2>3
  <2> QED BY <1>8, <2>2, <2>4 DEF Reaches, side
<1>9. QED
  BY <1>7, <1>8 DEF req, side

(* The same orders are counted, so their sum is the same.                  *)
LEMMA SameSum ==
    ASSUME levels \in [Side -> [Prices -> Lists]], levels' \in [Side -> [Prices -> Lists]],
           NEW req \in Request, ReachableOrders(req)' = ReachableOrders(req)
    PROVE  Available(req)' = Available(req)
<1>1. \A S : S = ReachableOrders(req)' => Available(req)' = Total(S)
  BY ReachableNext
<1>2. Available(req) = Total(ReachableOrders(req))
  BY ReachableTyped
<1>3. QED
  BY <1>1, <1>2

LEMMA SameReach ==
    ASSUME levels \in [Side -> [Prices -> Lists]], levels' = levels, stpMode' = stpMode,
           NEW req \in Request
    PROVE  Available(req)' = Available(req)
<1>1. ReachableOrders(req)' = ReachableOrders(req)
  BY DEF ReachableOrders, Reachable, Spots, OrderAt, Ahead, Better, Accepts, Prices
<1>2. QED
  BY <1>1, SameSum

LEMMA CoveredNext == QueueInv /\ Covered /\ [Next]_vars => Covered'
<1> SUFFICES ASSUME QueueInv, Covered, [Next]_vars,
                    NEW new \in Request, ~Idle', taker'.req = new, new.tif = "fill_or_kill"
             PROVE  ~taker'.stopped /\ Available(new)' >= taker'.remaining
  BY DEF Covered
<1>1. TypeOK /\ levels \in [Side -> [Prices -> Lists]] /\ levels' \in [Side -> [Prices -> Lists]]
      /\ QueueInv'
  <2>1. QueueInv'
    BY QueueNext
  <2> QED BY <2>1, TypedLevels DEF QueueInv, IInv, TypeOK, Lists
<1>2. ~Idle => taker \in Taker /\ taker.req \in Request
  BY <1>1 DEF TypeOK, Idle, Taker
<1>3. CASE \E req \in Request, t \in Times : Accept(req, t)
  <2>1. PICK req \in Request, t \in Times : Accept(req, t)
    BY <1>3
  <2>2. /\ taker' = [req |-> req, remaining |-> req.qty, stopped |-> FALSE, replacing |-> FALSE]
        /\ levels' = levels /\ stpMode' = stpMode
        /\ req.tif = "fill_or_kill" => Available(req) >= req.qty
    BY <2>1 DEF Accept, Admissible, bookVars
  <2>3. Available(req)' = Available(req)
    BY <1>1, <2>2, SameReach
  <2>4. taker'.req = req /\ taker'.remaining = req.qty /\ taker'.stopped = FALSE
    BY <2>2
  <2>5. new = req
    BY <2>4
  <2> QED BY <2>2, <2>3, <2>4, <2>5
<1>4. CASE \E price \in Prices : Fill(price)
  <2>1. PICK price \in Prices : Fill(price)
    BY <1>4
  <2> DEFINE req == taker.req
             side == Opposite(req.side)
             list == levels[side][price]
             maker == Head(list)
             matched == IF taker.remaining <= maker.qty THEN taker.remaining ELSE maker.qty
  <2>2. Matching(price) /\ ~Idle /\ taker \in Taker /\ req \in Request
        /\ taker' = [taker EXCEPT !.remaining = @ - matched]
        /\ stpMode' = stpMode /\ maker.agent # req.agent
        /\ (matched = maker.qty => RemoveFront(side, price))
    BY <1>2, <2>1 DEF Fill, Matching, Taker
  <2>3. taker'.req = req /\ taker'.remaining = taker.remaining - matched /\ taker'.stopped = taker.stopped
    BY <2>2 DEF Taker
  <2>0. new = req
    BY <2>3
  <2>4. ~taker.stopped /\ Available(req) >= taker.remaining
    BY <2>0, <2>2 DEF Covered
  <2>5. /\ side \in Side /\ list # <<>> /\ maker \in RestingOrder /\ taker.remaining \in 1 .. MaxQuantity
    BY <1>1, <2>2, MatchingFacts
  <2>6. maker = list[1]
    <3>1. list \in Lists
      BY <1>1, <2>5
    <3> HIDE DEF list
    <3> QED BY <2>5, <3>1, TailOfList
  <2>7. maker.qty \in Nat /\ taker.remaining \in Nat
    BY <2>5, BoundsAssumption DEF RestingOrder
  <2> DEFINE after == ReachableOrders(new)'
  <2>8. after \in SUBSET RestingOrder /\ IsFiniteSet(after) /\ Available(new)' = Total(after)
    BY <1>1, ReachableNext
  <2>9. Available(new)' \in Nat
    <3> HIDE DEF after
    <3> QED BY <2>8, TotalOf
  <2>10. ReachableOrders(req) \in SUBSET RestingOrder /\ IsFiniteSet(ReachableOrders(req))
        /\ Available(req) = Total(ReachableOrders(req))
    BY <1>1, <2>2, ReachableTyped
  <2>11. CASE matched = maker.qty
    <3>1. 1 \in 1 .. Len(list) /\ Removal(side, price, 1)
      BY <1>1, <2>2, <2>5, <2>11, FrontRemoved
    <3>2. after = ReachableOrders(req) \ {maker}
      <4>1. ReachableOrders(new)' = ReachableOrders(new) \ {levels[Opposite(new.side)][price][1]}
        BY <2>0, <2>2, <2>6, <3>1, RemovalReach
      <4> QED BY <2>0, <2>6, <4>1
    <3>3. maker \in ReachableOrders(req)
      BY <2>2, <2>6, FrontReached
    <3>4. Available(req) = maker.qty + Available(new)'
      <4>1. Total(ReachableOrders(req)) = maker.qty + Total(ReachableOrders(req) \ {maker})
        BY <2>10, <3>3, TotalOf
      <4> HIDE DEF after
      <4> QED BY <2>8, <2>10, <3>2, <4>1
    <3>5. ~taker.stopped /\ Available(req) >= taker.remaining /\ taker'.remaining = taker.remaining - matched
        /\ taker'.stopped = taker.stopped
      BY <2>3, <2>4
    <3> DEFINE before == Available(req)
               now == Available(new)'
               size == maker.qty
    <3>6. before >= taker.remaining /\ before = size + now /\ size \in Nat /\ now \in Nat /\ matched = size
      BY <2>4, <2>7, <2>9, <2>11, <3>4
    <3>7. now >= taker'.remaining
      <4> HIDE DEF before, now, size, matched
      <4> QED BY <2>7, <3>5, <3>6
    <3> QED BY <3>5, <3>7
  <2>12. CASE matched # maker.qty
    <3>1. matched = taker.remaining
      BY <2>12
    <3> HIDE DEF maker, matched, req
    <3> QED BY <2>3, <2>4, <2>7, <2>9, <3>1
  <2> QED BY <2>11, <2>12
<1>5. CASE \E price \in Prices : StopNewest(price)
  <2>1. PICK price \in Prices : StopNewest(price)
    BY <1>5
  <2>2. /\ Matching(price) /\ ~Idle /\ taker \in Taker /\ taker.req \in Request
        /\ taker' = [taker EXCEPT !.stopped = TRUE]
        /\ stpMode = "cancel_newest"
        /\ Head(levels[Opposite(taker.req.side)][price]).agent = taker.req.agent
    BY <1>2, <2>1 DEF StopNewest, Matching
  <2>3. taker.req = new
    BY <2>2 DEF Taker
  <2>4. Head(levels[Opposite(taker.req.side)][price]) = levels[Opposite(taker.req.side)][price][1]
    <3>1. Opposite(taker.req.side) \in Side /\ levels[Opposite(taker.req.side)][price] # <<>>
      BY <1>1, <2>2, MatchingFacts
    <3> QED BY <1>1, <3>1, TailOfList
  <2>5. ReachableOrders(taker.req) = {}
    BY <2>2, <2>4, FrontReached
  <2>6. Available(taker.req) = 0
    BY <1>1, <2>2, <2>5, ReachableTyped, TotalOf
  <2>7. Available(taker.req) >= taker.remaining /\ taker.remaining \in 1 .. MaxQuantity
    BY <1>1, <2>2, <2>3, MatchingFacts DEF Covered
  <2> QED BY <2>6, <2>7
<1>6. CASE \E price \in Prices : CancelOldest(price)
  <2>1. PICK price \in Prices : CancelOldest(price)
    BY <1>6
  <2> DEFINE req == taker.req
             side == Opposite(req.side)
             list == levels[side][price]
  <2>2. /\ Matching(price) /\ ~Idle /\ taker \in Taker /\ req \in Request
        /\ taker' = [taker EXCEPT !.stopped = (stpMode = "cancel_both")]
        /\ stpMode' = stpMode /\ stpMode # "cancel_newest"
        /\ RemoveFront(side, price)
        /\ Head(list).agent = req.agent
    BY <1>2, <2>1 DEF CancelOldest, Matching
  <2>3. /\ taker'.req = req /\ taker'.remaining = taker.remaining
        /\ taker'.stopped = (stpMode = "cancel_both")
    BY <2>2 DEF Taker
  <2>0. new = req
    BY <2>3
  <2>4. ~taker.stopped /\ Available(req) >= taker.remaining /\ taker.remaining \in 1 .. MaxQuantity
    BY <1>1, <2>0, <2>2, MatchingFacts DEF Covered
  <2>5. Head(list) = list[1] /\ side \in Side /\ list # <<>>
    <3>1. side \in Side /\ list # <<>>
      BY <1>1, <2>2, MatchingFacts
    <3>2. list \in Lists
      BY <1>1, <3>1
    <3> HIDE DEF list
    <3> QED BY <3>1, <3>2, TailOfList
  <2>6. CASE stpMode = "cancel_oldest"
    <3>1. 1 \in 1 .. Len(list) /\ Removal(side, price, 1)
      BY <1>1, <2>2, <2>5, FrontRemoved
    <3>2. ReachableOrders(new)' = ReachableOrders(new) \ {list[1]}
      BY <2>0, <2>2, <2>6, <3>1, RemovalReach
    <3>3. list[1] \notin ReachableOrders(req)
      <4> SUFFICES ASSUME list[1] \in ReachableOrders(req) PROVE FALSE
        OBVIOUS
      <4>1. PICK p \in Prices : \E i \in 1 .. Len(levels[side][p]) : Reaches(req, p, i) /\ list[1] = levels[side][p][i]
        BY <1>1, <2>2, ReachableMembers
      <4> QED BY <2>2, <2>5, <4>1 DEF Reaches
    <3>4. ReachableOrders(new)' = ReachableOrders(new)
      BY <2>0, <3>2, <3>3
    <3>5. Available(new)' = Available(new)
      BY <1>1, <3>4, SameSum
    <3> QED BY <2>0, <2>3, <2>4, <2>6, <3>5
  <2>7. CASE stpMode # "cancel_oldest"
    <3>1. ReachableOrders(req) = {}
      BY <2>2, <2>5, <2>7, FrontReached
    <3>2. Available(req) = 0
      BY <1>1, <2>2, <3>1, ReachableTyped, TotalOf
    <3> QED BY <2>4, <3>2
  <2> QED BY <2>6, <2>7
<1>7. ASSUME NEW id \in OrderIds, NEW agent \in Agents, NEW i, NEW t \in Times,
             NEW price \in 0 .. MaxPrice, NEW qty \in 0 .. MaxQuantity, CancelAndResubmit(id, agent, i, price, qty, t)
      PROVE  FALSE
  <2> DEFINE req == [id |-> id, agent |-> agent, side |-> locators[id].side, type |-> "limit",
                tif |-> "good_til_cancel", price |-> price, qty |-> qty, postOnly |-> FALSE]
             flight == [req |-> req, remaining |-> qty, stopped |-> FALSE, replacing |-> TRUE]
  <2>1. taker' = NoTaker \/ taker' = flight
    BY <1>7 DEF CancelAndResubmit
  <2>2. flight.req.tif = "good_til_cancel"
    OBVIOUS
  <2> HIDE DEF flight
  <2> QED BY <2>1, <2>2 DEF Idle
<1>8. CASE levels' = levels /\ taker' = taker /\ stpMode' = stpMode
  <2>1. Available(new)' = Available(new)
    BY <1>1, <1>8, SameReach
  <2> QED BY <1>8, <2>1 DEF Covered, Idle
<1>9. CASE Idle /\ taker' = taker
  BY <1>9 DEF Idle
<1>10. CASE taker' = NoTaker
  BY <1>10 DEF Idle
<1>11. QED
  <2>1. CASE Submit
    <3>1. PICK req \in Request, t \in Times : Reject(req, t) \/ Accept(req, t)
      BY <2>1 DEF Submit
    <3>2. CASE Reject(req, t)
      BY <1>9, <3>2 DEF Reject
    <3> QED BY <1>3, <3>1, <3>2
  <2>2. CASE Match
    <3>1. Rest \/ CancelRemainder \/ Complete => taker' = NoTaker
      BY DEF Rest, CancelRemainder, Complete
    <3> QED BY <1>4, <1>5, <1>6, <1>10, <2>2, <3>1 DEF Match
  <2>3. CASE Amend
    <3>1. PICK id \in OrderIds, agent \in Agents, i \in 1 .. Cardinality(OrderIds), t \in Times :
             \/ Cancel(id, agent, i, t)
             \/ \E price \in 0 .. MaxPrice, qty \in 0 .. MaxQuantity :
                  \/ ReduceInPlace(id, agent, i, price, qty, t)
                  \/ CancelAndResubmit(id, agent, i, price, qty, t)
      BY <2>3 DEF Amend
    <3>2. CASE Cancel(id, agent, i, t)
      BY <1>9, <3>2 DEF Cancel
    <3>3. CASE \E price \in 0 .. MaxPrice, qty \in 0 .. MaxQuantity : ReduceInPlace(id, agent, i, price, qty, t)
      BY <1>9, <3>3 DEF ReduceInPlace
    <3> QED BY <1>7, <3>1, <3>2, <3>3
  <2>4. CASE \E next \in BookStates, t \in Times : SetState(next, t)
    BY <1>9, <2>4 DEF SetState
  <2>5. CASE UNCHANGED vars
    BY <1>8, <2>5 DEF vars
  <2> QED BY <2>1, <2>2, <2>3, <2>4, <2>5 DEF Next

-----------------------------------------------------------------------------
LEMMA CoveredInit == Init => Covered
BY DEF Init, Covered, Idle

(* Nothing of the other side can be dealt with when the loop ends.         *)
LEMMA NothingReachable ==
    ASSUME TypeOK, NEW req \in Request, ~Marketable(req)
    PROVE  Available(req) = 0
<1>1. levels \in [Side -> [Prices -> Lists]]
  BY TypedLevels
<1>2. \A o : o \notin ReachableOrders(req)
  <2> SUFFICES ASSUME NEW o \in ReachableOrders(req) PROVE FALSE
    OBVIOUS
  <2>1. PICK p \in Prices : \E i \in 1 .. Len(levels[Opposite(req.side)][p]) :
            Reaches(req, p, i) /\ o = levels[Opposite(req.side)][p][i]
    BY <1>1, ReachableMembers
  <2>2. PICK i \in 1 .. Len(levels[Opposite(req.side)][p]) : Reaches(req, p, i)
    BY <2>1
  <2>3. Accepts(req, p)
    BY <2>2 DEF Reaches
  <2>4. levels[Opposite(req.side)][p] # <<>>
    <3>1. Opposite(req.side) \in Side
      BY DEF Opposite, Side
    <3>2. levels[Opposite(req.side)][p] \in Lists
      BY <1>1, <3>1
    <3>3. ASSUME NEW l \in Lists, NEW k \in 1 .. Len(l) PROVE l # <<>>
      BY EmptySeq DEF Lists
    <3> QED BY <2>2, <3>2, <3>3
  <2> QED BY <2>3, <2>4, NothingAcceptable
<1>3. ReachableOrders(req) = {}
  BY <1>2
<1>4. /\ ReachableOrders(req) \in SUBSET RestingOrder /\ IsFiniteSet(ReachableOrders(req))
      /\ Available(req) = Total(ReachableOrders(req))
  BY <1>1, ReachableTyped
<1> DEFINE counted == ReachableOrders(req)
<1> HIDE DEF counted
<1>5. counted = {} /\ counted \in SUBSET RestingOrder /\ IsFiniteSet(counted) /\ Available(req) = Total(counted)
  BY <1>3, <1>4 DEF counted
<1>6. QED
  BY <1>5, TotalOf

LEMMA FokDone ==
    ASSUME QueueInv, Covered, Matched, taker.req.tif = "fill_or_kill"
    PROVE  taker.remaining = 0
<1>1. TypeOK /\ ~Idle /\ taker \in Taker /\ taker.req \in Request /\ taker.remaining \in Nat
  BY BoundsAssumption DEF QueueInv, IInv, TypeOK, Matched, Idle, Taker
<1>2. ~taker.stopped /\ Available(taker.req) >= taker.remaining
  BY <1>1 DEF Covered
<1>3. ASSUME taker.remaining # 0 PROVE FALSE
  <2>1. ~Marketable(taker.req)
    BY <1>2, <1>3 DEF Matched
  <2>2. Available(taker.req) = 0
    BY <1>1, <2>1, NothingReachable
  <2> QED BY <1>1, <1>2, <1>3, <2>2
<1>4. QED
  BY <1>3

(* An iteration of the loop leaves the taker in it.                        *)
LEMMA LoopGoesOn ==
    ASSUME TypeOK, NEW price \in Prices, Fill(price) \/ StopNewest(price) \/ CancelOldest(price)
    PROVE  ~Idle'
<1>1. Matching(price)
  BY DEF Fill, StopNewest, CancelOldest
<1> DEFINE maker == Head(levels[Opposite(taker.req.side)][price])
           matched == IF taker.remaining <= maker.qty THEN taker.remaining ELSE maker.qty
<1>2. taker \in Taker /\ taker.remaining \in 1 .. MaxQuantity /\ maker \in RestingOrder
  BY <1>1, MatchingFacts
<1>3. taker.remaining - matched \in 0 .. MaxQuantity
  <2>1. maker.qty \in 1 .. MaxQuantity
    BY <1>2 DEF RestingOrder
  <2> HIDE DEF maker
  <2> QED BY <1>2, <2>1, BoundsAssumption
<1>4. taker' \in Taker
  <2>1. CASE Fill(price)
    <3>1. taker' = [taker EXCEPT !.remaining = @ - matched]
      BY <2>1 DEF Fill
    <3> HIDE DEF matched
    <3> QED BY <1>2, <1>3, <3>1 DEF Taker
  <2>2. CASE StopNewest(price)
    BY <1>2, <2>2 DEF StopNewest, Taker
  <2>3. CASE CancelOldest(price)
    <3>1. taker' = [taker EXCEPT !.stopped = (stpMode = "cancel_both")]
      BY <2>3 DEF CancelOldest
    <3> QED BY <1>2, <3>1, Zenon DEF Taker
  <2> QED BY <2>1, <2>2, <2>3
<1>5. QED
  BY <1>4, AbsentAssumption DEF Idle

(* A call that ends leaves its loop by one of the three ways out.          *)
LEMMA CallEnds ==
    ASSUME TypeOK, [Next]_vars, ~Idle, Idle'
    PROVE  Rest \/ CancelRemainder \/ Complete
<1>1. ~Submit /\ ~Amend /\ ~ \E next \in BookStates, t \in Times : SetState(next, t)
  <2>1. \A id, agent, i, t : Cancel(id, agent, i, t) => Idle
    BY DEF Cancel
  <2>2. \A id, agent, i, t, price, qty :
           ReduceInPlace(id, agent, i, price, qty, t) \/ CancelAndResubmit(id, agent, i, price, qty, t) => Idle
    BY DEF ReduceInPlace, CancelAndResubmit
  <2>3. ~Amend
    BY <2>1, <2>2 DEF Amend
  <2>4. ~Submit
    BY DEF Submit, Reject, Accept
  <2>5. ~ \E next \in BookStates, t \in Times : SetState(next, t)
    BY DEF SetState
  <2> QED BY <2>3, <2>4, <2>5
<1>2. ~ \E price \in Prices : Fill(price) \/ StopNewest(price) \/ CancelOldest(price)
  BY LoopGoesOn
<1>3. ~ UNCHANGED vars
  BY DEF vars, Idle
<1>4. QED
  BY <1>1, <1>2, <1>3 DEF Next, Match

(***************************************************************************)
(* The precheck of available() counts exactly what the matching loop can   *)
(* reach, for every book and every self-trade prevention mode: a           *)
(* fill_or_kill order that was accepted leaves the loop with nothing left. *)
(***************************************************************************)
THEOREM AcceptedMeansFilled == Spec => FillOrKill
<1>1. Init => QueueInv /\ Covered
  BY QueueInit, CoveredInit
<1>2. QueueInv /\ Covered /\ [Next]_vars => (QueueInv /\ Covered)'
  BY QueueNext, CoveredNext
<1>3. QueueInv /\ Covered /\ [Next]_vars
          => [~Idle /\ Idle' /\ taker.req.tif = "fill_or_kill" => taker.remaining = 0]_vars
  <2> SUFFICES ASSUME QueueInv, Covered, [Next]_vars, ~Idle, Idle', taker.req.tif = "fill_or_kill"
               PROVE  taker.remaining = 0
    OBVIOUS
  <2>1. Rest \/ CancelRemainder \/ Complete
    BY CallEnds DEF QueueInv, IInv
  <2>2. Matched
    BY <2>1 DEF Rest, CancelRemainder, Complete
  <2> QED BY <2>2, FokDone
<1>4. QED
  BY <1>1, <1>2, <1>3, PTL DEF Spec, FillOrKill

-----------------------------------------------------------------------------
(* The loop ends with something left: the exchange has no counterpart either. *)
LEMMA NothingToDealWith ==
    ASSUME QueueInv, Matched, taker.remaining > 0
    PROVE  Exchange!Acceptable = {}
<1>1. /\ TypeOK /\ ~Idle /\ taker \in Taker /\ taker.req \in Request
      /\ levels \in [Side -> [Prices -> Lists]]
  BY TypedLevels DEF QueueInv, IInv, TypeOK, Matched, Idle, Taker
<1>2. SUFFICES ASSUME NEW y \in Exchange!Acceptable PROVE FALSE
  OBVIOUS
<1>3. IncomingOrder.side = taker.req.side
      /\ \A p : p \in IncomingOrder.accepts <=> p \in Prices /\ ~taker.stopped /\ Accepts(taker.req, p)
  BY <1>1, IncomingIs, IncomingFacts
<1>4. y \in RestingOrders /\ y.side # taker.req.side /\ y.price \in Prices
      /\ ~taker.stopped /\ Accepts(taker.req, y.price)
  BY <1>3 DEF Exchange!Acceptable
<1>5. PICK s \in Side, p \in Prices : \E i \in 1 .. Len(levels[s][p]) : y = Shown(s, p, levels[s][p][i])
  BY <1>1, <1>4, RestingMembers
<1>6. PICK i \in 1 .. Len(levels[s][p]) : y = Shown(s, p, levels[s][p][i])
  BY <1>5
<1>7. y.side = s /\ y.price = p
  <2>1. levels[s][p][i] \in RestingOrder
    BY <1>1, TypedLevels
  <2> QED BY <1>6, <2>1, ShownBy
<1>8. s = Opposite(taker.req.side)
  BY <1>1, <1>4, <1>7 DEF Opposite, Side, Request
<1>9. levels[s][p] # <<>>
  <2>1. levels[s][p] \in Lists
    BY <1>1
  <2>2. ASSUME NEW l \in Lists, NEW k \in 1 .. Len(l) PROVE l # <<>>
    BY EmptySeq DEF Lists
  <2> QED BY <2>1, <2>2
<1>10. ~Marketable(taker.req)
  BY <1>1, <1>4 DEF Matched, Taker
<1>11. QED
  BY <1>1, <1>4, <1>7, <1>8, <1>9, <1>10, NothingAcceptable

LEMMA RestRests ==
    ASSUME QueueInv, Rest
    PROVE  Exchange!Rest
<1> DEFINE req == taker.req
           order == [id |-> req.id, agent |-> req.agent, qty |-> taker.remaining, seq |-> sequence]
           x == Shown(req.side, req.price, order)
<1>1. /\ TypeOK /\ ~Idle /\ taker \in Taker /\ taker.remaining > 0 /\ Matched /\ Restable
      /\ taker' = NoTaker /\ state' = state
  BY DEF QueueInv, IInv, TypeOK, Rest, Matched, Idle
<1>2. /\ req.side \in Side /\ req.price \in Prices /\ order \in RestingOrder
      /\ Joining(req.side, req.price, order)
  BY RestIsJoining
<1>3. IncomingOrder.qty = taker.remaining /\ IncomingOrder.id = req.id /\ IncomingOrder.agent = req.agent
      /\ IncomingOrder.side = req.side /\ IncomingOrder.price = req.price /\ IncomingOrder.mayRest
  BY <1>1, IncomingIs, IncomingFacts DEF Restable
<1>4. IncomingOrder' = NoTaker
  BY <1>1, IncomingIs DEF Idle
<1>5. ~Exchange!Idle /\ Exchange!Acceptable = {}
  BY <1>1, IdleAlike, NothingToDealWith
<1>6. RestingOrders' = RestingOrders \cup {x}
  <2> HIDE DEF req, order
  <2> QED BY <1>2, JoiningShown
<1>7. x.id = req.id /\ x.agent = req.agent /\ x.side = req.side /\ x.price = req.price
      /\ x.qty = taker.remaining /\ x.arrival = sequence
  BY DEF Shown
<1>8. \A p \in RestingOrders : p.arrival < x.arrival
  <2> SUFFICES ASSUME NEW y \in RestingOrders PROVE y.arrival < sequence
    BY <1>7
  <2>1. levels \in [Side -> [Prices -> Lists]]
    BY <1>1, TypedLevels
  <2>2. PICK s \in Side, p \in Prices : \E i \in 1 .. Len(levels[s][p]) : y = Shown(s, p, levels[s][p][i])
    BY <2>1, RestingMembers
  <2>3. PICK i \in 1 .. Len(levels[s][p]) : y = Shown(s, p, levels[s][p][i])
    BY <2>2
  <2>4. levels[s][p][i] \in RestingOrder
    BY <1>1, TypedLevels
  <2>5. y.arrival = levels[s][p][i].seq
    BY <2>3, <2>4, ShownBy
  <2> QED BY <2>5 DEF QueueInv, Queued
<1>9. (state = "open")' = (state = "open")
  BY <1>1
<1> HIDE DEF x, req
<1>10. \E o \in RestingOrders' :
         /\ RestingOrders' = RestingOrders \cup {o}
         /\ \A p \in RestingOrders : p.arrival < o.arrival
         /\ <<o.id, o.agent, o.side, o.price, o.qty>> =
               <<IncomingOrder.id, IncomingOrder.agent, IncomingOrder.side, IncomingOrder.price, IncomingOrder.qty>>
  BY <1>3, <1>6, <1>7, <1>8
<1>11. QED
  BY <1>1, <1>3, <1>4, <1>5, <1>9, <1>10 DEF Exchange!Rest

LEMMA EndLeaves ==
    ASSUME QueueInv, Covered, CancelRemainder \/ Complete
    PROVE  Exchange!Leave
<1>1. /\ TypeOK /\ ~Idle /\ taker \in Taker /\ Matched /\ taker.remaining \in Nat
      /\ taker' = NoTaker /\ state' = state /\ levels' = levels
      /\ taker.remaining > 0 => ~Restable
  BY BoundsAssumption DEF QueueInv, IInv, TypeOK, CancelRemainder, Complete, Matched, Idle, bookVars, Taker
<1>2. IncomingOrder.qty = taker.remaining /\ (IncomingOrder.mayRest <=> Restable)
      /\ (IncomingOrder.allOrNothing <=> taker.req.tif = "fill_or_kill")
  BY <1>1, IncomingIs, IncomingFacts DEF Restable
<1>3. IncomingOrder' = NoTaker
  BY <1>1, IncomingIs DEF Idle
<1>4. RestingOrders' = RestingOrders
  BY <1>1, UnchangedShown
<1>5. ~Exchange!Idle
  BY <1>1, IdleAlike
<1>6. taker.remaining > 0 => Exchange!Acceptable = {} /\ taker.req.tif # "fill_or_kill"
  <2>1. taker.req.tif = "fill_or_kill" => taker.remaining = 0
    BY <1>1, FokDone
  <2> QED BY <1>1, <2>1, NothingToDealWith
<1>7. (state = "open")' = (state = "open")
  BY <1>1
<1>8. QED
  BY <1>1, <1>2, <1>3, <1>4, <1>5, <1>6, <1>7 DEF Exchange!Leave

-----------------------------------------------------------------------------
(* cancel(), replace() and set_state().                                    *)

(* RemoveOrder takes the located order out of the set.                     *)
LEMMA RemoveOrderShown ==
    ASSUME QueueInv, NEW id \in OrderIds, NEW agent \in Agents, NEW i,
           Located(id, agent, i), RemoveOrder(id, i)
    PROVE  \E x \in RestingOrders : /\ RestingOrders' = RestingOrders \ {x}
                                    /\ x.id = id /\ x.agent = agent /\ x.side = locators[id].side
<1> DEFINE s == locators[id].side
           p == locators[id].price
           o == levels[s][p][i]
<1>1. TypeOK
  BY DEF QueueInv, IInv
<1>2. s \in Side /\ p \in Prices /\ i \in 1 .. Len(levels[s][p]) /\ o \in RestingOrder
  BY <1>1, LocatedFacts, TypedLevels
<1>3. o.id = id /\ o.agent = agent
  BY DEF Located, Level
<1>4. Removal(s, p, i)
  BY <1>1, OrderRemoved
<1>5. Shown(s, p, o) \in RestingOrders /\ RestingOrders' = RestingOrders \ {Shown(s, p, o)}
  <2> HIDE DEF s, p
  <2> QED BY <1>2, <1>4, RemovalShown
<1>6. Shown(s, p, o).id = o.id /\ Shown(s, p, o).agent = o.agent /\ Shown(s, p, o).side = s
  BY <1>2, ShownBy
<1>7. QED
  BY <1>3, <1>5, <1>6

LEMMA CancelWithdraws ==
    ASSUME QueueInv, NEW id \in OrderIds, NEW agent \in Agents, NEW i, NEW t, Cancel(id, agent, i, t)
    PROVE  Exchange!Withdraw
<1>1. /\ Idle /\ Located(id, agent, i) /\ RemoveOrder(id, i) /\ state' = state /\ taker' = taker /\ TypeOK
  BY DEF Cancel, QueueInv, IInv
<1>2. \E x \in RestingOrders : RestingOrders' = RestingOrders \ {x}
  BY <1>1, RemoveOrderShown
<1>3. IncomingOrder' = IncomingOrder
  BY <1>1, IncomingIs DEF Idle
<1>4. Exchange!Idle /\ (state = "open")' = (state = "open")
  BY <1>1, IdleAlike
<1>5. QED
  BY <1>2, <1>3, <1>4 DEF Exchange!Withdraw

LEMMA ReduceReduces ==
    ASSUME QueueInv, NEW id \in OrderIds, NEW agent \in Agents, NEW i, NEW t \in Times,
           NEW price \in 0 .. MaxPrice, NEW qty \in 0 .. MaxQuantity,
           ReduceInPlace(id, agent, i, price, qty, t)
    PROVE  Exchange!Reduce
<1> DEFINE s == locators[id].side
           p == locators[id].price
           x == Shown(s, p, levels[s][p][i])
<1>1. /\ Idle /\ Located(id, agent, i) /\ KeepsPriority(id, i, price, qty)
      /\ state' = state /\ taker' = taker /\ TypeOK
      /\ levels' = [levels EXCEPT ![s][p] = [levels[s][p] EXCEPT ![i].qty = qty]]
  BY DEF ReduceInPlace, QueueInv, IInv
<1>2. s \in Side /\ p \in Prices /\ i \in 1 .. Len(levels[s][p]) /\ levels[s][p][i] \in RestingOrder
  BY <1>1, LocatedFacts, TypedLevels
<1>3. qty \in 1 .. MaxQuantity /\ qty <= levels[s][p][i].qty
  <2>1. qty >= MinimumOrderSize /\ qty <= levels[s][p][i].qty
    BY <1>1 DEF KeepsPriority, ValidQuantity, Level
  <2> QED BY <2>1, ConfigAssumption, BoundsAssumption
<1>4. x \in RestingOrders /\ RestingOrders' = (RestingOrders \ {x}) \cup {[x EXCEPT !.qty = qty]}
  <2> HIDE DEF s, p
  <2> QED BY <1>1, <1>2, <1>3, QuantityShown
<1>5. qty \in 1 .. x.qty
  <2>1. x.qty = levels[s][p][i].qty /\ levels[s][p][i].qty \in Nat
    <3>1. x.qty = levels[s][p][i].qty
      BY <1>2, ShownBy
    <3>2. \A o \in RestingOrder : o.qty \in Nat
      BY BoundsAssumption DEF RestingOrder
    <3> QED BY <1>2, <3>1, <3>2
  <2> HIDE DEF x
  <2> QED BY <1>3, <2>1
<1>6. IncomingOrder' = IncomingOrder
  BY <1>1, IncomingIs DEF Idle
<1>7. Exchange!Idle /\ (state = "open")' = (state = "open")
  BY <1>1, IdleAlike
<1>8. QED
  <2> HIDE DEF x
  <2> QED BY <1>4, <1>5, <1>6, <1>7 DEF Exchange!Reduce

LEMMA RestingActiveNext == (QueueInv => \A x \in RestingOrders : Active(x.id))'
<1>1. QueueInv => \A x \in RestingOrders : Active(x.id)
  BY RestingActive
<1>2. QED
  BY <1>1, PTL

LEMMA ResubmitRequotes ==
    ASSUME QueueInv, NEW id \in OrderIds, NEW agent \in Agents, NEW i, NEW t \in Times,
           NEW price \in 0 .. MaxPrice, NEW qty \in 0 .. MaxQuantity,
           CancelAndResubmit(id, agent, i, price, qty, t)
    PROVE  Exchange!Requote \/ Exchange!Withdraw
<1> DEFINE loc == locators[id]
           req == [id |-> id, agent |-> agent, side |-> loc.side, type |-> "limit",
                   tif |-> "good_til_cancel", price |-> price, qty |-> qty, postOnly |-> FALSE]
           accepted == t >= lastTime /\ state = "open" /\ ValidQuantity(qty) /\ ValidPrice(req)
           flight == [req |-> req, remaining |-> qty, stopped |-> FALSE, replacing |-> TRUE]
<1>1. /\ Idle /\ Located(id, agent, i) /\ RemoveOrder(id, i) /\ state' = state /\ TypeOK
      /\ taker' = IF accepted THEN flight ELSE NoTaker
  BY DEF CancelAndResubmit, QueueInv, IInv
<1>2. PICK x \in RestingOrders : /\ RestingOrders' = RestingOrders \ {x}
                                 /\ x.id = id /\ x.agent = agent /\ x.side = loc.side
  BY <1>1, RemoveOrderShown
<1>3. Exchange!Idle /\ (state = "open")' = (state = "open") /\ IncomingOrder = NoTaker
  BY <1>1, IdleAlike, IncomingIs
<1>4. CASE ~accepted
  <2>1. taker' = NoTaker
    <3> HIDE DEF accepted, flight
    <3> QED BY <1>1, <1>4
  <2>2. IncomingOrder' = IncomingOrder
    BY <1>3, <2>1, IncomingIs DEF Idle
  <2> QED BY <1>2, <1>3, <2>2 DEF Exchange!Withdraw
<1>5. CASE accepted
  <2>1. taker' = flight
    <3> HIDE DEF accepted, flight
    <3> QED BY <1>1, <1>5
  <2>2. qty > 0 /\ state = "open"
    <3>1. qty >= MinimumOrderSize /\ state = "open"
      BY <1>5 DEF ValidQuantity
    <3> QED BY <3>1, ConfigAssumption, BoundsAssumption
  <2>3. flight \in Taker
    <3>1. loc.side \in Side
      BY <1>1, LocatedFacts
    <3>2. req \in Request
      <4> HIDE DEF loc
      <4> QED BY <3>1 DEF Request
    <3> HIDE DEF req
    <3> QED BY <3>2 DEF Taker
  <2>4. flight.req = req /\ flight.remaining = qty /\ req.id = id /\ req.agent = agent /\ req.side = loc.side
    OBVIOUS
  <2>5. IncomingOrder' = Incoming(flight)
    <3>1. ~Idle'
      BY <2>1, <2>3, AbsentAssumption DEF Idle
    <3> HIDE DEF flight
    <3> QED BY <2>1, <3>1, IncomingIs
  <2>6. IncomingOrder' # NoTaker /\ IncomingOrder'.qty = qty /\ IncomingOrder'.id = id
        /\ IncomingOrder'.agent = agent /\ IncomingOrder'.side = loc.side
    <3> HIDE DEF flight, req
    <3>1. /\ Incoming(flight) # NoTaker /\ Incoming(flight).qty = flight.remaining
          /\ Incoming(flight).id = flight.req.id /\ Incoming(flight).agent = flight.req.agent
          /\ Incoming(flight).side = flight.req.side
      BY <2>3, IncomingFacts
    <3> QED BY <2>4, <2>5, <3>1
  <2>7. \A y \in RestingOrders' : y.id # IncomingOrder'.id
    <3> SUFFICES ASSUME NEW y \in RestingOrders' PROVE y.id # id
      BY <2>6
    <3>1. QueueInv'
      <4>1. IInv'
        BY CancelAndResubmitInv DEF QueueInv
      <4>2. Placed' /\ Found' /\ Queued'
        BY AmendKeeps
      <4> QED BY <4>1, <4>2 DEF QueueInv
    <3>2. Active(y.id)'
      BY <3>1, RestingActiveNext
    <3>3. ~Active(id)'
      BY <1>1, RemoveOrderThins
    <3>4. ASSUME y.id = id PROVE FALSE
      BY <3>2, <3>3, <3>4 DEF Active
    <3> QED BY <3>4
  <2>8. Exchange!Enter(RestingOrders')
    BY <2>2, <2>6, <2>7 DEF Exchange!Enter
  <2>9. Exchange!Requote
    <3> HIDE DEF loc
    <3> QED BY <1>2, <1>3, <2>6, <2>8 DEF Exchange!Requote
  <2> QED BY <2>9
<1>6. QED
  BY <1>4, <1>5

LEMMA SetStateChanges ==
    ASSUME TypeOK, NEW next, NEW t, SetState(next, t)
    PROVE  Exchange!ChangeState
<1>1. Idle /\ taker' = taker /\ levels' = levels
  BY DEF SetState
<1>2. RestingOrders' = RestingOrders /\ IncomingOrder' = IncomingOrder /\ Exchange!Idle
  BY <1>1, UnchangedShown, IdleAlike, IncomingIs DEF Idle
<1>3. QED
  BY <1>2 DEF Exchange!ChangeState

-----------------------------------------------------------------------------
LEMMA ExchangeInit == Init => Exchange!Init
<1> SUFFICES ASSUME Init PROVE Exchange!Init
  OBVIOUS
<1>1. TypeOK /\ Idle /\ state = "open"
  BY InitInv DEF IInv, Init, Idle
<1>2. \A s \in Side, p \in Prices : 1 .. Len(levels[s][p]) = {}
  <2>1. Len(<<>>) = 0 /\ 1 .. 0 = {}
    BY EmptySeq
  <2> QED BY <2>1 DEF Init
<1>3. RestingOrders = {}
  <2>1. levels \in [Side -> [Prices -> Lists]]
    BY <1>1, TypedLevels
  <2>2. \A x : x \notin RestingOrders
    BY <1>2, <2>1, RestingMembers
  <2> QED BY <2>2
<1>4. IncomingOrder = NoTaker
  BY <1>1, IncomingIs
<1>5. QED
  BY <1>1, <1>3, <1>4 DEF Exchange!Init

(* What the matching loop does, the exchange does.                         *)
LEMMA MatchIsExchange ==
    ASSUME QueueInv, Covered, Match
    PROVE  Exchange!Next
<1>1. CASE \E price \in Prices : Fill(price) \/ StopNewest(price) \/ CancelOldest(price)
  BY <1>1, FillTrades, StopNewestPrevents, CancelOldestPrevents DEF Exchange!Next
<1>2. CASE Rest
  BY <1>2, RestRests DEF Exchange!Next
<1>3. CASE CancelRemainder \/ Complete
  BY <1>3, EndLeaves DEF Exchange!Next
<1>4. QED
  BY <1>1, <1>2, <1>3 DEF Match

LEMMA AmendIsExchange ==
    ASSUME QueueInv, Amend
    PROVE  Exchange!Next
<1>1. PICK id \in OrderIds, agent \in Agents, i \in 1 .. Cardinality(OrderIds), t \in Times :
         \/ Cancel(id, agent, i, t)
         \/ \E price \in 0 .. MaxPrice, qty \in 0 .. MaxQuantity :
              \/ ReduceInPlace(id, agent, i, price, qty, t)
              \/ CancelAndResubmit(id, agent, i, price, qty, t)
  BY DEF Amend
<1>2. CASE Cancel(id, agent, i, t)
  BY <1>2, CancelWithdraws DEF Exchange!Next
<1>3. CASE \E price \in 0 .. MaxPrice, qty \in 0 .. MaxQuantity : ReduceInPlace(id, agent, i, price, qty, t)
  BY <1>3, ReduceReduces DEF Exchange!Next
<1>4. CASE \E price \in 0 .. MaxPrice, qty \in 0 .. MaxQuantity : CancelAndResubmit(id, agent, i, price, qty, t)
  BY <1>4, ResubmitRequotes DEF Exchange!Next
<1>5. QED
  BY <1>1, <1>2, <1>3, <1>4

LEMMA StepIsExchange ==
    QueueInv /\ Covered /\ [Next]_vars => [Exchange!Next]_Exchange!vars
<1> SUFFICES ASSUME QueueInv, Covered, [Next]_vars PROVE [Exchange!Next]_Exchange!vars
  OBVIOUS
<1>1. TypeOK
  BY DEF QueueInv, IInv
<1>2. CASE Submit
  BY <1>2, RejectStutters, AcceptAdmits DEF Submit, Exchange!Next
<1>3. CASE Match
  BY <1>3, MatchIsExchange
<1>4. CASE Amend
  BY <1>4, AmendIsExchange
<1>5. CASE \E next \in BookStates, t \in Times : SetState(next, t)
  BY <1>1, <1>5, SetStateChanges DEF Exchange!Next
<1>6. CASE UNCHANGED vars
  <2>1. RestingOrders' = RestingOrders
    BY <1>6, UnchangedShown DEF vars
  <2>2. IncomingOrder' = IncomingOrder
    BY <1>6, IncomingIs DEF vars, Idle
  <2> QED BY <1>6, <2>1, <2>2 DEF Exchange!vars, vars
<1>7. QED
  BY <1>2, <1>3, <1>4, <1>5, <1>6 DEF Next

(***************************************************************************)
(* The lists, locators and events of order_book.cpp implement the          *)
(* price-time exchange, for every number of orders, agents, prices and     *)
(* quantities and every self-trade prevention mode: each step of submit(), *)
(* cancel(), replace() and set_state() is a step of the exchange or leaves *)
(* what it shows alone.                                                    *)
(***************************************************************************)
THEOREM BookImplementsExchange == Spec => ImplementsExchange
<1>1. Init => QueueInv /\ Covered /\ Exchange!Init
  BY QueueInit, CoveredInit, ExchangeInit
<1>2. QueueInv /\ Covered /\ [Next]_vars => (QueueInv /\ Covered)' /\ [Exchange!Next]_Exchange!vars
  BY QueueNext, CoveredNext, StepIsExchange
<1>3. QED
  BY <1>1, <1>2, PTL DEF Spec, ImplementsExchange, Exchange!Spec

-----------------------------------------------------------------------------
(* The tape and the book.                                                  *)

(***************************************************************************)
(* What a reader of the tape believes while a call is in the loop too: of  *)
(* a resting order its quantity; of any other order nothing, except of the *)
(* taker, of which he believes what is left until self-trade prevention    *)
(* stops it.  A stopped taker has something left to cancel.                *)
(***************************************************************************)
Told ==
    /\ \A x \in RestingOrders : tape[x.id] = x.qty
    /\ \A id \in OrderIds : ~Active(id) /\ (Idle \/ id # taker.req.id) => tape[id] = 0
    /\ ~Idle => /\ ~taker.stopped => tape[taker.req.id] = taker.remaining
                /\ taker.stopped => taker.remaining > 0

LEMMA OneOrderPerId ==
    ASSUME QueueInv, NEW x \in RestingOrders, NEW y \in RestingOrders, x.id = y.id
    PROVE  x = y
<1>1. TypeOK /\ levels \in [Side -> [Prices -> Lists]]
  BY TypedLevels DEF QueueInv, IInv
<1>2. PICK s \in Side, p \in Prices : \E i \in 1 .. Len(levels[s][p]) : x = Shown(s, p, levels[s][p][i])
  BY <1>1, RestingMembers
<1>3. PICK i \in 1 .. Len(levels[s][p]) : x = Shown(s, p, levels[s][p][i])
  BY <1>2
<1>4. PICK t \in Side, r \in Prices : \E j \in 1 .. Len(levels[t][r]) : y = Shown(t, r, levels[t][r][j])
  BY <1>1, RestingMembers
<1>5. PICK j \in 1 .. Len(levels[t][r]) : y = Shown(t, r, levels[t][r][j])
  BY <1>4
<1>6. levels[s][p][i] \in RestingOrder /\ levels[t][r][j] \in RestingOrder
  BY <1>1, TypedLevels
<1>7. levels[s][p][i].id = levels[t][r][j].id
  <2>1. x.id = levels[s][p][i].id
    BY <1>3, <1>6, ShownBy
  <2>2. y.id = levels[t][r][j].id
    BY <1>5, <1>6, ShownBy
  <2> QED BY <2>1, <2>2
<1>8. s = t /\ p = r /\ i = j
  BY <1>7, KnownById
<1>9. QED
  BY <1>3, <1>5, <1>8

(* One order leaves and the tape of every other active order stays.        *)
LEMMA ToldWithout ==
    ASSUME QueueInv, Told, NEW x \in RestingOrders, RestingOrders' = RestingOrders \ {x},
           \A id \in OrderIds : id # x.id /\ Active(id) => tape'[id] = tape[id]
    PROVE  \A y \in RestingOrders' : tape'[y.id] = y.qty
<1> SUFFICES ASSUME NEW y \in RestingOrders' PROVE tape'[y.id] = y.qty
  OBVIOUS
<1>1. y \in RestingOrders /\ y # x
  OBVIOUS
<1>2. y.id # x.id
  BY <1>1, OneOrderPerId
<1>3. y.id \in OrderIds /\ Active(y.id)
  BY <1>1, RestingActive
<1>4. QED
  BY <1>1, <1>2, <1>3 DEF Told

(* One order has a new quantity and the tape of every other one stays.     *)
LEMMA ToldReduced ==
    ASSUME QueueInv, Told, NEW x \in RestingOrders, NEW n,
           RestingOrders' = (RestingOrders \ {x}) \cup {[x EXCEPT !.qty = n]},
           [x EXCEPT !.qty = n].id = x.id, [x EXCEPT !.qty = n].qty = n,
           tape'[x.id] = n,
           \A id \in OrderIds : id # x.id /\ Active(id) => tape'[id] = tape[id]
    PROVE  \A y \in RestingOrders' : tape'[y.id] = y.qty
<1> SUFFICES ASSUME NEW y \in RestingOrders' PROVE tape'[y.id] = y.qty
  OBVIOUS
<1>1. CASE y = [x EXCEPT !.qty = n]
  BY <1>1
<1>2. CASE y \in RestingOrders /\ y # x
  <2>1. y.id # x.id
    BY <1>2, OneOrderPerId
  <2>2. y.id \in OrderIds /\ Active(y.id)
    BY <1>2, RestingActive
  <2> QED BY <1>2, <2>1, <2>2 DEF Told
<1>3. QED
  BY <1>1, <1>2

(* Nothing changes in the book, nor on the tape of an active order.        *)
LEMMA ToldSame ==
    ASSUME QueueInv, Told, levels' = levels,
           \A id \in OrderIds : Active(id) => tape'[id] = tape[id]
    PROVE  \A y \in RestingOrders' : tape'[y.id] = y.qty
<1>1. RestingOrders' = RestingOrders
  BY UnchangedShown
<1>2. QED
  BY <1>1, RestingActive DEF Told

(* Between two events of the same time emit() does not throw.              *)
LEMMA EmitsNow ==
    ASSUME TypeOK, NEW n, NEW newTape, Emit(n, lastTime, newTape) PROVE tape' = newTape
<1>1. lastTime \in Nat
  BY BoundsAssumption DEF TypeOK
<1>2. QED
  BY <1>1 DEF Emit

(* An event the reader takes as the end of the order.                      *)
LEMMA CancelledIs ==
    ASSUME CancelIsTerminal, NEW aTape \in [OrderIds -> Int], NEW id \in OrderIds, NEW qty
    PROVE  /\ Cancelled(aTape, id, qty)[id] = 0
           /\ \A other \in OrderIds : other # id => Cancelled(aTape, id, qty)[other] = aTape[other]
BY DEF Cancelled

-----------------------------------------------------------------------------
LEMMA AcceptTold ==
    ASSUME QueueInv, Told, NEW req \in Request, NEW t \in Times, Accept(req, t)
    PROVE  Told'
<1>1. TypeOK /\ Idle /\ ~Active(req.id) /\ levels' = levels /\ locators' = locators
      /\ taker' = [req |-> req, remaining |-> req.qty, stopped |-> FALSE, replacing |-> FALSE]
      /\ t >= lastTime /\ Emit(1, t, [tape EXCEPT ![req.id] = req.qty])
  BY DEF QueueInv, IInv, Accept, Admissible, bookVars
<1>2. tape' = [tape EXCEPT ![req.id] = req.qty]
  <2>1. t \in Nat /\ lastTime \in Nat
    BY <1>1, BoundsAssumption DEF TypeOK
  <2> QED BY <1>1, <2>1 DEF Emit
<1>3. req.id \in OrderIds
  BY DEF Request
<1>4. tape'[req.id] = req.qty /\ \A id \in OrderIds : id # req.id => tape'[id] = tape[id]
  BY <1>1, <1>2, <1>3 DEF TypeOK
<1>5. \A y \in RestingOrders' : tape'[y.id] = y.qty
  BY <1>1, <1>4, ToldSame
<1>6. taker'.req = req /\ taker'.remaining = req.qty /\ taker'.stopped = FALSE
  BY <1>1
<1>7. \A id \in OrderIds : ~Active(id)' /\ id # req.id => tape'[id] = 0
  BY <1>1, <1>4 DEF Told, Active
<1>8. taker' # NoTaker
  <2>1. taker' \in Taker
    BY <1>1, BoundsAssumption DEF Taker, Request
  <2> QED BY <2>1, AbsentAssumption
<1>9. QED
  BY <1>4, <1>5, <1>6, <1>7, <1>8 DEF Told, Idle

LEMMA FillTold ==
    ASSUME QueueInv, Told, NEW price \in Prices, Fill(price)
    PROVE  Told'
<1> DEFINE side == Opposite(taker.req.side)
           list == levels[side][price]
           maker == Head(list)
           matched == IF taker.remaining <= maker.qty THEN taker.remaining ELSE maker.qty
           x == Shown(side, price, maker)
<1>1. TypeOK /\ Matching(price) /\ ~Idle /\ ~taker.stopped
  BY DEF QueueInv, IInv, Fill, Matching
<1>2. /\ side \in Side /\ list # <<>> /\ maker \in RestingOrder
      /\ taker \in Taker /\ taker.remaining \in 1 .. MaxQuantity /\ taker.req.id \in OrderIds
  BY <1>1, MatchingFacts
<1>3. maker.qty \in 1 .. MaxQuantity /\ matched \in 1 .. MaxQuantity /\ matched <= maker.qty
  <2>1. maker.qty \in 1 .. MaxQuantity
    BY <1>2 DEF RestingOrder
  <2> HIDE DEF maker
  <2> QED BY <1>2, <2>1, BoundsAssumption
<1>4. list \in Lists /\ 1 \in 1 .. Len(list) /\ maker = list[1]
  <2>1. list \in Lists
    BY <1>1, <1>2, TypedLevels
  <2> HIDE DEF list
  <2>2. 1 \in 1 .. Len(list) /\ Head(list) = list[1]
    BY <1>2, <2>1, TailOfList
  <2> QED BY <2>1, <2>2
<1>5. /\ taker' = [taker EXCEPT !.remaining = @ - matched]
      /\ matched = maker.qty => RemoveFront(side, price)
      /\ matched # maker.qty => /\ levels' = [levels EXCEPT ![side][price][1].qty = @ - matched]
                                /\ locators' = locators
      /\ Emit(1, lastTime, [tape EXCEPT ![maker.id] = @ - matched, ![taker.req.id] = @ - matched])
  BY DEF Fill
<1>6. x.id = maker.id /\ x.qty = maker.qty /\ x \in RestingOrders
  <2>1. levels \in [Side -> [Prices -> Lists]]
    BY <1>1, TypedLevels
  <2>2. x \in RestingOrders
    BY <1>2, <1>4, <2>1, RestingMembers
  <2> QED BY <1>2, <2>2, ShownBy
<1>7. maker.id \in OrderIds /\ Active(maker.id) /\ maker.id # taker.req.id /\ ~Active(taker.req.id)
  <2>1. maker.id \in OrderIds /\ Active(maker.id)
    BY <1>6, RestingActive
  <2>2. ~Active(taker.req.id)
    BY <1>1 DEF QueueInv, IInv, TakerInv
  <2> QED BY <2>1, <2>2
<1>8. /\ tape'[maker.id] = maker.qty - matched
      /\ tape'[taker.req.id] = taker.remaining - matched
      /\ \A id \in OrderIds : id # maker.id /\ id # taker.req.id => tape'[id] = tape[id]
  <2>1. tape' = [tape EXCEPT ![maker.id] = @ - matched, ![taker.req.id] = @ - matched]
    BY <1>1, <1>5, EmitsNow
  <2>2. tape[maker.id] = maker.qty /\ tape[taker.req.id] = taker.remaining
    BY <1>1, <1>6 DEF Told
  <2>3. tape \in [OrderIds -> Int]
    BY <1>1 DEF TypeOK
  <2> HIDE DEF maker, matched
  <2> QED BY <1>2, <1>7, <2>1, <2>2, <2>3
<1>9. \A id \in OrderIds : id # x.id /\ Active(id) => tape'[id] = tape[id]
  BY <1>6, <1>7, <1>8
<1>10. taker'.req = taker.req /\ taker'.remaining = taker.remaining - matched /\ taker'.stopped = taker.stopped
  BY <1>2, <1>5 DEF Taker
<1>11. ~Idle'
  BY <1>1, LoopGoesOn
<1>12. locators \in [OrderIds -> Locator \cup {NoLocator}]
  BY <1>1 DEF TypeOK
<1>13. /\ \A y \in RestingOrders' : tape'[y.id] = y.qty
       /\ \A id \in OrderIds : ~Active(id)' /\ id # taker.req.id => tape'[id] = 0
  <2>1. CASE matched = maker.qty
    <3>1. Removal(side, price, 1)
      BY <1>1, <1>2, <1>5, <2>1, FrontRemoved
    <3>2. RestingOrders' = RestingOrders \ {x}
      <4>1. RestingOrders' = RestingOrders \ {Shown(side, price, list[1])}
        <5> HIDE DEF side
        <5> QED BY <1>2, <1>4, <3>1, RemovalShown
      <4> QED BY <1>4, <4>1
    <3>3. locators' = [locators EXCEPT ![maker.id] = NoLocator]
      BY <1>4, <3>1 DEF Removal
    <3>4. \A y \in RestingOrders' : tape'[y.id] = y.qty
      <4> HIDE DEF x
      <4> QED BY <1>6, <1>9, <3>2, ToldWithout
    <3>5. ASSUME NEW id \in OrderIds, ~Active(id)', id # taker.req.id PROVE tape'[id] = 0
      <4>1. CASE id = maker.id
        <5> HIDE DEF maker, matched
        <5> QED BY <1>3, <1>8, <2>1, <4>1
      <4>2. CASE id # maker.id
        <5>1. ~Active(id)
          <6> HIDE DEF maker
          <6> QED BY <1>12, <3>3, <3>5, <4>2 DEF Active
        <5> QED BY <1>8, <3>5, <4>2, <5>1 DEF Told
      <4> QED BY <4>1, <4>2
    <3> QED BY <3>4, <3>5
  <2>2. CASE matched # maker.qty
    <3> DEFINE n == maker.qty - matched
    <3>1. n \in 1 .. MaxQuantity
      BY <1>3, <2>2, BoundsAssumption
    <3>2. levels' = [levels EXCEPT ![side][price] = [list EXCEPT ![1].qty = n]] /\ locators' = locators
      <4>1. levels' = [levels EXCEPT ![side][price][1].qty = @ - matched] /\ locators' = locators
        BY <1>5, <2>2
      <4>2. levels \in [Side -> [Prices -> Lists]]
        BY <1>1, TypedLevels
      <4> HIDE DEF matched
      <4> QED BY <1>2, <1>4, <4>1, <4>2
    <3>3. RestingOrders' = (RestingOrders \ {x}) \cup {[x EXCEPT !.qty = n]}
      <4> HIDE DEF side, n
      <4>1. n \in 1 .. MaxQuantity /\ side \in Side /\ 1 \in 1 .. Len(levels[side][price])
            /\ levels' = [levels EXCEPT ![side][price] = [levels[side][price] EXCEPT ![1].qty = n]]
        BY <1>2, <1>4, <3>1, <3>2
      <4>2. LET y == Shown(side, price, levels[side][price][1])
            IN  /\ y \in RestingOrders
                /\ RestingOrders' = (RestingOrders \ {y}) \cup {[y EXCEPT !.qty = n]}
        BY <4>1, QuantityShown
      <4> QED BY <1>4, <4>2
    <3>4. [x EXCEPT !.qty = n].id = x.id /\ [x EXCEPT !.qty = n].qty = n
      <4> HIDE DEF n, maker
      <4> QED BY DEF Shown
    <3>5. \A y \in RestingOrders' : tape'[y.id] = y.qty
      <4>1. tape'[x.id] = n
        BY <1>6, <1>8
      <4> HIDE DEF x, n
      <4> QED BY <1>6, <1>9, <3>3, <3>4, <4>1, ToldReduced
    <3>6. ASSUME NEW id \in OrderIds, ~Active(id)', id # taker.req.id PROVE tape'[id] = 0
      <4>1. ~Active(id)
        BY <3>2, <3>6 DEF Active
      <4> QED BY <1>7, <1>8, <3>6, <4>1 DEF Told
    <3> QED BY <3>5, <3>6
  <2> QED BY <2>1, <2>2
<1>14. QED
  <2> HIDE DEF matched, maker
  <2> QED BY <1>1, <1>8, <1>10, <1>11, <1>13 DEF Told

LEMMA StopNewestTold ==
    ASSUME QueueInv, Told, CancelIsTerminal, NEW price \in Prices, StopNewest(price)
    PROVE  Told'
<1>1. TypeOK /\ Matching(price) /\ ~Idle /\ taker.remaining > 0 /\ ~Active(taker.req.id)
  BY DEF QueueInv, IInv, TakerInv, StopNewest, Matching
<1>2. taker \in Taker /\ taker.req.id \in OrderIds
  BY <1>1, MatchingFacts
<1>3. /\ taker' = [taker EXCEPT !.stopped = TRUE] /\ levels' = levels /\ locators' = locators
      /\ Emit(1, lastTime, Cancelled(tape, taker.req.id, taker.remaining))
  BY DEF StopNewest, bookVars
<1>4. \A id \in OrderIds : id # taker.req.id => tape'[id] = tape[id]
  <2>1. tape' = Cancelled(tape, taker.req.id, taker.remaining)
    BY <1>1, <1>3, EmitsNow
  <2> QED BY <1>1, <1>2, <2>1, CancelledIs DEF TypeOK
<1>5. \A y \in RestingOrders' : tape'[y.id] = y.qty
  BY <1>1, <1>3, <1>4, ToldSame
<1>6. taker'.req = taker.req /\ taker'.remaining = taker.remaining /\ taker'.stopped
  BY <1>2, <1>3 DEF Taker
<1>7. \A id \in OrderIds : ~Active(id)' /\ id # taker.req.id => tape'[id] = 0
  BY <1>3, <1>4 DEF Told, Active
<1>8. ~Idle'
  BY <1>1, LoopGoesOn
<1>9. QED
  BY <1>1, <1>5, <1>6, <1>7, <1>8 DEF Told

LEMMA CancelOldestTold ==
    ASSUME QueueInv, Told, CancelIsTerminal, NEW price \in Prices, CancelOldest(price)
    PROVE  Told'
<1> DEFINE side == Opposite(taker.req.side)
           list == levels[side][price]
           maker == Head(list)
           x == Shown(side, price, maker)
<1>1. TypeOK /\ Matching(price) /\ ~Idle /\ taker.remaining > 0 /\ ~taker.stopped /\ ~Active(taker.req.id)
  BY DEF QueueInv, IInv, TakerInv, CancelOldest, Matching
<1>2. /\ side \in Side /\ list # <<>> /\ maker \in RestingOrder
      /\ taker \in Taker /\ taker.req.id \in OrderIds
  BY <1>1, MatchingFacts
<1>3. list \in Lists /\ 1 \in 1 .. Len(list) /\ maker = list[1]
  <2>1. list \in Lists
    BY <1>1, <1>2, TypedLevels
  <2> HIDE DEF list
  <2>2. 1 \in 1 .. Len(list) /\ Head(list) = list[1]
    BY <1>2, <2>1, TailOfList
  <2> QED BY <2>1, <2>2
<1>4. /\ taker' = [taker EXCEPT !.stopped = (stpMode = "cancel_both")]
      /\ RemoveFront(side, price)
      /\ Emit(1, lastTime, Cancelled(tape, maker.id, 0))
  BY DEF CancelOldest
<1>5. x.id = maker.id /\ x \in RestingOrders
  <2>1. levels \in [Side -> [Prices -> Lists]]
    BY <1>1, TypedLevels
  <2>2. x \in RestingOrders
    BY <1>2, <1>3, <2>1, RestingMembers
  <2> QED BY <1>2, <2>2, ShownBy
<1>6. maker.id \in OrderIds /\ maker.id # taker.req.id
  <2>1. maker.id \in OrderIds /\ Active(maker.id)
    BY <1>5, RestingActive
  <2> QED BY <1>1, <2>1
<1>7. tape'[maker.id] = 0 /\ \A id \in OrderIds : id # maker.id => tape'[id] = tape[id]
  <2>1. tape' = Cancelled(tape, maker.id, 0)
    BY <1>1, <1>4, EmitsNow
  <2> HIDE DEF maker
  <2> QED BY <1>1, <1>6, <2>1, CancelledIs DEF TypeOK
<1>8. Removal(side, price, 1)
  BY <1>1, <1>2, <1>4, FrontRemoved
<1>9. RestingOrders' = RestingOrders \ {x}
  <2>1. RestingOrders' = RestingOrders \ {Shown(side, price, list[1])}
    <3> HIDE DEF side
    <3> QED BY <1>2, <1>3, <1>8, RemovalShown
  <2> QED BY <1>3, <2>1
<1>10. \A y \in RestingOrders' : tape'[y.id] = y.qty
  <2>1. \A id \in OrderIds : id # x.id /\ Active(id) => tape'[id] = tape[id]
    BY <1>5, <1>7
  <2> HIDE DEF x
  <2> QED BY <1>5, <1>9, <2>1, ToldWithout
<1>11. \A id \in OrderIds : ~Active(id)' /\ id # taker.req.id => tape'[id] = 0
  <2>1. locators' = [locators EXCEPT ![maker.id] = NoLocator]
    BY <1>3, <1>8 DEF Removal
  <2>2. locators \in [OrderIds -> Locator \cup {NoLocator}]
    BY <1>1 DEF TypeOK
  <2> HIDE DEF maker
  <2> QED BY <1>7, <2>1, <2>2 DEF Told, Active
<1>12. taker'.req = taker.req /\ taker'.remaining = taker.remaining
  BY <1>2, <1>4, Zenon DEF Taker
<1>13. ~Idle'
  BY <1>1, LoopGoesOn
<1>14. tape'[taker.req.id] = taker.remaining
  BY <1>1, <1>2, <1>6, <1>7 DEF Told
<1>15. QED
  BY <1>1, <1>10, <1>11, <1>12, <1>13, <1>14 DEF Told

LEMMA RestTold ==
    ASSUME QueueInv, Told, Rest
    PROVE  Told'
<1> DEFINE req == taker.req
           order == [id |-> req.id, agent |-> req.agent, qty |-> taker.remaining, seq |-> sequence]
           x == Shown(req.side, req.price, order)
<1>1. /\ TypeOK /\ ~Idle /\ ~taker.stopped /\ taker' = NoTaker
      /\ Emit(1 + Closing, lastTime, tape)
  BY DEF QueueInv, IInv, Rest, Restable, Matched
<1>2. tape' = tape
  BY <1>1, EmitsNow
<1>3. /\ req.side \in Side /\ req.price \in Prices /\ order \in RestingOrder
      /\ ~Active(req.id) /\ order.id = req.id
      /\ Joining(req.side, req.price, order)
  BY RestIsJoining
<1>4. RestingOrders' = RestingOrders \cup {x}
  <2> HIDE DEF req, order
  <2> QED BY <1>3, JoiningShown
<1>5. x.id = req.id /\ x.qty = taker.remaining
  BY DEF Shown
<1>6. \A y \in RestingOrders' : tape'[y.id] = y.qty
  <2> HIDE DEF x
  <2> QED BY <1>1, <1>2, <1>4, <1>5 DEF Told
<1>7. locators' = [locators EXCEPT ![req.id] = [side |-> req.side, price |-> req.price]]
  <2> HIDE DEF order
  <2> QED BY <1>3 DEF Joining
<1>8. [side |-> req.side, price |-> req.price] # NoLocator
  BY <1>3, AbsentAssumption DEF Locator
<1>9. \A id \in OrderIds : ~Active(id)' => tape'[id] = 0
  <2>1. locators \in [OrderIds -> Locator \cup {NoLocator}]
    BY <1>1 DEF TypeOK
  <2>2. ASSUME NEW id \in OrderIds, ~Active(id)' PROVE id # req.id /\ ~Active(id)
    <3> HIDE DEF req
    <3> QED BY <1>7, <1>8, <2>1, <2>2 DEF Active
  <2> QED BY <1>2, <2>2 DEF Told
<1>10. QED
  BY <1>1, <1>6, <1>9 DEF Told, Idle

LEMMA EndTold ==
    ASSUME QueueInv, Told, CancelIsTerminal, CancelRemainder \/ Complete
    PROVE  Told'
<1>1. /\ TypeOK /\ ~Idle /\ taker \in Taker /\ taker.req.id \in OrderIds /\ taker.remaining \in Nat
      /\ ~Active(taker.req.id)
      /\ taker' = NoTaker /\ levels' = levels /\ locators' = locators
  BY BoundsAssumption DEF QueueInv, IInv, TakerInv, TypeOK, Idle, CancelRemainder, Complete, Matched,
        bookVars, Taker, Request
<1>2. tape'[taker.req.id] = 0 /\ \A id \in OrderIds : id # taker.req.id => tape'[id] = tape[id]
  <2>1. CASE CancelRemainder
    <3>1. tape' = Cancelled(tape, taker.req.id, taker.remaining)
      BY <1>1, <2>1, EmitsNow DEF CancelRemainder
    <3> QED BY <1>1, <3>1, CancelledIs DEF TypeOK
  <2>2. CASE Complete
    <3>1. taker.remaining = 0
      BY <2>2 DEF Complete
    <3>2. tape' = tape
      BY <1>1, <2>2, EmitsNow DEF Complete
    <3> QED BY <1>1, <3>1, <3>2 DEF Told
  <2> QED BY <2>1, <2>2
<1>3. \A y \in RestingOrders' : tape'[y.id] = y.qty
  BY <1>1, <1>2, ToldSame
<1>4. \A id \in OrderIds : ~Active(id)' => tape'[id] = 0
  BY <1>1, <1>2 DEF Told, Active
<1>5. QED
  BY <1>1, <1>3, <1>4 DEF Told, Idle

-----------------------------------------------------------------------------
(* What changes the lists reaches the tape: no caller is late, that is,    *)
(* passes a time before the last event's.                                  *)
Recorded == levels' # levels => sequence' # sequence

LEMMA EmittedOrLate ==
    ASSUME NEW n, NEW t, NEW newTape, Emit(n, t, newTape), Recorded
    PROVE  tape' = newTape \/ (levels' = levels /\ tape' = tape)
BY DEF Emit, Recorded

LEMMA CancelTold ==
    ASSUME QueueInv, Told, CancelIsTerminal, Recorded,
           NEW id \in OrderIds, NEW agent \in Agents, NEW i, NEW t, Cancel(id, agent, i, t)
    PROVE  Told'
<1>1. /\ TypeOK /\ Idle /\ Located(id, agent, i) /\ RemoveOrder(id, i) /\ taker' = taker
      /\ \E qty : Emit(1, t, Cancelled(tape, id, qty))
  BY DEF QueueInv, IInv, Cancel
<1>2. PICK x \in RestingOrders : RestingOrders' = RestingOrders \ {x} /\ x.id = id
  BY <1>1, RemoveOrderShown
<1>3. levels' # levels
  BY <1>2, UnchangedShown
<1>4. tape'[id] = 0 /\ \A other \in OrderIds : other # id => tape'[other] = tape[other]
  <2>1. \E qty : tape' = Cancelled(tape, id, qty)
    BY <1>1, <1>3, EmittedOrLate
  <2> QED BY <1>1, <2>1, CancelledIs DEF TypeOK
<1>5. \A y \in RestingOrders' : tape'[y.id] = y.qty
  BY <1>2, <1>4, ToldWithout
<1>6. \A other \in OrderIds : ~Active(other)' => tape'[other] = 0
  <2>1. locators' = [locators EXCEPT ![id] = NoLocator] /\ locators \in [OrderIds -> Locator \cup {NoLocator}]
    BY <1>1 DEF RemoveOrder, TypeOK
  <2> QED BY <1>1, <1>4, <2>1 DEF Told, Active
<1>7. QED
  BY <1>1, <1>5, <1>6 DEF Told, Idle

LEMMA ReduceTold ==
    ASSUME QueueInv, Told, Recorded, NEW id \in OrderIds, NEW agent \in Agents, NEW i, NEW t \in Times,
           NEW price \in 0 .. MaxPrice, NEW qty \in 0 .. MaxQuantity,
           ReduceInPlace(id, agent, i, price, qty, t)
    PROVE  Told'
<1> DEFINE s == locators[id].side
           p == locators[id].price
           x == Shown(s, p, levels[s][p][i])
<1>1. /\ Idle /\ Located(id, agent, i) /\ KeepsPriority(id, i, price, qty)
      /\ taker' = taker /\ TypeOK /\ locators' = locators
      /\ levels' = [levels EXCEPT ![s][p] = [levels[s][p] EXCEPT ![i].qty = qty]]
      /\ Emit(1, t, [tape EXCEPT ![id] = qty])
  BY DEF ReduceInPlace, QueueInv, IInv
<1>2. \A y \in RestingOrders' : tape'[y.id] = y.qty
  <2>1. CASE levels' = levels /\ tape' = tape
    BY <2>1, ToldSame
  <2>2. CASE tape' = [tape EXCEPT ![id] = qty]
    <3>1. s \in Side /\ p \in Prices /\ i \in 1 .. Len(levels[s][p]) /\ levels[s][p][i] \in RestingOrder
      BY <1>1, LocatedFacts, TypedLevels
    <3>2. qty \in 1 .. MaxQuantity
      <4>1. qty >= MinimumOrderSize
        BY <1>1 DEF KeepsPriority, ValidQuantity
      <4> QED BY <4>1, ConfigAssumption, BoundsAssumption
    <3>3. x \in RestingOrders /\ RestingOrders' = (RestingOrders \ {x}) \cup {[x EXCEPT !.qty = qty]}
      <4> HIDE DEF s, p
      <4> QED BY <1>1, <3>1, <3>2, QuantityShown
    <3>4. x.id = id
      <4>1. levels[s][p][i].id = id
        BY <1>1 DEF Located, Level
      <4> QED BY <3>1, <4>1, ShownBy
    <3>5. [x EXCEPT !.qty = qty].id = x.id /\ [x EXCEPT !.qty = qty].qty = qty
      BY DEF Shown
    <3>6. tape'[id] = qty /\ \A other \in OrderIds : other # id => tape'[other] = tape[other]
      BY <1>1, <2>2 DEF TypeOK
    <3> HIDE DEF x
    <3> QED BY <3>3, <3>4, <3>5, <3>6, ToldReduced
  <2> QED BY <1>1, <2>1, <2>2, EmittedOrLate
<1>3. \A other \in OrderIds : ~Active(other)' => tape'[other] = 0
  <2>1. Active(id)
    BY <1>1 DEF Located
  <2>2. \A other \in OrderIds : other # id => tape'[other] = tape[other]
    BY <1>1, EmittedOrLate DEF TypeOK
  <2> QED BY <1>1, <2>1, <2>2 DEF Told, Active
<1>4. QED
  BY <1>1, <1>2, <1>3 DEF Told, Idle

LEMMA ResubmitTold ==
    ASSUME QueueInv, Told, CancelIsTerminal, Recorded,
           NEW id \in OrderIds, NEW agent \in Agents, NEW i, NEW t \in Times,
           NEW price \in 0 .. MaxPrice, NEW qty \in 0 .. MaxQuantity,
           CancelAndResubmit(id, agent, i, price, qty, t)
    PROVE  Told'
<1> DEFINE loc == locators[id]
           req == [id |-> id, agent |-> agent, side |-> loc.side, type |-> "limit",
                   tif |-> "good_til_cancel", price |-> price, qty |-> qty, postOnly |-> FALSE]
           accepted == t >= lastTime /\ state = "open" /\ ValidQuantity(qty) /\ ValidPrice(req)
           flight == [req |-> req, remaining |-> qty, stopped |-> FALSE, replacing |-> TRUE]
           cancelled == Cancelled(tape, id, Level(loc)[i].qty)
           entered == [tape EXCEPT ![id] = qty]
<1>1. /\ TypeOK /\ Idle /\ Located(id, agent, i) /\ RemoveOrder(id, i)
      /\ taker' = IF accepted THEN flight ELSE NoTaker
      /\ Emit(2, t, IF accepted THEN entered ELSE cancelled)
  BY DEF QueueInv, IInv, CancelAndResubmit
<1>2. PICK x \in RestingOrders : RestingOrders' = RestingOrders \ {x} /\ x.id = id
  BY <1>1, RemoveOrderShown
<1>3. levels' # levels
  BY <1>2, UnchangedShown
<1>4. tape' = IF accepted THEN entered ELSE cancelled
  <2> HIDE DEF accepted, entered, cancelled
  <2> QED BY <1>1, <1>3, EmittedOrLate
<1>5. tape \in [OrderIds -> Int] /\ locators \in [OrderIds -> Locator \cup {NoLocator}]
      /\ locators' = [locators EXCEPT ![id] = NoLocator]
  BY <1>1 DEF TypeOK, RemoveOrder
<1>6. /\ \A other \in OrderIds : other # id => tape'[other] = tape[other]
      /\ accepted => tape'[id] = qty
      /\ ~accepted => tape'[id] = 0
  <2>1. entered[id] = qty /\ \A other \in OrderIds : other # id => entered[other] = tape[other]
    BY <1>5
  <2>2. cancelled[id] = 0 /\ \A other \in OrderIds : other # id => cancelled[other] = tape[other]
    BY <1>5, CancelledIs
  <2> HIDE DEF accepted, entered, cancelled
  <2> QED BY <1>4, <2>1, <2>2
<1>7. \A y \in RestingOrders' : tape'[y.id] = y.qty
  BY <1>2, <1>6, ToldWithout
<1>8. \A other \in OrderIds : ~Active(other)' /\ other # id => tape'[other] = 0
  BY <1>1, <1>5, <1>6 DEF Told, Active
<1>9. CASE ~accepted
  <2>1. taker' = NoTaker
    <3> HIDE DEF accepted, flight
    <3> QED BY <1>1, <1>9
  <2>2. tape'[id] = 0
    <3> HIDE DEF accepted
    <3> QED BY <1>6, <1>9
  <2> QED BY <1>7, <1>8, <2>1, <2>2 DEF Told, Idle
<1>10. CASE accepted
  <2>1. taker' = flight
    <3> HIDE DEF accepted, flight
    <3> QED BY <1>1, <1>10
  <2>2. tape'[id] = qty
    <3> HIDE DEF accepted
    <3> QED BY <1>6, <1>10
  <2>3. taker'.req = req /\ req.id = id /\ taker'.remaining = qty /\ taker'.stopped = FALSE
    BY <2>1
  <2>4. taker' \in Taker
    <3>1. loc.side \in Side
      BY <1>1, LocatedFacts
    <3>2. req \in Request
      <4> HIDE DEF loc
      <4> QED BY <3>1 DEF Request
    <3> HIDE DEF req
    <3> QED BY <2>1, <3>2 DEF Taker
  <2>5. taker' # NoTaker
    BY <2>4, AbsentAssumption
  <2> HIDE DEF req, accepted, flight
  <2> QED BY <1>7, <1>8, <2>2, <2>3, <2>5 DEF Told, Idle
<1>11. QED
  BY <1>9, <1>10

LEMMA UntouchedTold ==
    ASSUME QueueInv, Told, levels' = levels, locators' = locators, taker' = taker, tape' = tape
    PROVE  Told'
<1>1. \A y \in RestingOrders' : tape'[y.id] = y.qty
  BY ToldSame
<1>2. QED
  BY <1>1 DEF Told, Idle, Active

LEMMA ToldNext ==
    QueueInv /\ Told /\ CancelIsTerminal /\ [Next /\ Recorded]_vars => Told'
<1> SUFFICES ASSUME QueueInv, Told, CancelIsTerminal, [Next /\ Recorded]_vars PROVE Told'
  OBVIOUS
<1>1. CASE UNCHANGED vars
  BY <1>1, UntouchedTold DEF vars
<1>2. CASE Submit
  <2>1. PICK req \in Request, t \in Times : Reject(req, t) \/ Accept(req, t)
    BY <1>2 DEF Submit
  <2>2. CASE Reject(req, t)
    BY <2>2, UntouchedTold DEF Reject, bookVars, Emit
  <2> QED BY <2>1, <2>2, AcceptTold
<1>3. CASE Match
  BY <1>3, FillTold, StopNewestTold, CancelOldestTold, RestTold, EndTold DEF Match
<1>4. CASE Amend /\ Recorded
  <2>1. PICK id \in OrderIds, agent \in Agents, i \in 1 .. Cardinality(OrderIds), t \in Times :
         \/ Cancel(id, agent, i, t)
         \/ \E price \in 0 .. MaxPrice, qty \in 0 .. MaxQuantity :
              \/ ReduceInPlace(id, agent, i, price, qty, t)
              \/ CancelAndResubmit(id, agent, i, price, qty, t)
    BY <1>4 DEF Amend
  <2>2. CASE Cancel(id, agent, i, t)
    BY <1>4, <2>2, CancelTold
  <2>3. CASE \E price \in 0 .. MaxPrice, qty \in 0 .. MaxQuantity : ReduceInPlace(id, agent, i, price, qty, t)
    BY <1>4, <2>3, ReduceTold
  <2>4. CASE \E price \in 0 .. MaxPrice, qty \in 0 .. MaxQuantity : CancelAndResubmit(id, agent, i, price, qty, t)
    BY <1>4, <2>4, ResubmitTold
  <2> QED BY <2>1, <2>2, <2>3, <2>4
<1>5. CASE \E next \in BookStates, t \in Times : SetState(next, t)
  BY <1>5, UntouchedTold DEF SetState, Emit
<1>6. QED
  BY <1>1, <1>2, <1>3, <1>4, <1>5 DEF Next

LEMMA ToldInit == Init => Told
<1> SUFFICES ASSUME Init PROVE Told
  OBVIOUS
<1>1. RestingOrders = {} /\ Idle
  BY ExchangeInit DEF Exchange!Init, Init, Idle
<1>2. QED
  BY <1>1 DEF Init, Told

LEMMA ToldMatches == QueueInv /\ Told => TapeMatchesBook
<1> SUFFICES ASSUME QueueInv, Told, Idle, NEW id \in OrderIds PROVE tape[id] = RestingQuantity(id)
  BY DEF TapeMatchesBook
<1>1. CASE ~Active(id)
  BY <1>1 DEF Told, RestingQuantity
<1>2. CASE Active(id)
  <2> DEFINE s == locators[id].side
             p == locators[id].price
             k == CHOOSE i \in 1 .. Len(levels[s][p]) : levels[s][p][i].id = id
  <2>1. TypeOK /\ levels \in [Side -> [Prices -> Lists]] /\ s \in Side /\ p \in Prices
    BY <1>2, TypedLevels DEF QueueInv, IInv, TypeOK, Active, Locator
  <2>2. \E i \in 1 .. Len(levels[s][p]) : levels[s][p][i].id = id
    BY <1>2 DEF QueueInv, Found, Level
  <2>3. k \in 1 .. Len(levels[s][p]) /\ levels[s][p][k].id = id
    BY <2>2
  <2>4. RestingQuantity(id) = levels[s][p][k].qty
    BY <1>2 DEF RestingQuantity, Level
  <2> HIDE DEF k
  <2>5. levels[s][p][k] \in RestingOrder
    BY <2>1, <2>3, TypedLevels
  <2>6. Shown(s, p, levels[s][p][k]) \in RestingOrders
    BY <2>1, <2>3, RestingMembers
  <2>7. Shown(s, p, levels[s][p][k]).id = id /\ Shown(s, p, levels[s][p][k]).qty = levels[s][p][k].qty
    BY <2>1, <2>3, <2>5, ShownBy
  <2> QED BY <2>4, <2>6, <2>7 DEF Told
<1>3. QED
  BY <1>1, <1>2

(***************************************************************************)
(* As long as no caller is late, and for a reader who takes                *)
(* order_cancelled as the end of the order, the tape adds up, order by     *)
(* order, to what rests, after any sequence of calls.  Both hypotheses are *)
(* needed: without them the code's tape and its book come apart.           *)
(***************************************************************************)
THEOREM TapeAddsUp ==
    Spec /\ [][Recorded]_vars /\ CancelIsTerminal => []TapeMatchesBook
<1>1. Init => QueueInv /\ Told
  BY QueueInit, ToldInit
<1>2. ASSUME CancelIsTerminal
      PROVE  QueueInv /\ Told /\ [Next]_vars /\ [Recorded]_vars => (QueueInv /\ Told)'
  BY <1>2, QueueNext, ToldNext
<1>3. QueueInv /\ Told => TapeMatchesBook
  BY ToldMatches
<1>4. SUFFICES ASSUME CancelIsTerminal PROVE Spec /\ [][Recorded]_vars => []TapeMatchesBook
  OBVIOUS
<1>5. QED
  BY <1>1, <1>2, <1>3, <1>4, PTL DEF Spec

-----------------------------------------------------------------------------
(***************************************************************************)
(* The views and the snapshot.                                             *)
(***************************************************************************)
(* BestFirst() lists every occupied price once, best first.                *)
LEMMA BestFirstIs ==
    ASSUME NEW side \in Side
    PROVE  LET m == Cardinality(Occupied(side))
               prices == BestFirst(side)
           IN  /\ m \in Nat /\ m <= MaxPrice
               /\ prices \in [1 .. m -> Occupied(side)]
               /\ \A i, j \in 1 .. m : i < j => Better(side, prices[i], prices[j])
               /\ \A i, j \in 1 .. m : prices[i] = prices[j] => i = j
               /\ \A p \in Occupied(side) : \E i \in 1 .. m : prices[i] = p
  <1> DEFINE S == Occupied(side)
             m == Cardinality(S)
             Q(s) == \A i, j \in DOMAIN s : i < j => Better(side, s[i], s[j])
             prices == CHOOSE s \in [1 .. m -> S] : Q(s)
  <1>1. S \in SUBSET (1 .. MaxPrice) /\ S \in SUBSET Int /\ MaxPrice \in Nat
    BY BoundsAssumption DEF Occupied, Prices
  <1>2. IsFiniteSet(1 .. MaxPrice) /\ Cardinality(1 .. MaxPrice) = MaxPrice
    BY <1>1, FS_Interval
  <1>3. IsFiniteSet(S) /\ m \in Nat /\ m <= MaxPrice
    <2> HIDE DEF S
    <2> QED BY <1>1, <1>2, FS_Subset, FS_CardinalityType
  <1>4. \E s \in [1 .. m -> S] : Q(s)
    <2>1. CASE side = "buy"
      <3>1. \E s \in [1 .. m -> S] : \A i, j \in 1 .. m : i < j => s[i] > s[j]
        <4> HIDE DEF S
        <4> QED BY <1>1, <1>3, DescendingList
      <3> QED BY <2>1, <3>1 DEF Better
    <2>2. CASE side = "sell"
      <3>1. \E s \in [1 .. m -> S] : \A i, j \in 1 .. m : i < j => s[i] < s[j]
        <4> HIDE DEF S
        <4> QED BY <1>1, <1>3, AscendingList
      <3> QED BY <2>2, <3>1 DEF Better
    <2> QED BY <2>1, <2>2 DEF Side
  <1>5. prices \in [1 .. m -> S] /\ Q(prices)
    <2> HIDE DEF Q, S, m
    <2> QED BY ONLY <1>4, Zenon DEF prices
  <1>6. prices = BestFirst(side)
    BY DEF BestFirst
  <1> HIDE DEF prices
  <1>7. \A i, j \in 1 .. m : i < j => Better(side, prices[i], prices[j])
    BY <1>5
  <1>8. \A i, j \in 1 .. m : prices[i] = prices[j] => i = j
    <2> SUFFICES ASSUME NEW i \in 1 .. m, NEW j \in 1 .. m, i < j PROVE prices[i] # prices[j]
      BY <1>3
    <2>1. prices[i] \in S /\ prices[j] \in S
      BY <1>5
    <2>2. prices[i] \in Int /\ prices[j] \in Int
      BY <1>1, <2>1
    <2>3. Better(side, prices[i], prices[j])
      BY <1>7
    <2> QED BY <2>2, <2>3 DEF Better
  <1>9. \A p \in S : \E i \in 1 .. m : prices[i] = p
    <2> HIDE DEF S
    <2> QED BY <1>3, <1>5, <1>8, ListsAll
  <1> QED BY <1>3, <1>5, <1>6, <1>7, <1>8, <1>9

-----------------------------------------------------------------------------
(***************************************************************************)
(* A side as the views list it: the k-th occupied price, its orders, how   *)
(* many orders rest before it, and all of them, best price first.          *)
(***************************************************************************)
Rungs(side) == Cardinality(Occupied(side))
Rung(side, k) == levels[side][BestFirst(side)[k]]
Before(side) == PrefixSums([k \in 1 .. Rungs(side) |-> Len(Rung(side, k))], Rungs(side))
Everything(side) ==
    FlattenSeq([k \in 1 .. Rungs(side) |->
                   [i \in 1 .. Len(Rung(side, k)) |-> <<BestFirst(side)[k], Rung(side, k)[i]>>]])

(***************************************************************************)
(* Where each order is in the list of all: the i-th of the k-th price is   *)
(* behind those of the better prices and the i - 1 before it.              *)
(***************************************************************************)
LEMMA Listing ==
    ASSUME TypeOK, NEW side \in Side
    PROVE  LET m == Rungs(side)
               off == Before(side)
               all == Everything(side)
           IN  /\ m \in Nat
               /\ off \in [0 .. m -> Nat] /\ off[0] = 0
               /\ \A k \in 1 .. m : off[k] = off[k - 1] + Len(Rung(side, k))
               /\ all \in Seq(Prices \X RestingOrder) /\ Len(all) = off[m]
               /\ \A k \in 1 .. m :
                     /\ BestFirst(side)[k] \in Prices /\ Rung(side, k) \in Lists
                     /\ Len(Rung(side, k)) \in Nat
                     /\ \A i \in 1 .. Len(Rung(side, k)) :
                        /\ off[k - 1] + i \in 1 .. off[m]
                        /\ Rung(side, k)[i] \in RestingOrder
                        /\ all[off[k - 1] + i] = <<BestFirst(side)[k], Rung(side, k)[i]>>
               /\ \A n \in 1 .. off[m] : \E k \in 1 .. m : \E i \in 1 .. Len(Rung(side, k)) :
                     n = off[k - 1] + i
  <1> DEFINE m == Rungs(side)
             off == Before(side)
             count == [k \in 1 .. m |-> Len(Rung(side, k))]
             list(k) == [i \in 1 .. Len(Rung(side, k)) |-> <<BestFirst(side)[k], Rung(side, k)[i]>>]
             lists == [k \in 1 .. m |-> list(k)]
             E == Prices \X RestingOrder
  <1>1. m \in Nat /\ \A k \in 1 .. m : BestFirst(side)[k] \in Prices
    BY BestFirstIs DEF Rungs, Occupied
  <1> HIDE DEF m
  <1>2. ASSUME NEW k \in 1 .. m
        PROVE  /\ Rung(side, k) \in Lists /\ Len(Rung(side, k)) \in Nat
               /\ \A i \in 1 .. Len(Rung(side, k)) : Rung(side, k)[i] \in RestingOrder
    BY <1>1, TypedLevels, TypedOrders DEF Rung
  <1>3. count \in [1 .. m -> Nat] /\ \A k \in 1 .. m : count[k] = Len(Rung(side, k))
    BY <1>2
  <1>4. off = PrefixSums(count, m)
    BY DEF Before, m
  <1> HIDE DEF off, count
  <1>5. /\ off \in [0 .. m -> Nat] /\ off[0] = 0
        /\ \A k \in 1 .. m : off[k] = off[k - 1] + count[k]
    BY <1>1, <1>3, <1>4, RunningSums
  <1>6. ASSUME NEW k \in 1 .. m
        PROVE  /\ list(k) \in Seq(E) /\ Len(list(k)) = Len(Rung(side, k))
    <2> DEFINE n == Len(Rung(side, k))
    <2>1. n \in Nat /\ \A i \in 1 .. n : <<BestFirst(side)[k], Rung(side, k)[i]>> \in E
      BY <1>1, <1>2
    <2> HIDE DEF n, E
    <2>2. [i \in 1 .. n |-> <<BestFirst(side)[k], Rung(side, k)[i]>>] \in Seq(E)
      BY <2>1
    <2>3. Len([i \in 1 .. n |-> <<BestFirst(side)[k], Rung(side, k)[i]>>]) = n
      BY <2>1
    <2> QED BY <2>2, <2>3 DEF n
  <1>7. /\ lists \in [1 .. m -> Seq(E)]
        /\ \A k \in 1 .. m : lists[k] = list(k) /\ Len(lists[k]) = Len(Rung(side, k))
    <2> HIDE DEF list, E
    <2> QED BY <1>6
  <1>8. Everything(side) = FlattenSeq(lists)
    BY DEF Everything, m
  <1> HIDE DEF lists
  <1>9. /\ FlattenSeq(lists) \in Seq(E) /\ Len(FlattenSeq(lists)) = off[m]
        /\ \A k \in 1 .. m : \A i \in 1 .. Len(lists[k]) :
              /\ off[k - 1] + i \in 1 .. off[m]
              /\ FlattenSeq(lists)[off[k - 1] + i] = lists[k][i]
    <2>1. \A k \in 1 .. m : off[k] = off[k - 1] + Len(lists[k])
      BY <1>3, <1>5, <1>7
    <2> HIDE DEF E, list
    <2>2. off[0] = 0 /\ lists \in [1 .. m -> Seq(E)] /\ off \in [0 .. m -> Nat] /\ m \in Nat
      BY <1>1, <1>5, <1>7
    <2>3. FlattenSeq(lists) \in Seq(E) /\ LaidOut(FlattenSeq(lists), lists, off, m)
      BY ONLY <2>1, <2>2, Flattened
    <2> QED BY <2>3 DEF LaidOut
  <1>10. ASSUME NEW k \in 1 .. m, NEW i \in 1 .. Len(Rung(side, k))
         PROVE  /\ off[k - 1] + i \in 1 .. off[m]
                /\ Everything(side)[off[k - 1] + i] = <<BestFirst(side)[k], Rung(side, k)[i]>>
    <2>1. i \in 1 .. Len(lists[k]) /\ lists[k][i] = <<BestFirst(side)[k], Rung(side, k)[i]>>
      BY <1>7
    <2> QED BY <1>8, <1>9, <2>1
  <1>11. \A n \in 1 .. off[m] : \E k \in 1 .. m : \E i \in 1 .. Len(Rung(side, k)) : n = off[k - 1] + i
    <2>1. \A n \in 1 .. off[m] : \E k \in 1 .. m : \E i \in 1 .. count[k] : n = off[k - 1] + i
      BY <1>1, <1>3, <1>5, PlaceInLists
    <2> QED BY <1>3, <2>1
  <1>12. \A k \in 1 .. m : off[k] = off[k - 1] + Len(Rung(side, k))
    BY <1>3, <1>5
  <1> QED BY <1>1, <1>2, <1>5, <1>8, <1>9, <1>10, <1>11, <1>12 DEF m, off

-----------------------------------------------------------------------------
(* What is listed is active, and its locator names side and price.         *)
LEMMA EntryActive ==
    ASSUME QueueInv, NEW side \in Side, NEW k \in 1 .. Rungs(side), NEW i \in 1 .. Len(Rung(side, k))
    PROVE  /\ Rung(side, k)[i].id \in ActiveIds
           /\ locators[Rung(side, k)[i].id] = [side |-> side, price |-> BestFirst(side)[k]]
  <1>1. TypeOK /\ Placed
    BY DEF QueueInv, IInv
  <1>2. BestFirst(side)[k] \in Prices /\ Rung(side, k)[i] \in RestingOrder
    BY <1>1, Listing
  <1>3. locators[Rung(side, k)[i].id] = [side |-> side, price |-> BestFirst(side)[k]]
    BY <1>1, <1>2 DEF Placed, Rung
  <1>4. [side |-> side, price |-> BestFirst(side)[k]] \in Locator
    BY <1>2 DEF Locator
  <1>5. Rung(side, k)[i].id \in OrderIds
    BY <1>2 DEF RestingOrder
  <1> QED BY <1>3, <1>4, <1>5, AbsentAssumption DEF ActiveIds, Active

(* No order is listed twice.                                               *)
LEMMA SameEntry ==
    ASSUME QueueInv, NEW side \in Side,
           NEW k \in 1 .. Rungs(side), NEW i \in 1 .. Len(Rung(side, k)),
           NEW l \in 1 .. Rungs(side), NEW j \in 1 .. Len(Rung(side, l)),
           Rung(side, k)[i].id = Rung(side, l)[j].id
    PROVE  k = l /\ i = j
  <1>1. BestFirst(side)[k] = BestFirst(side)[l]
    <2>1. locators[Rung(side, k)[i].id] = [side |-> side, price |-> BestFirst(side)[k]]
      BY EntryActive
    <2>2. locators[Rung(side, l)[j].id] = [side |-> side, price |-> BestFirst(side)[l]]
      BY EntryActive
    <2> QED BY <2>1, <2>2
  <1>2. k = l
    BY <1>1, BestFirstIs DEF Rungs
  <1>3. BestFirst(side)[k] \in Prices
    BY Listing DEF QueueInv, IInv
  <1>4. i = j
    BY <1>2, <1>3 DEF QueueInv, Placed, Rung
  <1> QED BY <1>2, <1>4

\* An active order is listed on its side.
LEMMA ActiveEntry ==
    ASSUME QueueInv, NEW id \in ActiveIds
    PROVE  /\ locators[id] \in Locator
           /\ locators[id].side \in Side /\ locators[id].price \in Prices
           /\ \E k \in 1 .. Rungs(locators[id].side) :
                 /\ BestFirst(locators[id].side)[k] = locators[id].price
                 /\ \E i \in 1 .. Len(Rung(locators[id].side, k)) : Rung(locators[id].side, k)[i].id = id
  <1> DEFINE s == locators[id].side
             p == locators[id].price
  <1>1. id \in OrderIds /\ Active(id) /\ locators[id] \in Locator
    BY DEF ActiveIds, Active, QueueInv, IInv, TypeOK
  <1>2. s \in Side /\ p \in Prices
    BY <1>1 DEF Locator
  <1>3. PICK i \in 1 .. Len(levels[s][p]) : levels[s][p][i].id = id
    BY <1>1 DEF QueueInv, Found, Level
  <1>4. levels[s][p] # <<>>
    <2> SUFFICES ASSUME levels[s][p] = <<>> PROVE FALSE
      OBVIOUS
    <2>1. 1 .. Len(<<>>) = {}
      OBVIOUS
    <2> QED BY <1>3, <2>1
  <1>5. p \in Occupied(s)
    BY <1>2, <1>4 DEF Occupied
  <1>6. PICK k \in 1 .. Rungs(s) : BestFirst(s)[k] = p
    BY <1>2, <1>5, BestFirstIs DEF Rungs
  <1>7. Rung(s, k) = levels[s][p]
    BY <1>6 DEF Rung
  <1> QED BY <1>1, <1>2, <1>3, <1>6, <1>7

(***************************************************************************)
(* Finitely many orders are active, however many ids there are: snapshot_  *)
(* state() can ask for locators_.size() orders.                            *)
(***************************************************************************)
LEMMA FinitelyActive ==
    ASSUME QueueInv
    PROVE  IsFiniteSet(ActiveIds)
  <1> DEFINE bids == Len(Everything("buy"))
             asks == Len(Everything("sell"))
             name == [n \in 1 .. bids + asks |->
                         IF n <= bids THEN Everything("buy")[n][2].id
                                      ELSE Everything("sell")[n - bids][2].id]
  <1>1. TypeOK /\ "buy" \in Side /\ "sell" \in Side
    BY DEF QueueInv, IInv, Side
  <1>2. ASSUME NEW side \in Side
        PROVE  /\ Len(Everything(side)) \in Nat
               /\ \A n \in 1 .. Len(Everything(side)) : Everything(side)[n][2].id \in ActiveIds
    <2>0. Rungs(side) \in Nat
      BY <1>1, Listing
    <2>1. Len(Everything(side)) = Before(side)[Rungs(side)] /\ Before(side)[Rungs(side)] \in Nat
      BY <1>1, <2>0, Listing
    <2>2. ASSUME NEW n \in 1 .. Len(Everything(side)) PROVE Everything(side)[n][2].id \in ActiveIds
      <3>1. PICK k \in 1 .. Rungs(side) : \E i \in 1 .. Len(Rung(side, k)) : n = Before(side)[k - 1] + i
        BY <1>1, <2>1, Listing
      <3>2. PICK i \in 1 .. Len(Rung(side, k)) : n = Before(side)[k - 1] + i
        BY <3>1
      <3>3. Everything(side)[n] = <<BestFirst(side)[k], Rung(side, k)[i]>>
        BY <1>1, <3>2, Listing
      <3>4. Everything(side)[n][2] = Rung(side, k)[i]
        BY <3>3
      <3> QED BY <3>4, EntryActive
    <2> QED BY <2>1, <2>2
  <1>3. bids \in Nat /\ asks \in Nat
    BY <1>1, <1>2
  <1>4. ASSUME NEW n \in 1 .. bids + asks PROVE name[n] \in ActiveIds
    <2>1. CASE n <= bids
      BY <1>1, <1>2, <1>3, <2>1
    <2>2. CASE ~(n <= bids)
      <3>1. n - bids \in 1 .. asks
        BY <1>3, <2>2
      <3> QED BY <1>1, <1>2, <2>2, <3>1
    <2> QED BY <2>1, <2>2
  <1>5. ASSUME NEW id \in ActiveIds PROVE \E n \in 1 .. bids + asks : name[n] = id
    <2> DEFINE s == locators[id].side
    <2>1. s \in Side
      BY ActiveEntry
    <2>2. PICK k \in 1 .. Rungs(s) : \E i \in 1 .. Len(Rung(s, k)) : Rung(s, k)[i].id = id
      BY ActiveEntry
    <2>3. PICK i \in 1 .. Len(Rung(s, k)) : Rung(s, k)[i].id = id
      BY <2>2
    <2> DEFINE n == Before(s)[k - 1] + i
    <2>4. n \in 1 .. Len(Everything(s)) /\ Everything(s)[n] = <<BestFirst(s)[k], Rung(s, k)[i]>>
      BY <1>1, <2>1, Listing
    <2>5. Everything(s)[n][2].id = id
      BY <2>3, <2>4
    <2> HIDE DEF n
    <2>6. CASE s = "buy"
      <3>1. n \in 1 .. bids
        BY <2>4, <2>6
      <3>2. n \in 1 .. bids + asks /\ n <= bids
        BY <1>3, <3>1
      <3>3. name[n] = Everything("buy")[n][2].id
        BY <3>2
      <3> QED BY <2>5, <2>6, <3>2, <3>3
    <2>7. CASE s = "sell"
      <3>1. n \in 1 .. asks
        BY <2>4, <2>7
      <3>2. bids + n \in 1 .. bids + asks /\ ~(bids + n <= bids) /\ (bids + n) - bids = n
        BY <1>3, <3>1
      <3>3. name[bids + n] = Everything("sell")[n][2].id
        BY <3>2
      <3> QED BY <2>5, <2>7, <3>2, <3>3
    <2> QED BY <2>1, <2>6, <2>7 DEF Side
  <1>6. name \in Surjection(1 .. bids + asks, ActiveIds)
    <2>1. name \in [1 .. bids + asks -> ActiveIds]
      <3> HIDE DEF bids, asks
      <3> QED BY <1>4
    <2> HIDE DEF name
    <2> QED BY <1>5, <2>1 DEF Surjection
  <1>7. IsFiniteSet(1 .. bids + asks)
    BY <1>3, FS_Interval
  <1> QED BY <1>6, <1>7, FS_Surjection

\* The depth snapshot_state() asks l3() for cuts nothing off.
LEMMA NothingCut ==
    ASSUME QueueInv, NEW side \in Side
    PROVE  L3(side, Cardinality(ActiveIds)) = Everything(side)
  <1> DEFINE all == Everything(side)
             n == Len(all)
             m == Rungs(side)
             off == Before(side)
             name == [x \in 1 .. n |-> all[x][2].id]
  <1>1. TypeOK
    BY DEF QueueInv, IInv
  <1>2. /\ m \in Nat /\ n = off[m] /\ n \in Nat /\ all \in Seq(Prices \X RestingOrder)
        /\ \A x \in 1 .. n : \E k \in 1 .. m : \E i \in 1 .. Len(Rung(side, k)) :
              /\ x = off[k - 1] + i
              /\ all[x][2] = Rung(side, k)[i]
    <2>1. \A x \in 1 .. off[m] : \E k \in 1 .. m : \E i \in 1 .. Len(Rung(side, k)) : x = off[k - 1] + i
      BY <1>1, Listing
    <2>2. m \in Nat /\ n = off[m] /\ off \in [0 .. m -> Nat] /\ all \in Seq(Prices \X RestingOrder)
      BY <1>1, Listing
    <2>3. \A k \in 1 .. m : \A i \in 1 .. Len(Rung(side, k)) :
             all[off[k - 1] + i] = <<BestFirst(side)[k], Rung(side, k)[i]>>
      BY <1>1, Listing
    <2>4. ASSUME NEW x \in 1 .. n
          PROVE  \E k \in 1 .. m : \E i \in 1 .. Len(Rung(side, k)) :
                    x = off[k - 1] + i /\ all[x][2] = Rung(side, k)[i]
      <3>1. PICK k \in 1 .. m : \E i \in 1 .. Len(Rung(side, k)) : x = off[k - 1] + i
        <4> HIDE DEF m, n, off, all
        <4> QED BY <2>1, <2>2
      <3>2. PICK i \in 1 .. Len(Rung(side, k)) : x = off[k - 1] + i
        BY <3>1
      <3>3. all[x] = <<BestFirst(side)[k], Rung(side, k)[i]>>
        <4> HIDE DEF m, n, off, all
        <4> QED BY <2>3, <3>2
      <3> QED BY <3>2, <3>3
    <2>5. off[m] \in Nat
      BY <2>2
    <2> QED BY <2>2, <2>4, <2>5
  <1> HIDE DEF all, off
  <1>3. ASSUME NEW x \in 1 .. n PROVE name[x] \in ActiveIds
    <2>1. PICK k \in 1 .. m : \E i \in 1 .. Len(Rung(side, k)) : all[x][2] = Rung(side, k)[i]
      BY <1>2
    <2> QED BY <2>1, EntryActive
  <1>4. ASSUME NEW x \in 1 .. n, NEW y \in 1 .. n, name[x] = name[y] PROVE x = y
    <2>1. PICK k \in 1 .. m : \E i \in 1 .. Len(Rung(side, k)) :
                 x = off[k - 1] + i /\ all[x][2] = Rung(side, k)[i]
      BY <1>2
    <2>2. PICK i \in 1 .. Len(Rung(side, k)) : x = off[k - 1] + i /\ all[x][2] = Rung(side, k)[i]
      BY <2>1
    <2>3. PICK l \in 1 .. m : \E j \in 1 .. Len(Rung(side, l)) :
                 y = off[l - 1] + j /\ all[y][2] = Rung(side, l)[j]
      BY <1>2
    <2>4. PICK j \in 1 .. Len(Rung(side, l)) : y = off[l - 1] + j /\ all[y][2] = Rung(side, l)[j]
      BY <2>3
    <2>5. Rung(side, k)[i].id = Rung(side, l)[j].id
      BY <1>4, <2>2, <2>4
    <2>6. k = l /\ i = j
      BY <2>5, SameEntry
    <2> QED BY <2>2, <2>4, <2>6
  <1>5. n <= Cardinality(ActiveIds)
    <2>1. name \in Injection(1 .. n, ActiveIds)
      <3>1. name \in [1 .. n -> ActiveIds]
        BY <1>3
      <3> HIDE DEF name
      <3> QED BY <1>4, <3>1 DEF Injection, IsInjective
    <2>2. Cardinality(1 .. n) = n
      <3>1. n \in Nat
        BY <1>2
      <3> HIDE DEF n
      <3> QED BY <3>1, FS_Interval
    <2> HIDE DEF name
    <2> QED BY <2>1, <2>2, FinitelyActive, FS_Injection
  <1>6. L3(side, Cardinality(ActiveIds)) = Prefix(all, Cardinality(ActiveIds))
    <2> DEFINE listed(p) == [i \in DOMAIN levels[side][p] |-> <<p, levels[side][p][i]>>]
    <2>1. DOMAIN BestFirst(side) = 1 .. m
      BY BestFirstIs DEF Rungs
    <2>2. ASSUME NEW k \in 1 .. m
          PROVE  listed(BestFirst(side)[k]) =
                    [i \in 1 .. Len(Rung(side, k)) |-> <<BestFirst(side)[k], Rung(side, k)[i]>>]
      <3>1. DOMAIN Rung(side, k) = 1 .. Len(Rung(side, k))
        BY <1>1, Listing DEF Lists
      <3> QED BY <3>1 DEF Rung
    <2>3. [i \in DOMAIN BestFirst(side) |-> listed(BestFirst(side)[i])] =
          [k \in 1 .. m |-> [i \in 1 .. Len(Rung(side, k)) |-> <<BestFirst(side)[k], Rung(side, k)[i]>>]]
      <3> HIDE DEF listed
      <3> QED BY <2>1, <2>2
    <2> QED BY <2>3 DEF L3, all, Everything
  <1>7. Cardinality(ActiveIds) \in Nat
    BY FinitelyActive, FS_CardinalityType
  <1>8. Prefix(all, Cardinality(ActiveIds)) = all
    <2> DEFINE c == Cardinality(ActiveIds)  E == Prices \X RestingOrder
    <2>0. all \in Seq(E) /\ c \in Nat /\ n <= c /\ n = Len(all) /\ n \in Nat
      BY <1>2, <1>5, <1>7
    <2> HIDE DEF c, E
    <2>1. Prefix(all, c) = SubSeq(all, 1, n)
      <3>1. c <= n => c = n
        BY <2>0
      <3> QED BY <2>0, <3>1 DEF Prefix
    <2>2. SubSeq(all, 1, n) = all
      BY <2>0
    <2> QED BY <2>1, <2>2 DEF c
  <1> QED BY <1>6, <1>8 DEF all

\* L1 is the head of L2, and L2 goes from better to worse.
LEMMA DepthIs ==
    ASSUME QueueInv, NEW side \in Side
    PROVE  /\ L2(side, MaxPrice) = [k \in 1 .. Rungs(side) |-> LevelView(side, BestFirst(side)[k])]
           /\ DOMAIN L2(side, MaxPrice) = 1 .. Rungs(side)
           /\ \A k \in 1 .. Rungs(side) :
                 /\ L2(side, MaxPrice)[k].price = BestFirst(side)[k]
                 /\ L2(side, MaxPrice)[k].count = Len(Rung(side, k))
                 /\ L2(side, MaxPrice)[k].qty = Quantity(Rung(side, k))
           /\ L1(side) = IF L2(side, MaxPrice) = <<>> THEN {} ELSE {Head(L2(side, MaxPrice))}
           /\ \A i, j \in DOMAIN L2(side, MaxPrice) :
                 i < j => Better(side, L2(side, MaxPrice)[i].price, L2(side, MaxPrice)[j].price)
  <1> DEFINE m == Rungs(side)
             prices == BestFirst(side)
             depth == L2(side, MaxPrice)
             view(p) == LevelView(side, p)
  <1>0. TypeOK /\ MaxPrice \in Nat
    BY BoundsAssumption DEF QueueInv, IInv
  <1>1. /\ m \in Nat /\ m <= MaxPrice
        /\ prices \in [1 .. m -> Occupied(side)]
        /\ \A i, j \in 1 .. m : i < j => Better(side, prices[i], prices[j])
        /\ \A p \in Occupied(side) : \E i \in 1 .. m : prices[i] = p
    BY BestFirstIs DEF Rungs
  <1> HIDE DEF m, prices, view
  <1>2. Prefix(prices, MaxPrice) = prices
    <2>1. Len(prices) = m /\ prices \in Seq(Occupied(side))
      BY <1>1
    <2>2. Prefix(prices, MaxPrice) = SubSeq(prices, 1, m)
      <3>1. MaxPrice <= m => MaxPrice = m
        BY <1>0, <1>1
      <3> QED BY <2>1, <3>1 DEF Prefix
    <2> QED BY <2>1, <2>2
  <1>3. depth = [k \in 1 .. m |-> view(prices[k])]
    <2>1. DOMAIN prices = 1 .. m
      BY <1>1
    <2>2. depth = [k \in DOMAIN prices |-> view(prices[k])]
      BY <1>2 DEF L2, prices, view
    <2> QED BY <2>1, <2>2
  <1> HIDE DEF depth
  <1>4. ASSUME NEW k \in 1 .. m
        PROVE  /\ depth[k] = view(prices[k])
               /\ depth[k].price = prices[k]
               /\ depth[k].count = Len(Rung(side, k))
               /\ depth[k].qty = Quantity(Rung(side, k))
    BY <1>3 DEF view, LevelView, Rung, prices
  <1>5. \A q \in Prices : IsBest(side, q) <=> m > 0 /\ q = prices[1]
    <2>1. ASSUME m > 0 PROVE IsBest(side, prices[1])
      <3>0. 1 \in 1 .. m
        BY <1>1, <2>1
      <3>1. prices[1] \in Prices /\ levels[side][prices[1]] # <<>>
        BY <1>1, <3>0 DEF Occupied
      <3>2. ASSUME NEW p \in Prices, levels[side][p] # <<>>
            PROVE  p = prices[1] \/ Better(side, prices[1], p)
        <4>1. p \in Occupied(side)
          BY <3>2 DEF Occupied
        <4>2. PICK i \in 1 .. m : prices[i] = p
          BY <1>1, <4>1
        <4>3. i = 1 \/ 1 < i
          OBVIOUS
        <4> QED BY <1>1, <3>0, <4>2, <4>3
      <3> QED BY <3>1, <3>2 DEF IsBest
    <2>2. ASSUME NEW q \in Prices, IsBest(side, q) PROVE m > 0 /\ q = prices[1]
      <3>1. q \in Occupied(side)
        BY <2>2 DEF IsBest, Occupied
      <3>2. PICK i \in 1 .. m : prices[i] = q
        BY <1>1, <3>1
      <3>3. m > 0 /\ 1 \in 1 .. m
        BY <1>1, <3>2
      <3>4. prices[1] \in Prices /\ levels[side][prices[1]] # <<>>
        BY <1>1, <3>3 DEF Occupied
      <3>5. q = prices[1] \/ Better(side, q, prices[1])
        BY <2>2, <3>4 DEF IsBest
      <3>6. q = prices[1] \/ Better(side, prices[1], q)
        <4>1. i = 1 \/ 1 < i
          OBVIOUS
        <4> QED BY <1>1, <3>2, <3>3, <4>1
      <3>7. q \in Int /\ prices[1] \in Int
        BY <3>4 DEF Prices
      <3> QED BY <3>3, <3>5, <3>6, <3>7 DEF Better
    <2> QED BY <2>1, <2>2
  <1>6. L1(side) = IF depth = <<>> THEN {} ELSE {Head(depth)}
    <2>1. L1(side) = {view(p) : p \in {q \in Prices : IsBest(side, q)}}
      BY DEF L1, view
    <2>2. CASE m = 0
      <3>1. depth = <<>>
        BY <1>3, <2>2
      <3>2. {q \in Prices : IsBest(side, q)} = {}
        BY <1>5, <2>2
      <3> QED BY <2>1, <3>1, <3>2
    <2>3. CASE m # 0
      <3>0. 1 \in 1 .. m /\ m > 0
        BY <1>1, <2>3
      <3>1. depth # <<>> /\ Head(depth) = view(prices[1])
        <4>1. depth[1] = view(prices[1])
          BY <1>4, <3>0
        <4>2. 1 \in DOMAIN depth
          BY <1>3, <3>0
        <4>3. depth # <<>>
          BY <4>2
        <4> QED BY <4>1, <4>3
      <3>2. prices[1] \in Prices
        BY <1>1, <3>0 DEF Occupied
      <3>3. {q \in Prices : IsBest(side, q)} = {prices[1]}
        BY <1>5, <3>0, <3>2
      <3> QED BY <2>1, <3>1, <3>3
    <2> QED BY <2>2, <2>3
  <1>7. DOMAIN depth = 1 .. m
    BY <1>3
  <1>8. \A i, j \in DOMAIN depth : i < j => Better(side, depth[i].price, depth[j].price)
    BY <1>1, <1>4, <1>7
  <1> QED BY <1>3, <1>4, <1>6, <1>7, <1>8 DEF m, prices, depth, view

\* The quantities before, of and behind the r-th order of a list are those of the list.
LEMMA QuantitySplits ==
    ASSUME NEW level \in Lists, NEW r \in 1 .. Len(level)
    PROVE  Quantity(SubSeq(level, 1, r - 1)) + level[r].qty + Quantity(SubSeq(level, r + 1, Len(level)))
              = Quantity(level)
  <1> DEFINE n == Len(level)
             f == [i \in 1 .. n |-> level[i].qty]
             before == [i \in 1 .. (r - 1) |-> f[i]]
             after == [i \in 1 .. (n - r) |-> f[r + i]]
             ahead == SubSeq(level, 1, r - 1)
             behind == SubSeq(level, r + 1, n)
  <1>1. n \in Nat /\ level \in Seq(RestingOrder) /\ level \in [1 .. n -> RestingOrder]
    BY DEF Lists
  <1>2. \A i \in 1 .. n : level[i] \in RestingOrder /\ level[i].qty \in Nat
    <2>1. \A o \in RestingOrder : o.qty \in Nat
      BY BoundsAssumption DEF RestingOrder
    <2> QED BY <1>1, <2>1
  <1>3. f \in [1 .. n -> Nat] /\ \A i \in 1 .. n : f[i] = level[i].qty
    BY <1>2
  <1>4. Quantity(level) = SumFunction(f)
    <2>1. DOMAIN level = 1 .. n
      BY <1>1
    <2> QED BY <2>1 DEF Quantity
  <1>5. Quantity(ahead) = SumFunction(before)
    <2>1. Len(ahead) = r - 1 /\ DOMAIN ahead = 1 .. (r - 1) /\ \A i \in 1 .. (r - 1) : ahead[i] = level[i]
      BY <1>1
    <2>2. [i \in DOMAIN ahead |-> ahead[i].qty] = before
      BY <1>1, <1>3, <2>1
    <2> QED BY <2>2 DEF Quantity
  <1>6. Quantity(behind) = SumFunction(after)
    <2>1. DOMAIN behind = 1 .. (n - r) /\ \A i \in 1 .. (n - r) : behind[i] = level[r + i]
      BY <1>1
    <2>2. [i \in DOMAIN behind |-> behind[i].qty] = after
      BY <1>1, <1>3, <2>1
    <2> QED BY <2>2 DEF Quantity
  <1>7. SumFunction(before) + f[r] + SumFunction(after) = SumFunction(f)
    <2>1. n \in Nat /\ r \in 1 .. n /\ f \in [1 .. n -> Nat]
      BY <1>1, <1>3
    <2>2. before = FrontPart(f, r - 1) /\ after = BackPart(f, n, r)
      BY DEF FrontPart, BackPart
    <2> HIDE DEF n, f, before, after
    <2> QED BY <2>1, <2>2, SplitSums
  <1> HIDE DEF f, before, after
  <1> QED BY <1>3, <1>4, <1>5, <1>6, <1>7

(***************************************************************************)
(* The second half of ViewsOfOneBook: an active order's place in L3 is the *)
(* counts of the better levels of L2 and its rank, and the quantities of   *)
(* its queue position add up to the level.                                 *)
(***************************************************************************)
LEMMA PlaceInQueue ==
    ASSUME QueueInv, NEW id \in ActiveIds
    PROVE  LET loc == locators[id]
               depth == L2(loc.side, MaxPrice)
               all == L3(loc.side, Cardinality(ActiveIds))
               k == CHOOSE k \in DOMAIN depth : depth[k].price = loc.price
               place == CHOOSE n \in DOMAIN all : all[n][2].id = id
               queue == QueuePosition(id)
           IN  /\ place = SumFunction([l \in 1 .. k - 1 |-> depth[l].count]) + queue.rank
               /\ queue.ahead + RestingQuantity(id) + queue.behind = depth[k].qty
  <1> DEFINE s == locators[id].side
             p == locators[id].price
             m == Rungs(s)
             off == Before(s)
             depth == L2(s, MaxPrice)
             all == L3(s, Cardinality(ActiveIds))
             k == CHOOSE x \in DOMAIN depth : depth[x].price = p
             place == CHOOSE n \in DOMAIN all : all[n][2].id = id
             level == levels[s][p]
             rank == CHOOSE i \in DOMAIN level : level[i].id = id
             queue == QueuePosition(id)
             counts == [l \in 1 .. k - 1 |-> depth[l].count]
  <1>1. TypeOK /\ s \in Side /\ p \in Prices /\ Active(id)
    BY ActiveEntry DEF QueueInv, IInv, ActiveIds
  <1>2. PICK j \in 1 .. m : BestFirst(s)[j] = p /\ \E i \in 1 .. Len(Rung(s, j)) : Rung(s, j)[i].id = id
    BY ActiveEntry
  <1>3. PICK i \in 1 .. Len(Rung(s, j)) : Rung(s, j)[i].id = id
    BY <1>2
  <1>4. k = j
    <2>1. \A x \in DOMAIN depth : depth[x].price = p <=> x = j
      <3>1. DOMAIN depth = 1 .. m /\ \A x \in 1 .. m : depth[x].price = BestFirst(s)[x]
        BY <1>1, DepthIs
      <3>2. \A x, y \in 1 .. m : BestFirst(s)[x] = BestFirst(s)[y] => x = y
        BY <1>1, BestFirstIs DEF Rungs
      <3> HIDE DEF depth, m, s, p
      <3> QED BY <1>2, <3>1, <3>2
    <2>2. j \in DOMAIN depth
      BY <1>1, <1>2, DepthIs
    <2> HIDE DEF depth, p
    <2> QED BY <2>1, <2>2
  <1>5. level = Rung(s, j)
    BY <1>2 DEF Rung
  <1>a. level \in Lists /\ Len(level) \in Nat /\ DOMAIN level = 1 .. Len(level) /\ i \in 1 .. Len(level)
    BY <1>1, <1>3, <1>5, Listing DEF Lists
  <1>6. rank = i
    <2>1. \A x \in DOMAIN level : level[x].id = id <=> x = i
      BY <1>1, <1>3, <1>5, <1>a, SameEntry
    <2> HIDE DEF level
    <2> QED BY <1>a, <2>1
  <1>7. all = Everything(s) /\ DOMAIN all = 1 .. off[m]
    <2>1. all = Everything(s)
      BY <1>1, NothingCut
    <2>2. Everything(s) \in Seq(Prices \X RestingOrder) /\ Len(Everything(s)) = off[m]
      BY <1>1, Listing
    <2> HIDE DEF all, off
    <2> QED BY <2>1, <2>2
  <1>8. place = off[j - 1] + i
    <2> DEFINE n == off[j - 1] + i
    <2>1. n \in 1 .. off[m] /\ all[n] = <<BestFirst(s)[j], Rung(s, j)[i]>>
      <3>1. n \in 1 .. off[m] /\ Everything(s)[n] = <<BestFirst(s)[j], Rung(s, j)[i]>>
        BY <1>1, <1>2, <1>3, Listing
      <3> QED BY <1>7, <3>1
    <2>2. ASSUME NEW x \in 1 .. off[m], all[x][2].id = id PROVE x = n
      <3>1. PICK l \in 1 .. m : \E h \in 1 .. Len(Rung(s, l)) : x = off[l - 1] + h
        BY <1>1, Listing
      <3>2. PICK h \in 1 .. Len(Rung(s, l)) : x = off[l - 1] + h
        BY <3>1
      <3>3. Everything(s)[x] = <<BestFirst(s)[l], Rung(s, l)[h]>>
        BY <1>1, <3>2, Listing
      <3>4. Rung(s, l)[h].id = Rung(s, j)[i].id
        BY <1>3, <1>7, <2>2, <3>3
      <3>5. l = j /\ h = i
        BY <1>1, <1>3, <3>4, SameEntry
      <3> QED BY <3>2, <3>5
    <2>3. n \in DOMAIN all /\ all[n][2].id = id
      BY <1>3, <1>7, <2>1
    <2> HIDE DEF n, all, off
    <2>4. \A x \in DOMAIN all : all[x][2].id = id <=> x = n
      BY <1>7, <2>2, <2>3
    <2>5. place = n
      BY <2>3, <2>4
    <2> QED BY <2>5 DEF n
  <1>9. SumFunction(counts) = off[j - 1]
    <2>1. off[j - 1] = SumFunction([l \in 1 .. j - 1 |-> Len(Rung(s, l))])
      <3> DEFINE f == [l \in 1 .. m |-> Len(Rung(s, l))]
      <3>1. off = PrefixSums(f, m) /\ m \in Nat
        BY <1>1, Listing DEF Before
      <3>2. [l \in 1 .. j - 1 |-> f[l]] = [l \in 1 .. j - 1 |-> Len(Rung(s, l))]
        <4>1. \A l \in 1 .. j - 1 : l \in 1 .. m
          <5> HIDE DEF m
          <5> QED BY <3>1
        <4>2. \A l \in 1 .. m : f[l] = Len(Rung(s, l))
          OBVIOUS
        <4> HIDE DEF f, m
        <4> QED BY <4>1, <4>2
      <3> HIDE DEF f, off, m
      <3>3. off[j - 1] = SumFunction([l \in 1 .. j - 1 |-> f[l]])
        BY <3>1 DEF PrefixSums
      <3> QED BY <3>2, <3>3
    <2>2. counts = [l \in 1 .. j - 1 |-> Len(Rung(s, l))]
      <3>1. \A x \in 1 .. m : depth[x].count = Len(Rung(s, x))
        BY <1>1, DepthIs
      <3>2. m \in Nat
        BY <1>1, Listing
      <3> HIDE DEF depth, m, k
      <3>3. \A l \in 1 .. j - 1 : depth[l].count = Len(Rung(s, l))
        BY <3>1, <3>2
      <3> QED BY <1>4, <3>3
    <2> QED BY <2>1, <2>2
  <1>10. queue.rank = i
    BY <1>6 DEF QueuePosition, Level
  <1>11. queue.ahead + RestingQuantity(id) + queue.behind = depth[k].qty
    <2>1. /\ queue.ahead = Quantity(SubSeq(level, 1, rank - 1))
          /\ queue.behind = Quantity(SubSeq(level, rank + 1, Len(level)))
      BY DEF QueuePosition, Level
    <2>2. RestingQuantity(id) = level[rank].qty
      <3>1. DOMAIN level = 1 .. Len(level)
        BY <1>a
      <3> QED BY <1>1, <3>1 DEF RestingQuantity, Level
    <2>3. depth[k].qty = Quantity(level)
      BY <1>1, <1>2, <1>4, <1>5, DepthIs
    <2>4. Quantity(SubSeq(level, 1, i - 1)) + level[i].qty + Quantity(SubSeq(level, i + 1, Len(level)))
              = Quantity(level)
      BY <1>a, QuantitySplits
    <2> HIDE DEF level, rank, queue, depth, k
    <2> QED BY <1>6, <2>1, <2>2, <2>3, <2>4
  <1>12. place = SumFunction(counts) + queue.rank
    BY <1>8, <1>9, <1>10
  <1> QED BY <1>11, <1>12

LEMMA OneBook == QueueInv => ViewsOfOneBook
  <1> SUFFICES ASSUME QueueInv PROVE ViewsOfOneBook
    OBVIOUS
  <1>1. ASSUME NEW side \in Side
        PROVE  LET depth == L2(side, MaxPrice)
               IN  /\ L1(side) = IF depth = <<>> THEN {} ELSE {Head(depth)}
                   /\ \A i, j \in DOMAIN depth : i < j => Better(side, depth[i].price, depth[j].price)
    BY DepthIs
  <1> QED BY <1>1, PlaceInQueue, Zenon DEF ViewsOfOneBook

-----------------------------------------------------------------------------
(* Books as restore_state() builds them, and the entries of a snapshot.    *)
Books == [levels : [Side -> [Prices -> Lists]], locators : [OrderIds -> Locator \cup {NoLocator}]]
Entry == Prices \X RestingOrder

LEMMA LoadTyped ==
    ASSUME NEW side \in Side, NEW book \in Books, NEW entry \in Entry
    PROVE  /\ Load(side, book, entry) \in Books
           /\ entry[1] \in Prices /\ entry[2] \in RestingOrder /\ entry[2].id \in OrderIds
           /\ Load(side, book, entry).levels =
                 [book.levels EXCEPT ![side][entry[1]] = Append(@, entry[2])]
           /\ Load(side, book, entry).locators =
                 [book.locators EXCEPT ![entry[2].id] =
                    IF @ = NoLocator THEN [side |-> side, price |-> entry[1]] ELSE @]
  <1>1. entry[1] \in Prices /\ entry[2] \in RestingOrder /\ entry[2].id \in OrderIds
    BY DEF Entry, RestingOrder
  <1>2. book.levels \in [Side -> [Prices -> Lists]] /\ book.locators \in [OrderIds -> Locator \cup {NoLocator}]
    BY DEF Books
  <1>3. Append(book.levels[side][entry[1]], entry[2]) \in Lists
    BY <1>1, <1>2 DEF Lists
  <1>4. [side |-> side, price |-> entry[1]] \in Locator
    BY <1>1 DEF Locator
  <1>5. Load(side, book, entry) \in Books
    <2>1. [book.levels EXCEPT ![side][entry[1]] = Append(@, entry[2])] \in [Side -> [Prices -> Lists]]
      <3> HIDE DEF Lists
      <3> QED BY <1>1, <1>2, <1>3
    <2>2. [book.locators EXCEPT ![entry[2].id] =
             IF @ = NoLocator THEN [side |-> side, price |-> entry[1]] ELSE @]
             \in [OrderIds -> Locator \cup {NoLocator}]
      BY <1>1, <1>2, <1>4
    <2> QED BY <2>1, <2>2 DEF Load, Books
  <1>7. /\ Load(side, book, entry).levels = [book.levels EXCEPT ![side][entry[1]] = Append(@, entry[2])]
        /\ Load(side, book, entry).locators =
                 [book.locators EXCEPT ![entry[2].id] =
                    IF @ = NoLocator THEN [side |-> side, price |-> entry[1]] ELSE @]
    BY Zenon DEF Load
  <1> QED BY <1>1, <1>5, <1>7, Zenon

\* g deals with a list from the left, one entry after the other.
LoadsBy(g, side, base, list, n) ==
    /\ g[{}] = base
    /\ \A k \in 1 .. n : g[1 .. k] = Load(side, g[(1 .. k) \ {Max(1 .. k)}], list[k])

(* restore_state() loads the bids one after the other.                     *)
LEMMA FoldBids ==
    ASSUME NEW base \in Books, NEW n \in Nat, NEW list \in [1 .. n -> Entry]
    PROVE  \E g : FoldLeft(LoadBids, base, list) = g[1 .. n] /\ LoadsBy(g, "buy", base, list, n)
  <1> DEFINE o == [ab \in Books \X Entry |-> LoadBids(ab[1], ab[2])]
             D == 1 .. n
             raw(f) == [t \in SUBSET D |-> IF t = {} THEN base
                                           ELSE LoadBids(f[t \ {Max(t)}], list[Max(t)])]
             it == CHOOSE f : f = raw(f)
  <1>1. o \in [Books \X Entry -> Books]
    BY LoadTyped DEF LoadBids, Side
  <1> HIDE DEF o
  <1>a. PICK g \in [SUBSET (1 .. n) -> Books] : FoldsBy(g, o, base, list, n)
    BY <1>1, FoldExists
  <1>2. g \in [SUBSET D -> Books] /\ \A t \in SUBSET D : g[t] = FoldStep(g, o, base, list, t)
    BY <1>a DEF FoldsBy
  <1>3. ASSUME NEW t \in SUBSET D, t # {} PROVE Max(t) \in D /\ t \ {Max(t)} \in SUBSET D
    <2>1. IsFiniteSet(D) /\ D \in SUBSET Int
      BY FS_Interval
    <2>2. IsFiniteSet(t) /\ t \in SUBSET Int
      <3> HIDE DEF D
      <3> QED BY <2>1, FS_Subset
    <2>3. \E m \in t : \A y \in t : m >= y
      BY <1>3, <2>2, GreatestElement
    <2> QED BY <2>3 DEF Max
  <1>4. g = raw(g)
    <2>1. ASSUME NEW t \in SUBSET D
          PROVE  g[t] = IF t = {} THEN base ELSE LoadBids(g[t \ {Max(t)}], list[Max(t)])
      <3>1. CASE t = {}
        BY <1>2, <3>1 DEF FoldStep
      <3>2. CASE t # {}
        <4>1. Max(t) \in D /\ t \ {Max(t)} \in SUBSET D
          BY <1>3, <3>2
        <4>2. <<g[t \ {Max(t)}], list[Max(t)]>> \in Books \X Entry
          BY <4>1
        <4>3. o[<<g[t \ {Max(t)}], list[Max(t)]>>] = LoadBids(g[t \ {Max(t)}], list[Max(t)])
          BY <4>2 DEF o
        <4> QED BY <1>2, <3>2, <4>3 DEF FoldStep
      <3> QED BY <3>1, <3>2
    <2> QED BY <2>1
  <1>5. it = raw(it)
    <2>1. \E f : f = raw(f)
      BY <1>4
    <2> HIDE DEF raw
    <2> QED BY ONLY <2>1, Zenon DEF it
  <1>6. FoldLeft(LoadBids, base, list) = it[D]
    <2>1. DOMAIN list = D
      OBVIOUS
    <2> QED BY <2>1, Zenon DEF FoldLeft, MapThenFoldSet
  <1> HIDE DEF it
  <1>7. \A t \in SUBSET D : it[t] = IF t = {} THEN base ELSE LoadBids(it[t \ {Max(t)}], list[Max(t)])
    BY <1>5
  <1>8. LoadsBy(it, "buy", base, list, n)
    <2>1. it[{}] = base
      BY <1>7
    <2>2. ASSUME NEW k \in 1 .. n
          PROVE  it[1 .. k] = Load("buy", it[(1 .. k) \ {Max(1 .. k)}], list[k])
      <3>1. 1 .. k \in SUBSET D /\ 1 .. k # {}
        <4>1. 1 \in 1 .. k /\ \A x \in 1 .. k : x \in D
          OBVIOUS
        <4> QED BY <4>1
      <3>2. Max(1 .. k) = k
        BY LastOfFirst
      <3> QED BY <1>7, <3>1, <3>2 DEF LoadBids
    <2> QED BY <2>1, <2>2 DEF LoadsBy
  <1> QED BY <1>6, <1>8

(* And the asks.                                                           *)
LEMMA FoldAsks ==
    ASSUME NEW base \in Books, NEW n \in Nat, NEW list \in [1 .. n -> Entry]
    PROVE  \E g : FoldLeft(LoadAsks, base, list) = g[1 .. n] /\ LoadsBy(g, "sell", base, list, n)
  <1> DEFINE o == [ab \in Books \X Entry |-> LoadAsks(ab[1], ab[2])]
             D == 1 .. n
             raw(f) == [t \in SUBSET D |-> IF t = {} THEN base
                                           ELSE LoadAsks(f[t \ {Max(t)}], list[Max(t)])]
             it == CHOOSE f : f = raw(f)
  <1>1. o \in [Books \X Entry -> Books]
    BY LoadTyped DEF LoadAsks, Side
  <1> HIDE DEF o
  <1>a. PICK g \in [SUBSET (1 .. n) -> Books] : FoldsBy(g, o, base, list, n)
    BY <1>1, FoldExists
  <1>2. g \in [SUBSET D -> Books] /\ \A t \in SUBSET D : g[t] = FoldStep(g, o, base, list, t)
    BY <1>a DEF FoldsBy
  <1>3. ASSUME NEW t \in SUBSET D, t # {} PROVE Max(t) \in D /\ t \ {Max(t)} \in SUBSET D
    <2>1. IsFiniteSet(D) /\ D \in SUBSET Int
      BY FS_Interval
    <2>2. IsFiniteSet(t) /\ t \in SUBSET Int
      <3> HIDE DEF D
      <3> QED BY <2>1, FS_Subset
    <2>3. \E m \in t : \A y \in t : m >= y
      BY <1>3, <2>2, GreatestElement
    <2> QED BY <2>3 DEF Max
  <1>4. g = raw(g)
    <2>1. ASSUME NEW t \in SUBSET D
          PROVE  g[t] = IF t = {} THEN base ELSE LoadAsks(g[t \ {Max(t)}], list[Max(t)])
      <3>1. CASE t = {}
        BY <1>2, <3>1 DEF FoldStep
      <3>2. CASE t # {}
        <4>1. Max(t) \in D /\ t \ {Max(t)} \in SUBSET D
          BY <1>3, <3>2
        <4>2. <<g[t \ {Max(t)}], list[Max(t)]>> \in Books \X Entry
          BY <4>1
        <4>3. o[<<g[t \ {Max(t)}], list[Max(t)]>>] = LoadAsks(g[t \ {Max(t)}], list[Max(t)])
          BY <4>2 DEF o
        <4> QED BY <1>2, <3>2, <4>3 DEF FoldStep
      <3> QED BY <3>1, <3>2
    <2> QED BY <2>1
  <1>5. it = raw(it)
    <2>1. \E f : f = raw(f)
      BY <1>4
    <2> HIDE DEF raw
    <2> QED BY ONLY <2>1, Zenon DEF it
  <1>6. FoldLeft(LoadAsks, base, list) = it[D]
    <2>1. DOMAIN list = D
      OBVIOUS
    <2> QED BY <2>1, Zenon DEF FoldLeft, MapThenFoldSet
  <1> HIDE DEF it
  <1>7. \A t \in SUBSET D : it[t] = IF t = {} THEN base ELSE LoadAsks(it[t \ {Max(t)}], list[Max(t)])
    BY <1>5
  <1>8. LoadsBy(it, "sell", base, list, n)
    <2>1. it[{}] = base
      BY <1>7
    <2>2. ASSUME NEW k \in 1 .. n
          PROVE  it[1 .. k] = Load("sell", it[(1 .. k) \ {Max(1 .. k)}], list[k])
      <3>1. 1 .. k \in SUBSET D /\ 1 .. k # {}
        <4>1. 1 \in 1 .. k /\ \A x \in 1 .. k : x \in D
          OBVIOUS
        <4> QED BY <4>1
      <3>2. Max(1 .. k) = k
        BY LastOfFirst
      <3> QED BY <1>7, <3>1, <3>2 DEF LoadAsks
    <2> QED BY <2>1, <2>2 DEF LoadsBy
  <1> QED BY <1>6, <1>8

\* How many of the first n entries of side go to the list at p.
Loaded(side, p, n) == Cardinality({x \in 1 .. n : Everything(side)[x][1] = p})

(***************************************************************************)
(* The count grows by one at each entry of the price; after i entries of   *)
(* the k-th price it is i, and at the end it is the length of the list.    *)
(***************************************************************************)
LEMMA LoadedIs ==
    ASSUME TypeOK, NEW side \in Side
    PROVE  /\ \A p \in Prices : Loaded(side, p, 0) = 0
           /\ \A n \in 1 .. Len(Everything(side)), p \in Prices :
                 /\ Loaded(side, p, n - 1) \in Nat
                 /\ Loaded(side, p, n) = Loaded(side, p, n - 1) + (IF Everything(side)[n][1] = p THEN 1 ELSE 0)
           /\ \A k \in 1 .. Rungs(side) : \A i \in 0 .. Len(Rung(side, k)) :
                 Loaded(side, BestFirst(side)[k], Before(side)[k - 1] + i) = i
           /\ \A p \in Prices : Loaded(side, p, Len(Everything(side))) = Len(levels[side][p])
  <1> DEFINE all == Everything(side)
             N == Len(all)
             m == Rungs(side)
             off == Before(side)
             at(p, n) == {x \in 1 .. n : all[x][1] = p}
  <1>0. /\ m \in Nat /\ off \in [0 .. m -> Nat] /\ N = off[m] /\ N \in Nat
        /\ \A x \in 1 .. N : \E k \in 1 .. m : \E i \in 1 .. Len(Rung(side, k)) : x = off[k - 1] + i
        /\ \A k \in 1 .. m : /\ BestFirst(side)[k] \in Prices
                             /\ Len(Rung(side, k)) \in Nat
                             /\ off[k] = off[k - 1] + Len(Rung(side, k))
                             /\ \A i \in 1 .. Len(Rung(side, k)) :
                                   /\ off[k - 1] + i \in 1 .. N
                                   /\ all[off[k - 1] + i][1] = BestFirst(side)[k]
    <2>1. m \in Nat /\ off \in [0 .. m -> Nat] /\ N = off[m]
      BY Listing
    <2>2. \A x \in 1 .. off[m] : \E k \in 1 .. m : \E i \in 1 .. Len(Rung(side, k)) : x = off[k - 1] + i
      BY Listing
    <2>3. \A k \in 1 .. m : /\ BestFirst(side)[k] \in Prices
                            /\ Len(Rung(side, k)) \in Nat
                            /\ off[k] = off[k - 1] + Len(Rung(side, k))
      BY Listing
    <2>4. ASSUME NEW k \in 1 .. m, NEW i \in 1 .. Len(Rung(side, k))
          PROVE  off[k - 1] + i \in 1 .. off[m] /\ all[off[k - 1] + i][1] = BestFirst(side)[k]
      <3>1. off[k - 1] + i \in 1 .. off[m] /\ all[off[k - 1] + i] = <<BestFirst(side)[k], Rung(side, k)[i]>>
        BY Listing
      <3> QED BY <3>1
    <2>5. off[m] \in Nat
      BY <2>1
    <2> HIDE DEF N, m, off, all
    <2> QED BY <2>1, <2>2, <2>3, <2>4, <2>5
  <1> HIDE DEF all, N, m, off
  <1>1. \A p : Loaded(side, p, 0) = 0
    <2>1. \A p : at(p, 0) = {}
      OBVIOUS
    <2> QED BY <2>1, FS_EmptySet DEF Loaded, all
  <1>2. ASSUME NEW n \in 1 .. N, NEW p
        PROVE  /\ Loaded(side, p, n - 1) \in Nat
               /\ Loaded(side, p, n) = Loaded(side, p, n - 1) + (IF all[n][1] = p THEN 1 ELSE 0)
    <2>0. N \in Nat /\ n \in Nat /\ n >= 1
      <3>1. N \in Nat
        BY <1>0
      <3> QED BY <3>1
    <2>1. IsFiniteSet(at(p, n - 1)) /\ n \notin at(p, n - 1)
      <3>1. IsFiniteSet(1 .. (n - 1))
        BY FS_Interval
      <3> QED BY <3>1, FS_Subset
    <2>2. Loaded(side, p, n) = Cardinality(at(p, n)) /\ Loaded(side, p, n - 1) = Cardinality(at(p, n - 1))
      BY DEF Loaded, all
    <2>3. CASE all[n][1] = p
      <3>1. at(p, n) = at(p, n - 1) \cup {n}
        <4>0. n \in Nat \ {0}
          BY <2>0
        <4>1. 1 .. n = (1 .. (n - 1)) \cup {n}
          BY <4>0
        <4> QED BY <2>3, <4>1
      <3> DEFINE some == at(p, n - 1)
      <3>2. IsFiniteSet(some) /\ n \notin some
        BY <2>1
      <3> HIDE DEF some
      <3>3. Cardinality(some) \in Nat /\ Cardinality(some \cup {n}) = Cardinality(some) + 1
        BY <3>2, FS_AddElement, FS_CardinalityType
      <3> QED BY <2>2, <2>3, <3>1, <3>3 DEF some
    <2>4. CASE all[n][1] # p
      <3>1. at(p, n) = at(p, n - 1)
        <4>1. ASSUME NEW x PROVE x \in at(p, n) <=> x \in at(p, n - 1)
          BY <2>0, <2>4
        <4> HIDE DEF at
        <4> QED BY <4>1
      <3>2. Cardinality(at(p, n - 1)) \in Nat
        <4> HIDE DEF at
        <4> QED BY <2>1, FS_CardinalityType
      <3>3. Loaded(side, p, n) = Loaded(side, p, n - 1) /\ Loaded(side, p, n - 1) \in Nat
        BY <2>2, <3>1, <3>2
      <3> DEFINE now == Loaded(side, p, n)  was == Loaded(side, p, n - 1)
      <3> HIDE DEF now, was
      <3>4. now = was + (IF all[n][1] = p THEN 1 ELSE 0)
        BY <2>4, <3>3 DEF now, was
      <3> QED BY <3>3, <3>4 DEF now, was
    <2> QED BY <2>3, <2>4
  <1>3. ASSUME NEW k \in 1 .. m, NEW i \in 0 .. Len(Rung(side, k))
        PROVE  Loaded(side, BestFirst(side)[k], off[k - 1] + i) = i
    <2> DEFINE p == BestFirst(side)[k]
               b == off[k - 1]
               len == Len(Rung(side, k))
    <2>0. b \in Nat /\ len \in Nat /\ i \in Nat /\ i <= len /\ off[k] = b + len
      BY <1>0
    <2>1. ASSUME NEW x \in 1 .. N, all[x][1] = p PROVE x \in b + 1 .. b + len
      <3>1. PICK l \in 1 .. m : \E h \in 1 .. Len(Rung(side, l)) : x = off[l - 1] + h
        BY <1>0
      <3>2. PICK h \in 1 .. Len(Rung(side, l)) : x = off[l - 1] + h
        BY <3>1
      <3>3. BestFirst(side)[l] = p
        BY <1>0, <2>1, <3>2
      <3>4. l = k
        BY <3>3, BestFirstIs DEF Rungs, m
      <3> QED BY <2>0, <3>2, <3>4
    <2>2. \A h \in 1 .. len : b + h \in 1 .. N /\ all[b + h][1] = p
      BY <1>0
    <2>3. b + i <= N
      <3>1. CASE i = 0
        <4>1. k - 1 \in 0 .. m /\ \A j \in 1 .. m : off[j - 1] <= off[j]
          <5>1. k - 1 \in 0 .. m
            BY <1>0
          <5>2. ASSUME NEW j \in 1 .. m PROVE off[j - 1] <= off[j]
            <6>1. j - 1 \in 0 .. m /\ off[j] = off[j - 1] + Len(Rung(side, j)) /\ Len(Rung(side, j)) \in Nat
              BY <1>0
            <6>2. off[j - 1] \in Nat
              BY <1>0, <6>1
            <6> QED BY <6>1, <6>2
          <5> QED BY <5>1, <5>2
        <4> DEFINE T == {j \in 0 .. m - (k - 1) : b <= off[(k - 1) + j]}
        <4>2. 0 \in T
          BY <1>0
        <4>3. ASSUME NEW j \in 1 .. m - (k - 1), j - 1 \in T PROVE j \in T
          <5>1. (k - 1) + j \in 1 .. m /\ ((k - 1) + j) - 1 = (k - 1) + (j - 1)
            BY <1>0
          <5>2. off[(k - 1) + j] \in Nat /\ off[(k - 1) + (j - 1)] \in Nat /\ off[(k - 1) + (j - 1)] <= off[(k - 1) + j]
            BY <1>0, <4>1, <5>1
          <5> QED BY <2>0, <4>3, <5>2
        <4>4. m - (k - 1) \in Nat
          BY <1>0
        <4>5. m - (k - 1) \in T
          <5> HIDE DEF T
          <5>1. \A j \in 0 .. m - (k - 1) : j \in T
            BY <4>2, <4>3, <4>4, CountsUp
          <5> QED BY <4>4, <5>1
        <4>6. (k - 1) + (m - (k - 1)) = m
          BY <1>0
        <4> QED BY <1>0, <2>0, <3>1, <4>5, <4>6
      <3>2. CASE i # 0
        BY <1>0, <2>0, <2>2, <3>2
      <3> QED BY <3>1, <3>2
    <2>4. at(p, b + i) = b + 1 .. b + i
      <3> HIDE DEF p, b, len
      <3>1. ASSUME NEW x \in at(p, b + i) PROVE x \in b + 1 .. b + i
        <4>1. x \in 1 .. N /\ all[x][1] = p /\ x <= b + i
          BY <1>0, <2>0, <2>3
        <4> QED BY <2>0, <2>1, <4>1
      <3>2. ASSUME NEW x \in b + 1 .. b + i PROVE x \in at(p, b + i)
        <4>1. x - b \in 1 .. len /\ b + (x - b) = x /\ x \in 1 .. b + i
          BY <2>0
        <4>2. all[x][1] = p
          BY <2>2, <4>1
        <4> QED BY <4>1, <4>2
      <3> QED BY <3>1, <3>2
    <2>5. Cardinality(b + 1 .. b + i) = i
      <3> HIDE DEF b, len
      <3>1. b + 1 \in Int /\ b + i \in Int
        BY <2>0
      <3> QED BY <2>0, <3>1, FS_Interval
    <2>6. Loaded(side, p, b + i) = Cardinality(at(p, b + i))
      BY DEF Loaded, all
    <2> QED BY <2>4, <2>5, <2>6
  <1>4. ASSUME NEW p \in Prices PROVE Loaded(side, p, N) = Len(levels[side][p])
    <2>1. Loaded(side, p, N) = Cardinality(at(p, N))
      BY DEF Loaded, all
    <2>2. CASE p \in Occupied(side)
      <3>1. PICK k \in 1 .. m : BestFirst(side)[k] = p
        BY <2>2, BestFirstIs DEF Rungs, m
      <3> DEFINE b == off[k - 1]
                 len == Len(Rung(side, k))
      <3>0. len \in Nat /\ len \in 0 .. len /\ b \in Nat
        <4>1. k - 1 \in 0 .. m
          BY <1>0
        <4>2. len \in Nat /\ b \in Nat
          BY <1>0, <4>1
        <4> HIDE DEF len, b
        <4> QED BY <4>2
      <3>2. len \in Nat /\ len \in 0 .. len /\ Loaded(side, p, b + len) = len
        BY <1>3, <3>0, <3>1
      <3>3. len = Len(levels[side][p])
        BY <3>1 DEF Rung
      <3>4. at(p, N) = at(p, b + len)
        <4>1. ASSUME NEW x \in 1 .. N, all[x][1] = p PROVE x \in 1 .. b + len
          <5>1. PICK l \in 1 .. m : \E h \in 1 .. Len(Rung(side, l)) : x = off[l - 1] + h
            BY <1>0
          <5>2. PICK h \in 1 .. Len(Rung(side, l)) : x = off[l - 1] + h
            BY <5>1
          <5>3. BestFirst(side)[l] = p
            BY <1>0, <4>1, <5>2
          <5>4. l = k
            BY <3>1, <5>3, BestFirstIs DEF Rungs, m
          <5>5. x = b + h /\ h \in 1 .. len
            BY <5>2, <5>4
          <5> HIDE DEF b, len
          <5> QED BY <3>0, <5>5
        <4>2. ASSUME NEW x \in 1 .. b + len PROVE x \in 1 .. N
          <5>0. len # 0
            BY <1>0, <2>2, <3>3, <4>2, TypedLevels DEF Occupied, Lists
          <5>1. b + len \in 1 .. N /\ b \in Nat
            <6>1. len \in 1 .. len
              BY <3>2, <5>0
            <6> QED BY <1>0, <3>0, <6>1
          <5> QED BY <1>0, <3>2, <5>1
        <4> HIDE DEF b, len
        <4> QED BY <4>1, <4>2
      <3>5. Loaded(side, p, b + len) = Cardinality(at(p, b + len))
        BY DEF Loaded, all
      <3> QED BY <2>1, <3>2, <3>3, <3>4, <3>5
    <2>3. CASE p \notin Occupied(side)
      <3>1. levels[side][p] = <<>> /\ Len(levels[side][p]) = 0
        BY <2>3 DEF Occupied
      <3>2. ASSUME NEW x \in 1 .. N PROVE all[x][1] # p
        <4>1. PICK l \in 1 .. m : \E h \in 1 .. Len(Rung(side, l)) : x = off[l - 1] + h
          BY <1>0
        <4>2. PICK h \in 1 .. Len(Rung(side, l)) : x = off[l - 1] + h
          BY <4>1
        <4>3. all[x][1] = BestFirst(side)[l]
          BY <1>0, <4>2
        <4>4. BestFirst(side)[l] \in Occupied(side)
          BY BestFirstIs DEF Rungs, m
        <4> QED BY <2>3, <4>3, <4>4
      <3>3. at(p, N) = {}
        BY <3>2
      <3> QED BY <2>1, <3>1, <3>3, FS_EmptySet
    <2> QED BY <2>2, <2>3
  <1> QED BY <1>1, <1>2, <1>3, <1>4 DEF all, N, m, off

-----------------------------------------------------------------------------
\* The book base with the first n entries of side loaded.
LoadedLists(side, base, n) ==
    [t \in Side |-> [p \in Prices |-> IF t = side THEN SubSeq(levels[side][p], 1, Loaded(side, p, n))
                                                  ELSE base.levels[t][p]]]
ListedBy(side, id, n) == \E x \in 1 .. n : Everything(side)[x][2].id = id
LoadedLocators(side, base, n) ==
    [id \in OrderIds |-> IF ListedBy(side, id, n) THEN locators[id] ELSE base.locators[id]]
LoadedBook(side, base, n) ==
    [levels |-> LoadedLists(side, base, n), locators |-> LoadedLocators(side, base, n)]

\* base has nothing on side, and no locator of its own.
Loadable(side, base) ==
    /\ base \in Books
    /\ base.levels[side] = [p \in Prices |-> <<>>]
    /\ \A id \in OrderIds : base.locators[id] \in {NoLocator, locators[id]}

LEMMA AppendPart ==
    ASSUME NEW q \in Lists, NEW i \in 1 .. Len(q)
    PROVE  Append(SubSeq(q, 1, i - 1), q[i]) = SubSeq(q, 1, i)
  <1>1. q \in Seq(RestingOrder) /\ Len(q) \in Nat
    BY DEF Lists
  <1> DEFINE x == SubSeq(q, 1, i - 1)  y == SubSeq(q, 1, i)  z == Append(x, q[i])
  <1>2. x \in Seq(RestingOrder) /\ Len(x) = i - 1 /\ \A j \in 1 .. (i - 1) : x[j] = q[j]
    BY <1>1
  <1>3. y \in Seq(RestingOrder) /\ Len(y) = i /\ \A j \in 1 .. i : y[j] = q[j]
    BY <1>1
  <1>4. q[i] \in RestingOrder
    BY <1>1
  <1>5. z \in Seq(RestingOrder) /\ Len(z) = i /\ \A j \in 1 .. i : z[j] = q[j]
    <2> HIDE DEF x
    <2>1. z \in Seq(RestingOrder) /\ Len(z) = Len(x) + 1 /\ z[Len(x) + 1] = q[i]
          /\ \A j \in 1 .. Len(x) : z[j] = x[j]
      BY <1>2, <1>4, AppendProperties
    <2> HIDE DEF z
    <2> QED BY <1>2, <2>1
  <1> HIDE DEF x, y, z
  <1>6. z = y
    BY <1>3, <1>5
  <1> QED BY <1>6 DEF x, y, z

(* One more entry loaded is the next of these books.                       *)
LEMMA EntryLoads ==
    ASSUME QueueInv, NEW side \in Side, NEW base, Loadable(side, base), NEW n \in 1 .. Len(Everything(side))
    PROVE  Load(side, LoadedBook(side, base, n - 1), Everything(side)[n]) = LoadedBook(side, base, n)
  <1> DEFINE all == Everything(side)
             N == Len(all)
             off == Before(side)
             entry == all[n]
             now == LoadedBook(side, base, n)
             was == LoadedBook(side, base, n - 1)
  <1>1. TypeOK /\ Len(all) = off[Rungs(side)]
    BY Listing DEF QueueInv, IInv
  <1>2. PICK k \in 1 .. Rungs(side) : \E i \in 1 .. Len(Rung(side, k)) : n = off[k - 1] + i
    BY <1>1, Listing
  <1>3. PICK i \in 1 .. Len(Rung(side, k)) : n = off[k - 1] + i
    BY <1>2
  <1> DEFINE P == BestFirst(side)[k]
             L == Rung(side, k)
             o == L[i]
  <1>4. entry = <<P, o>> /\ P \in Prices /\ L \in Lists /\ Len(L) \in Nat /\ o \in RestingOrder /\ off[k - 1] \in Nat
    <2>1. entry = <<P, o>> /\ P \in Prices /\ L \in Lists /\ Len(L) \in Nat /\ o \in RestingOrder
      BY <1>1, <1>3, Listing
    <2>2. off \in [0 .. Rungs(side) -> Nat] /\ k - 1 \in 0 .. Rungs(side)
      BY <1>1, Listing
    <2> HIDE DEF off
    <2>3. off[k - 1] \in Nat
      BY <2>2
    <2> QED BY <2>1, <2>3
  <1>5. Loaded(side, P, n) = i /\ Loaded(side, P, n - 1) = i - 1
    <2>1. i \in 0 .. Len(L) /\ i - 1 \in 0 .. Len(L) /\ n - 1 = off[k - 1] + (i - 1)
      <3> HIDE DEF off, L
      <3> QED BY <1>3, <1>4 DEF L
    <2>2. Loaded(side, P, off[k - 1] + i) = i /\ Loaded(side, P, off[k - 1] + (i - 1)) = i - 1
      BY <1>1, <2>1, LoadedIs
    <2> QED BY <1>3, <2>1, <2>2
  <1>6. ASSUME NEW p \in Prices, p # P PROVE Loaded(side, p, n) = Loaded(side, p, n - 1)
    <2>1. Loaded(side, p, n - 1) \in Nat
          /\ Loaded(side, p, n) = Loaded(side, p, n - 1) + (IF entry[1] = p THEN 1 ELSE 0)
      BY <1>1, LoadedIs
    <2>2. entry[1] # p
      BY <1>4, <1>6
    <2> DEFINE x == Loaded(side, p, n - 1)  y == Loaded(side, p, n)
    <2> HIDE DEF x, y, entry
    <2>3. x \in Nat /\ y = x + (IF entry[1] = p THEN 1 ELSE 0)
      BY <2>1 DEF x, y
    <2>4. y = x
      BY <2>2, <2>3
    <2> QED BY <2>4 DEF x, y
  <1>7. levels[side][P] = L
    BY DEF Rung
  <1>8. entry[1] = P /\ entry[2] = o
    BY <1>4
  <1> HIDE DEF P, all, off, entry, L
  <1> DEFINE lists == LoadedLists(side, base, n - 1)
             more == LoadedLists(side, base, n)
  <1>9. [lists EXCEPT ![side][P] = Append(@, o)] = more
    <2>1. Append(SubSeq(L, 1, i - 1), L[i]) = SubSeq(L, 1, i)
      BY <1>3, <1>4, AppendPart DEF L
    <2>2. lists[side][P] = SubSeq(L, 1, i - 1) /\ more[side][P] = SubSeq(L, 1, i)
      BY <1>4, <1>5, <1>7 DEF LoadedLists
    <2>3. \A t \in Side, p \in Prices : (t = side /\ p = P) \/ lists[t][p] = more[t][p]
      BY <1>6 DEF LoadedLists
    <2>4. /\ lists = [t \in Side |-> [p \in Prices |-> lists[t][p]]]
          /\ more = [t \in Side |-> [p \in Prices |-> more[t][p]]]
      BY DEF LoadedLists
    <2> HIDE DEF lists, more, o
    <2> DEFINE changed == [lists EXCEPT ![side][P] = Append(@, o)]
    <2>5. changed[side][P] = more[side][P]
      BY <1>4, <2>1, <2>2, <2>4 DEF o
    <2>6. \A t \in Side, p \in Prices : changed[t][p] = more[t][p]
      <3> SUFFICES ASSUME NEW t \in Side, NEW p \in Prices PROVE changed[t][p] = more[t][p]
        OBVIOUS
      <3>1. CASE t = side /\ p = P
        BY <2>5, <3>1
      <3>2. CASE ~(t = side /\ p = P)
        <4>1. lists[t][p] = more[t][p]
          BY <2>3, <3>2
        <4>2. t \in DOMAIN lists /\ p \in DOMAIN lists[t]
          BY <2>4
        <4>3. changed[t][p] = lists[t][p]
          BY <3>2, <4>2
        <4> QED BY <4>1, <4>3
      <3> QED BY <3>1, <3>2
    <2>7. changed = [t \in Side |-> [p \in Prices |-> changed[t][p]]]
      <3>1. \A t \in Side : lists[t] = [p \in Prices |-> lists[t][p]]
        BY <2>4
      <3>2. changed = [t \in Side |-> changed[t]]
        BY <2>4
      <3>3. changed[side] = [lists[side] EXCEPT ![P] = Append(lists[side][P], o)]
        BY <2>4
      <3>4. changed[side] = [p \in Prices |-> changed[side][p]]
        BY <3>1, <3>3
      <3>5. \A t \in Side : t # side => changed[t] = lists[t]
        BY <2>4
      <3> HIDE DEF changed
      <3>6. \A t \in Side : changed[t] = [p \in Prices |-> changed[t][p]]
        BY <3>1, <3>4, <3>5
      <3> QED BY <3>2, <3>6
    <2> HIDE DEF changed
    <2>8. changed = more
      BY <2>4, <2>6, <2>7
    <2> QED BY <2>8 DEF changed
  <1> DEFINE known == LoadedLocators(side, base, n - 1)
             told == LoadedLocators(side, base, n)
             loc == [side |-> side, price |-> P]
  <1>10. [known EXCEPT ![o.id] = IF @ = NoLocator THEN loc ELSE @] = told
    <2>1. locators[o.id] = loc /\ o.id \in OrderIds
      BY <1>3, <1>4, EntryActive DEF L, P, RestingOrder
    <2>2. ListedBy(side, o.id, n)
      BY <1>8 DEF ListedBy, all, entry
    <2>3. \A id : id # o.id => (ListedBy(side, id, n) <=> ListedBy(side, id, n - 1))
      <3>1. \A x \in 1 .. n : x \in 1 .. (n - 1) \/ x = n
        OBVIOUS
      <3>2. \A x \in 1 .. (n - 1) : x \in 1 .. n
        OBVIOUS
      <3> QED BY <1>8, <3>1, <3>2 DEF ListedBy, all, entry
    <2>4. base.locators[o.id] \in {NoLocator, loc}
      BY <2>1 DEF Loadable
    <2>5. known[o.id] \in {NoLocator, loc} /\ told[o.id] = loc
      BY <2>1, <2>2, <2>4 DEF LoadedLocators
    <2>6. \A id \in OrderIds : id # o.id => known[id] = told[id]
      BY <2>3 DEF LoadedLocators
    <2>7. known = [id \in OrderIds |-> known[id]] /\ told = [id \in OrderIds |-> told[id]]
      BY DEF LoadedLocators
    <2> HIDE DEF known, told, o, loc
    <2> QED BY <2>1, <2>5, <2>6, <2>7
  <1>11. Load(side, was, entry) =
            [levels |-> [lists EXCEPT ![side][entry[1]] = Append(@, entry[2])],
             locators |-> [known EXCEPT ![entry[2].id] =
                              IF @ = NoLocator THEN [side |-> side, price |-> entry[1]] ELSE @]]
    BY DEF Load, LoadedBook
  <1>12. now = [levels |-> more, locators |-> told]
    BY DEF LoadedBook
  <1> HIDE DEF lists, more, known, told, now, was
  <1>13. Load(side, was, entry) = now
    BY <1>8, <1>9, <1>10, <1>11, <1>12
  <1> QED BY <1>13 DEF now, was, entry, all

(* So a whole side is loaded.                                              *)
LEMMA SideLoads ==
    ASSUME QueueInv, NEW side \in Side, NEW base, Loadable(side, base),
           NEW g, LoadsBy(g, side, base, Everything(side), Len(Everything(side)))
    PROVE  g[1 .. Len(Everything(side))] = LoadedBook(side, base, Len(Everything(side)))
  <1> DEFINE all == Everything(side)
             N == Len(all)
             h == [n \in 0 .. N |-> LoadedBook(side, base, n)]
  <1>1. N \in Nat
    <2>0. TypeOK
      BY DEF QueueInv, IInv
    <2>1. N = Before(side)[Rungs(side)] /\ Before(side) \in [0 .. Rungs(side) -> Nat] /\ Rungs(side) \in Nat
      BY <2>0, Listing
    <2> QED BY <2>1
  <1>2. LoadedBook(side, base, 0) = base
    <2>0. base \in Books /\ base.levels[side] = [p \in Prices |-> <<>>] /\ TypeOK
      BY DEF Loadable, QueueInv, IInv
    <2>1. base = [levels |-> base.levels, locators |-> base.locators]
          /\ base.levels \in [Side -> [Prices -> Lists]]
          /\ base.locators \in [OrderIds -> Locator \cup {NoLocator}]
      <3> HIDE DEF Lists
      <3> QED BY <2>0 DEF Books
    <2>2. LoadedLists(side, base, 0) = base.levels
      <3>1. ASSUME NEW p \in Prices PROVE SubSeq(levels[side][p], 1, Loaded(side, p, 0)) = base.levels[side][p]
        <4>1. Loaded(side, p, 0) = 0
          BY <2>0, LoadedIs
        <4>2. levels[side][p] \in Seq(RestingOrder)
          BY <2>0, TypedLevels DEF Lists
        <4>3. SubSeq(levels[side][p], 1, 0) = <<>>
          BY <4>2
        <4> QED BY <2>0, <4>1, <4>3
      <3>2. \A t \in Side : base.levels[t] = [p \in Prices |-> base.levels[t][p]]
        BY <2>1
      <3>3. ASSUME NEW t \in Side
            PROVE  [p \in Prices |-> IF t = side THEN SubSeq(levels[side][p], 1, Loaded(side, p, 0))
                                                 ELSE base.levels[t][p]] = base.levels[t]
        BY <3>1, <3>2
      <3> QED BY <2>1, <3>3 DEF LoadedLists
    <2>3. LoadedLocators(side, base, 0) = base.locators
      <3>1. \A id : ~ListedBy(side, id, 0)
        BY DEF ListedBy
      <3> QED BY <2>1, <3>1 DEF LoadedLocators
    <2> QED BY <2>1, <2>2, <2>3 DEF LoadedBook
  <1> HIDE DEF all
  <1>3. g[{}] = h[0]
    BY <1>1, <1>2 DEF LoadsBy, all
  <1>4. ASSUME NEW k \in 1 .. N, g[(1 .. k) \ {Max(1 .. k)}] = h[k - 1]
        PROVE  g[1 .. k] = h[k]
    <2>1. h[k - 1] = LoadedBook(side, base, k - 1) /\ h[k] = LoadedBook(side, base, k)
      BY <1>1
    <2>2. g[1 .. k] = Load(side, g[(1 .. k) \ {Max(1 .. k)}], all[k])
      BY DEF LoadsBy, all
    <2>3. Load(side, LoadedBook(side, base, k - 1), all[k]) = LoadedBook(side, base, k)
      BY EntryLoads DEF all
    <2> HIDE DEF h
    <2> QED BY <1>4, <2>1, <2>2, <2>3
  <1>5. g[1 .. N] = h[N]
    <2> HIDE DEF h, N
    <2> QED BY <1>1, <1>3, <1>4, FoldFollows
  <1>6. h[N] = LoadedBook(side, base, N)
    BY <1>1
  <1> QED BY <1>5, <1>6 DEF all

\* All of a side loaded: its lists are those of the book, and its orders have their locators.
LEMMA SideLoaded ==
    ASSUME QueueInv, NEW side \in Side
    PROVE  /\ Len(Everything(side)) \in Nat
           /\ Everything(side) \in [1 .. Len(Everything(side)) -> Entry]
           /\ \A p \in Prices : SubSeq(levels[side][p], 1, Loaded(side, p, Len(Everything(side)))) = levels[side][p]
           /\ \A id : ListedBy(side, id, Len(Everything(side))) <=>
                         id \in ActiveIds /\ locators[id].side = side
  <1> DEFINE all == Everything(side)
             N == Len(all)
             m == Rungs(side)
             off == Before(side)
  <1>0. TypeOK
    BY DEF QueueInv, IInv
  <1>1. N = off[m] /\ off \in [0 .. m -> Nat] /\ m \in Nat /\ all \in Seq(Entry)
    BY <1>0, Listing DEF Entry
  <1>2. N \in Nat /\ all \in [1 .. N -> Entry]
    <2>1. off[m] \in Nat
      BY <1>1
    <2> HIDE DEF off
    <2> QED BY <1>1, <2>1
  <1>3. ASSUME NEW p \in Prices PROVE SubSeq(levels[side][p], 1, Loaded(side, p, N)) = levels[side][p]
    <2>1. Loaded(side, p, N) = Len(levels[side][p]) /\ levels[side][p] \in Seq(RestingOrder)
      BY <1>0, LoadedIs, TypedLevels DEF Lists
    <2> QED BY <2>1
  <1>4. ASSUME NEW id, ListedBy(side, id, N) PROVE id \in ActiveIds /\ locators[id].side = side
    <2>1. PICK x \in 1 .. off[m] : all[x][2].id = id
      BY <1>1, <1>4 DEF ListedBy
    <2>2. PICK k \in 1 .. m : \E i \in 1 .. Len(Rung(side, k)) : x = off[k - 1] + i
      BY <1>0, <2>1, Listing
    <2>3. PICK i \in 1 .. Len(Rung(side, k)) : x = off[k - 1] + i
      BY <2>2
    <2>4. all[x] = <<BestFirst(side)[k], Rung(side, k)[i]>>
      BY <1>0, <2>3, Listing
    <2>5. Rung(side, k)[i].id = id
      BY <2>1, <2>4
    <2>6. /\ Rung(side, k)[i].id \in ActiveIds
          /\ locators[Rung(side, k)[i].id] = [side |-> side, price |-> BestFirst(side)[k]]
      BY EntryActive
    <2> QED BY <2>5, <2>6
  <1>5. ASSUME NEW id \in ActiveIds, locators[id].side = side PROVE ListedBy(side, id, N)
    <2>1. PICK k \in 1 .. m : \E i \in 1 .. Len(Rung(side, k)) : Rung(side, k)[i].id = id
      BY <1>5, ActiveEntry
    <2>2. PICK i \in 1 .. Len(Rung(side, k)) : Rung(side, k)[i].id = id
      BY <2>1
    <2> DEFINE x == off[k - 1] + i
    <2>3. x \in 1 .. off[m] /\ all[x] = <<BestFirst(side)[k], Rung(side, k)[i]>>
      BY <1>0, <2>2, Listing
    <2>4. all[x][2].id = id
      BY <2>2, <2>3
    <2> HIDE DEF x
    <2> QED BY <1>1, <2>3, <2>4 DEF ListedBy
  <1> QED BY <1>2, <1>3, <1>4, <1>5

(***************************************************************************)
(* Bids, then asks: every list and every locator is back.                  *)
(***************************************************************************)
LEMMA BookRestored == QueueInv => SnapshotRestoresBook
  <1> SUFFICES ASSUME QueueInv PROVE SnapshotRestoresBook
    OBVIOUS
  <1> DEFINE bids == Everything("buy")  nb == Len(bids)
             asks == Everything("sell") na == Len(asks)
             half == FoldLeft(LoadBids, Cleared, bids)
             whole == FoldLeft(LoadAsks, half, asks)
             book == [levels |-> levels, locators |-> locators]
  <1>1. TypeOK /\ "buy" \in Side /\ "sell" \in Side /\ \A t \in Side : t = "buy" \/ t = "sell"
    BY DEF QueueInv, IInv, Side
  <1>2. Restored(Snapshot) = whole
    <2>1. Snapshot["buy"] = bids /\ Snapshot["sell"] = asks
      BY <1>1, NothingCut DEF Snapshot
    <2> QED BY <2>1, Zenon DEF Restored
  <1>3. nb \in Nat /\ bids \in [1 .. nb -> Entry] /\ na \in Nat /\ asks \in [1 .. na -> Entry]
    BY <1>1, SideLoaded
  <1>4. Cleared \in Books /\ Loadable("buy", Cleared)
    <2>1. <<>> \in Lists
      BY DEF Lists
    <2>2. Cleared \in Books
      <3> HIDE DEF Lists
      <3> QED BY <2>1 DEF Cleared, Books
    <2> QED BY <1>1, <2>2 DEF Loadable, Cleared
  <1>5. half = LoadedBook("buy", Cleared, nb)
    <2>1. PICK g : half = g[1 .. nb] /\ LoadsBy(g, "buy", Cleared, bids, nb)
      BY <1>3, <1>4, FoldBids
    <2> QED BY <1>1, <1>4, <2>1, SideLoads
  <1>6. /\ half.levels["buy"] = levels["buy"] /\ half.levels["sell"] = [p \in Prices |-> <<>>]
        /\ half.levels = [t \in Side |-> half.levels[t]]
        /\ half.locators = [id \in OrderIds |-> IF id \in ActiveIds /\ locators[id].side = "buy"
                                                THEN locators[id] ELSE NoLocator]
        /\ half = [levels |-> half.levels, locators |-> half.locators]
    <2>1. half.levels = LoadedLists("buy", Cleared, nb) /\ half.locators = LoadedLocators("buy", Cleared, nb)
          /\ half = [levels |-> half.levels, locators |-> half.locators]
      BY <1>5 DEF LoadedBook
    <2>2. LoadedLists("buy", Cleared, nb)["buy"] = [p \in Prices |-> levels["buy"][p]]
      BY <1>1, SideLoaded DEF LoadedLists
    <2>3. levels["buy"] = [p \in Prices |-> levels["buy"][p]]
      BY <1>1 DEF TypeOK
    <2>4. LoadedLists("buy", Cleared, nb)["sell"] = [p \in Prices |-> <<>>]
      BY <1>1 DEF LoadedLists, Cleared
    <2>5. LoadedLists("buy", Cleared, nb) = [t \in Side |-> LoadedLists("buy", Cleared, nb)[t]]
      BY DEF LoadedLists
    <2>6. LoadedLocators("buy", Cleared, nb) =
             [id \in OrderIds |-> IF id \in ActiveIds /\ locators[id].side = "buy" THEN locators[id] ELSE NoLocator]
      BY <1>1, SideLoaded DEF LoadedLocators, Cleared
    <2> HIDE DEF half, nb
    <2> QED BY <2>1, <2>2, <2>3, <2>4, <2>5, <2>6
  <1>7. Loadable("sell", half)
    <2>1. half \in Books
      <3>1. half.levels \in [Side -> [Prices -> Lists]]
        <4>1. \A t \in Side : half.levels[t] \in [Prices -> Lists]
          <5>1. levels["buy"] \in [Prices -> Lists] /\ [p \in Prices |-> <<>>] \in [Prices -> Lists]
            <6>1. <<>> \in Lists /\ levels["buy"] \in [Prices -> Lists]
              BY <1>1, TypedLevels DEF Lists
            <6> HIDE DEF Lists
            <6> QED BY <6>1
          <5> QED BY <1>1, <1>6, <5>1
        <4> HIDE DEF half
        <4> QED BY <1>6, <4>1
      <3>2. half.locators \in [OrderIds -> Locator \cup {NoLocator}]
        <4>1. \A id \in ActiveIds : locators[id] \in Locator
          BY ActiveEntry
        <4> HIDE DEF half
        <4> QED BY <1>6, <4>1
      <3> HIDE DEF half
      <3> QED BY <1>6, <3>1, <3>2 DEF Books
    <2> HIDE DEF half
    <2> QED BY <1>6, <2>1 DEF Loadable
  <1>8. whole = LoadedBook("sell", half, na)
    <2>0. half \in Books
      BY <1>7 DEF Loadable
    <2> HIDE DEF half
    <2>1. PICK g : whole = g[1 .. na] /\ LoadsBy(g, "sell", half, asks, na)
      BY <1>3, <2>0, FoldAsks
    <2> QED BY <1>1, <1>7, <2>1, SideLoads
  <1>9. LoadedLists("sell", half, na) = levels
    <2>1. LoadedLists("sell", half, na) = [t \in Side |-> LoadedLists("sell", half, na)[t]]
      BY DEF LoadedLists
    <2>2. \A t \in Side : levels[t] = [p \in Prices |-> levels[t][p]]
      BY <1>1 DEF TypeOK
    <2>3. LoadedLists("sell", half, na)["sell"] = levels["sell"]
      <3>1. \A p \in Prices : SubSeq(levels["sell"][p], 1, Loaded("sell", p, na)) = levels["sell"][p]
        BY <1>1, SideLoaded
      <3> HIDE DEF half, na
      <3>2. LoadedLists("sell", half, na)["sell"] =
               [p \in Prices |-> SubSeq(levels["sell"][p], 1, Loaded("sell", p, na))]
        BY <1>1 DEF LoadedLists
      <3> QED BY <1>1, <2>2, <3>1, <3>2
    <2>4. LoadedLists("sell", half, na)["buy"] = levels["buy"]
      <3>1. LoadedLists("sell", half, na)["buy"] = [p \in Prices |-> half.levels["buy"][p]]
        BY <1>1 DEF LoadedLists
      <3> HIDE DEF half
      <3> QED BY <1>1, <1>6, <2>2, <3>1
    <2>5. levels = [t \in Side |-> levels[t]]
      BY <1>1 DEF TypeOK
    <2> HIDE DEF half, na
    <2>6. \A t \in Side : LoadedLists("sell", half, na)[t] = levels[t]
      BY <1>1, <2>3, <2>4
    <2> QED BY <2>1, <2>5, <2>6
  <1>10. LoadedLocators("sell", half, na) = locators
    <2>1. ASSUME NEW id \in OrderIds
          PROVE  (IF ListedBy("sell", id, na) THEN locators[id] ELSE half.locators[id]) = locators[id]
      <3>1. ListedBy("sell", id, na) <=> id \in ActiveIds /\ locators[id].side = "sell"
        BY <1>1, SideLoaded
      <3>2. id \in ActiveIds => locators[id].side \in Side
        BY ActiveEntry
      <3>3. id \notin ActiveIds => locators[id] = NoLocator
        BY DEF ActiveIds, Active
      <3> HIDE DEF half, na
      <3> QED BY <1>1, <1>6, <3>1, <3>2, <3>3
    <2>2. locators = [id \in OrderIds |-> locators[id]]
      BY <1>1 DEF TypeOK
    <2> HIDE DEF half, na
    <2> QED BY <2>1, <2>2 DEF LoadedLocators
  <1> HIDE DEF whole
  <1>11. whole = book
    BY <1>8, <1>9, <1>10 DEF LoadedBook
  <1> QED BY <1>2, <1>11 DEF SnapshotRestoresBook

(***************************************************************************)
(* For any numbers of orders, agents, prices and quantities: in every      *)
(* reachable state, in the middle of a match too, L1, L2, L3 and queue_    *)
(* position() tell of one and the same book, and restore_state() of a      *)
(* snapshot_state() is the book it was taken of -- every list in its       *)
(* order, every locator, nothing cut off by the depth asked for.           *)
(***************************************************************************)
THEOREM ViewsAlwaysAgree == Spec => []ViewsAgree
<1>1. QueueInv => ViewsAgree
  BY OneBook, BookRestored DEF ViewsAgree
<1>2. QED
  BY QueueInit, QueueNext, <1>1, PTL DEF Spec
=============================================================================
