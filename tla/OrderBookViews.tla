--------------------------- MODULE OrderBookViews ---------------------------
(***************************************************************************)
(* What the book tells its callers: L1, L2, L3, queue positions, and the   *)
(* snapshot from which restore_state() rebuilds a book.                    *)
(***************************************************************************)
EXTENDS OrderBook

(* The prices with orders on side.                                         *)
Occupied(side) == {p \in Prices : levels[side][p] # <<>>}

(* Mutant: both sides listed from the lowest price.                        *)
LowestFirst(side) ==
    CHOOSE s \in [1 .. Cardinality(Occupied(side)) -> Occupied(side)] :
        \A i, j \in DOMAIN s : i < j => s[i] < s[j]

(* The occupied prices in the order the code's map visits them.            *)
BestFirst(side) ==
    CHOOSE s \in [1 .. Cardinality(Occupied(side)) -> Occupied(side)] :
        \A i, j \in DOMAIN s : i < j => Better(side, s[i], s[j])

Quantity(orders) == SumFunction([i \in DOMAIN orders |-> orders[i].qty])

LevelView(side, price) ==
    [price |-> price, qty |-> Quantity(levels[side][price]), count |-> Len(levels[side][price])]

(* l1(): the best level of a side, as a set of at most one.                *)
L1(side) == {LevelView(side, p) : p \in {q \in Prices : IsBest(side, q)}}

(* Mutant: the depth test is off by one.                                   *)
PrefixShort(s, depth) == SubSeq(s, 1, IF depth <= Len(s) THEN depth - 1 ELSE Len(s))

Prefix(s, depth) == SubSeq(s, 1, IF depth <= Len(s) THEN depth ELSE Len(s))

L2(side, depth) ==
    LET prices == Prefix(BestFirst(side), depth)
    IN  [i \in DOMAIN prices |-> LevelView(side, prices[i])]

(* l3(): every order with its price, best level first, front first, cut at depth. *)
L3(side, depth) ==
    LET prices == BestFirst(side)
        listed(p) == [i \in DOMAIN levels[side][p] |-> <<p, levels[side][p][i]>>]
    IN  Prefix(FlattenSeq([i \in DOMAIN prices |-> listed(prices[i])]), depth)

(* queue_position(): what is ahead of and behind an active order at its level. *)
QueuePosition(id) ==
    LET level == Level(locators[id])
        rank == CHOOSE i \in DOMAIN level : level[i].id = id
    IN  [ahead |-> Quantity(SubSeq(level, 1, rank - 1)),
         behind |-> Quantity(SubSeq(level, rank + 1, Len(level))),
         rank |-> rank]

(***************************************************************************)
(* snapshot_state() lists both sides to the depth locators_.size();        *)
(* restore_state() clears the book and loads one listed order after the    *)
(* other: behind those of its price, with a locator unless its id has one. *)
(***************************************************************************)
ActiveIds == {id \in OrderIds : Active(id)}
Snapshot == [side \in Side |-> L3(side, Cardinality(ActiveIds))]

Cleared ==
    [levels |-> [side \in Side |-> [price \in Prices |-> <<>>]],
     locators |-> [id \in OrderIds |-> NoLocator]]
Load(side, book, entry) ==
    [levels |-> [book.levels EXCEPT ![side][entry[1]] = Append(@, entry[2])],
     locators |-> [book.locators EXCEPT ![entry[2].id] =
                      IF @ = NoLocator THEN [side |-> side, price |-> entry[1]] ELSE @]]
LoadBids(book, entry) == Load("buy", book, entry)
LoadAsks(book, entry) == Load("sell", book, entry)
Restored(snapshot) ==
    FoldLeft(LoadAsks, FoldLeft(LoadBids, Cleared, snapshot["buy"]), snapshot["sell"])

-----------------------------------------------------------------------------
(***************************************************************************)
(* The views agree with each other: L1 is the head of L2, and the place of *)
(* an active order in L3 is the number of orders on better levels of L2    *)
(* plus its queue rank, with the quantities ahead, behind and its own      *)
(* adding up to the level.                                                 *)
(***************************************************************************)
ViewsOfOneBook ==
    /\ \A side \in Side :
          LET depth == L2(side, MaxPrice)
          IN  /\ L1(side) = IF depth = <<>> THEN {} ELSE {Head(depth)}
              /\ \A i, j \in DOMAIN depth : i < j => Better(side, depth[i].price, depth[j].price)
    /\ \A id \in ActiveIds :
          LET loc == locators[id]
              depth == L2(loc.side, MaxPrice)
              all == L3(loc.side, Cardinality(ActiveIds))
              k == CHOOSE k \in DOMAIN depth : depth[k].price = loc.price
              place == CHOOSE n \in DOMAIN all : all[n][2].id = id
              queue == QueuePosition(id)
          IN  /\ place = SumFunction([l \in 1 .. k - 1 |-> depth[l].count]) + queue.rank
              /\ queue.ahead + RestingQuantity(id) + queue.behind = depth[k].qty

(***************************************************************************)
(* A book restored from a snapshot is the book the snapshot was taken of:  *)
(* same lists in the same order, same locators.  No order is cut off by    *)
(* the depth the snapshot asks l3() for.                                   *)
(***************************************************************************)
SnapshotRestoresBook == Restored(Snapshot) = [levels |-> levels, locators |-> locators]

(***************************************************************************)
(* Whatever is asked of the book at one time -- a level, a place in the    *)
(* queue, a snapshot to restore -- is true of one and the same book.       *)
(***************************************************************************)
ViewsAgree == SnapshotRestoresBook /\ ViewsOfOneBook
=============================================================================
