----------------------------- MODULE IndexRules -----------------------------
(***************************************************************************)
(* How an index chooses its constituents and weighs them.  Two capping     *)
(* loops exist: researchWeights (packages/research-engine), which refuses  *)
(* a cap it cannot honour, and calculateWeights (packages/index-engine),   *)
(* which serves some weights whatever it is asked.  Numbers are rational,  *)
(* so the tolerance 1e-12 of both loops is exact equality here.            *)
(* bufferedSelection keeps incumbents; IndexHistory freezes compositions.  *)
(***************************************************************************)
EXTENDS Integers, FiniteSets, SequencesExt, Fractions

CONSTANTS
    BasketSignals, \* bound: constituent signals, squares so that sqrt is exact
    MaxBasket,  \* bound: constituents of a basket
    Caps,       \* bound: caps, as fractions
    Ranked,     \* ids, best first
    Unranked,   \* an incumbent without a rank
    MaxIncumbents, \* bound: incumbents
    Dates       \* bound: dates of compositions

ASSUME IndexAssumption ==
    /\ Ranked \in Seq(ToSet(Ranked)) /\ IsInjective(Ranked)
    /\ MaxIncumbents \in Nat /\ Dates \subseteq Int

VARIABLES
    rule,       \* the inputs of one call
    snapshots,  \* IndexHistory.snapshots
    frozen,     \* history: the composition first accepted for each date
    atItsDate,  \* history: what a date answered when it had no later one behind it
    late        \* history: the dates set after a later one

indexVars == <<rule, snapshots, frozen, atItsDate, late>>

-----------------------------------------------------------------------------
Root(x) == CHOOSE r \in 0 .. x : r * r = x

-----------------------------------------------------------------------------
(* Weights.                                                                *)

Excess(weights, cap) ==
    Total([i \in DOMAIN weights |-> IF Less(cap, weights[i]) THEN Minus(weights[i], cap) ELSE Nothing])
Capped(weights, cap) == [i \in DOMAIN weights |-> Lower(weights[i], cap)]
Below(weights, cap) == {i \in DOMAIN weights : Less(weights[i], cap)}
Held(weights, indices) == Total([i \in DOMAIN weights |-> IF i \in indices THEN weights[i] ELSE Nothing])

\* normalize(): shares of the sum, or equal shares of nothing.
Normalize(raw) ==
    LET sum == Total(raw)
    IN  [i \in DOMAIN raw |-> IF sum = Nothing THEN <<1, Len(raw)>> ELSE Quotient(raw[i], sum)]

ResearchSignal(values, method) ==
    [i \in DOMAIN values |->
        CASE method = "EQUAL" -> Unit
          [] method = "PREVALENCE" -> <<values[i], 1>>
          [] method = "SQRT_PREVALENCE" -> <<Root(values[i]), 1>>
          [] method = "INVERSE_VOLATILITY" -> IF values[i] > 0 THEN <<1, values[i]>> ELSE Nothing]

\* Mutant: what is cut off is shared out equally.
ResearchPassEqually(weights, cap) ==
    LET excess == Excess(weights, cap)
        capped == Capped(weights, cap)
        open == Below(weights, cap)
    IN  IF weights = <<>> \/ excess = Nothing THEN weights
        ELSE IF open = {} THEN <<>>
        ELSE [i \in DOMAIN capped |->
                 IF i \in open THEN Plus(capped[i], Quotient(excess, <<Cardinality(open), 1>>)) ELSE capped[i]]

\* One turn of the loop of researchWeights; no weights stand for its RangeError.
ResearchPass(weights, cap) ==
    LET excess == Excess(weights, cap)
        capped == Capped(weights, cap)
        open == Below(weights, cap)
        base == Held(capped, open)
    IN  IF weights = <<>> \/ excess = Nothing THEN weights
        ELSE IF base = Nothing THEN <<>>
        ELSE [i \in DOMAIN capped |->
                 IF i \in open THEN Plus(capped[i], Product(excess, Quotient(capped[i], base)))
                 ELSE capped[i]]

ResearchWeights(values, method, cap) ==
    LET raw == ResearchSignal(values, method)
    IN  IF Total(raw) = Nothing THEN <<>>
        ELSE FoldLeft(LAMBDA weights, turn : ResearchPass(weights, cap),
                      Normalize(raw), [turn \in 1 .. Len(values) + 1 |-> turn])

AttentionSignal(values, method) ==
    [i \in DOMAIN values |->
        CASE method = "EQUAL" -> Unit
          [] method = "SQRT_PREVALENCE" -> <<Root(values[i]), 1>>
          [] OTHER -> <<values[i], 1>>]

\* One turn of the loop of calculateWeights: nothing open takes the excess, and it is lost.
IndexPass(weights, cap) ==
    LET excess == Excess(weights, cap)
        capped == Capped(weights, cap)
        open == Below(weights, cap)
        base == Held(capped, open)
        Share(i) == IF base = Nothing THEN Quotient(excess, <<Cardinality(open), 1>>)
                    ELSE Quotient(Product(excess, capped[i]), base)
    IN  IF excess = Nothing THEN weights
        ELSE [i \in DOMAIN capped |-> IF i \in open THEN Plus(capped[i], Share(i)) ELSE capped[i]]

CalculateWeights(values, method, cap) ==
    Normalize(FoldLeft(LAMBDA weights, pass : IndexPass(weights, cap),
                       Normalize(AttentionSignal(values, method)), values))

-----------------------------------------------------------------------------
(* Selection.                                                              *)

\* ranks.get(id) ?? Infinity.
Within(id, rank) == \E i \in DOMAIN Ranked : Ranked[i] = id /\ i <= rank
\* list.filter(id => wanted.includes(id)).
Filter(list, wanted) ==
    FoldLeft(LAMBDA kept, id : IF id \in wanted THEN Append(kept, id) ELSE kept, <<>>, list)
Retained(existing, exitRank) ==
    Filter(existing, {id \in ToSet(existing) : Within(id, exitRank)})
\* Mutant: who is retained may enter again.
EntrantsAgain(retained, entryRank) ==
    Filter(Ranked, {id \in ToSet(Ranked) : Within(id, entryRank)})
Entrants(retained, entryRank) ==
    Filter(Ranked, {id \in ToSet(Ranked) \ ToSet(retained) : Within(id, entryRank)})
\* The best of the rest fill what room is left.
Filled(selected, target) ==
    FoldLeft(LAMBDA chosen, id : IF Len(chosen) < target /\ id \notin ToSet(chosen)
                                 THEN Append(chosen, id) ELSE chosen,
             selected, Ranked)
BufferedSelection(existing, target, entryRank, exitRank) ==
    LET retained == Retained(existing, exitRank)
        both == retained \o Entrants(retained, entryRank)
    IN  Filled(SubSeq(both, 1, IF Len(both) < target THEN Len(both) ELSE target), target)

-----------------------------------------------------------------------------
(* IndexHistory.                                                           *)

\* Mutant: what is pushed last comes last.
AsPushed(list) == list
\* The sort by date, which no two snapshots share.
ByDate(list) ==
    CHOOSE s \in [DOMAIN list -> Range(list)] : \A i, j \in DOMAIN list : i < j => s[i].date < s[j].date

\* A second composition for a date is refused; an earlier date than the last is not.
Rebalance(date, composition) ==
    LET backdated == \E i \in DOMAIN snapshots : date < snapshots[i].date
    IN  /\ ~ \E i \in DOMAIN snapshots : snapshots[i].date = date
        /\ snapshots' = ByDate(Append(snapshots, [date |-> date, composition |-> composition]))
        /\ frozen' = [frozen EXCEPT ![date] = composition]
        /\ atItsDate' = IF backdated THEN atItsDate
                         ELSE [d \in Dates |-> IF d < date THEN atItsDate[d] ELSE composition]
        /\ late' = IF backdated THEN late \union {date} ELSE late
        /\ UNCHANGED rule

CompositionAt(date) ==
    LET past == {i \in DOMAIN snapshots : snapshots[i].date <= date}
    IN  IF past = {} THEN 0 ELSE snapshots[Max(past)].composition

-----------------------------------------------------------------------------
Methods == {"EQUAL", "PREVALENCE", "SQRT_PREVALENCE", "INVERSE_VOLATILITY"}
Weighings ==
    [kind : {"weights"}, values : UNION {[1 .. n -> BasketSignals] : n \in 1 .. MaxBasket},
     method : Methods, cap : Caps]
Incumbents ==
    LET Ids == ToSet(Ranked) \union {Unranked}
    IN  {s \in BoundedSeq(Ids, MaxIncumbents) : IsInjective(s)}
Selections ==
    {s \in [kind : {"selection"}, existing : Incumbents, target : 1 .. Len(Ranked) + 1,
            entry : 0 .. Len(Ranked), exit : 0 .. Len(Ranked)] : s.entry <= s.exit}

Rules == Weighings \union Selections \union {[kind |-> "history"]}
NoHistory ==
    /\ snapshots = <<>> /\ late = {}
    /\ frozen = [date \in Dates |-> 0] /\ atItsDate = [date \in Dates |-> 0]
IndexInit == rule \in Rules /\ NoHistory

IndexNext ==
    /\ rule.kind = "history"
    /\ \E date \in Dates, composition \in {1, 2} : Rebalance(date, composition)

-----------------------------------------------------------------------------
(* Properties.                                                             *)

(***************************************************************************)
(* The research weights sum to one, none above the cap, and keep the order *)
(* of their signals; they are refused exactly when no weights of the       *)
(* constituents with a signal can honour the cap.  Whenever they exist the *)
(* served weights are the same; and the served ones sum to one always, but *)
(* exceed a cap no basket of that size can honour.                         *)
(***************************************************************************)
CapsAreHonored ==
    rule.kind = "weights" =>
        LET research == ResearchWeights(rule.values, rule.method, rule.cap)
            served == CalculateWeights(rule.values, rule.method, rule.cap)
            Honored(weights) == \A i \in DOMAIN weights : AtMost(weights[i], rule.cap)
            Fits(count) == AtMost(Unit, Product(<<count, 1>>, rule.cap))
            eligible == {i \in DOMAIN rule.values :
                            ResearchSignal(rule.values, rule.method)[i] # Nothing}
        IN  /\ (research # <<>>) = Fits(Cardinality(eligible))
            /\ research # <<>> =>
                   /\ Total(research) = Unit /\ Honored(research)
                   /\ rule.method # "INVERSE_VOLATILITY" =>
                          \A i, j \in DOMAIN research :
                              rule.values[i] <= rule.values[j] => AtMost(research[i], research[j])
            /\ rule.method # "INVERSE_VOLATILITY" =>
                   /\ Total(served) = Unit
                   /\ research # <<>> => served = research
                   /\ Honored(served) = Fits(Len(rule.values))

(***************************************************************************)
(* An incumbent inside the exit rank leaves only for other such            *)
(* incumbents, a newcomer outside the entry rank comes only when everyone  *)
(* with a better claim is in, and the index is as large as it can be.      *)
(* (bufferedSelection.)                                                    *)
(***************************************************************************)
BufferIsFair(s) ==
    LET selected == BufferedSelection(s.existing, s.target, s.entry, s.exit)
        members == ToSet(selected)
        kept == {id \in ToSet(s.existing) : Within(id, s.exit)}
        known == kept \union ToSet(Ranked)
    IN  /\ IsInjective(selected) /\ members \subseteq known
        /\ Len(selected) = IF Cardinality(known) < s.target THEN Cardinality(known) ELSE s.target
        /\ kept \subseteq members \/ members \subseteq kept
        /\ \A id \in members \ kept : ~Within(id, s.entry) =>
               \A other \in known : other \in kept \/ Within(other, s.entry) => other \in members

\* Every buffer is fair, whoever is in and whatever the ranks and the target.
BuffersAreFair == rule.kind = "selection" => BufferIsFair(rule)

\* The composition of a date is the first one accepted for the latest date up
\* to it, in whatever order the dates were set.  (IndexHistory.)
HistoryIsFrozen ==
    \A date \in Dates :
        LET set == {d \in Dates : d <= date /\ frozen[d] # 0}
        IN  CompositionAt(date) = IF set = {} THEN 0 ELSE frozen[CHOOSE d \in set : \A e \in set : e <= d]

\* A date whose answer is not what it was when no later date had been set has it
\* from a composition that was set late; without one, rebalances of today leave the
\* past alone.  (IndexHistory.)
PastIsKept ==
    \A date \in Dates : CompositionAt(date) # atItsDate[date] =>
        \E d \in late : d <= date /\ frozen[d] = CompositionAt(date)

\* Who is in an index is decided fairly, and once.
CompositionsAreFair == BuffersAreFair /\ HistoryIsFrozen /\ PastIsKept

\* docs/methodology/index-construction.md: "Historical values use the composition
\* known at that date; current membership is never projected backward."
KnownAtItsDate == \A date \in Dates : CompositionAt(date) = atItsDate[date]
=============================================================================
