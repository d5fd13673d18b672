---------------------------- MODULE Measurement ----------------------------
(***************************************************************************)
(* What document counts are turned into: prevalence and its uncertainty,   *)
(* standardization, author concentration, the phase 2 signals, liquidity   *)
(* and horizon returns.  Two packages do it, expression-engine for the API *)
(* and the worker, research-engine for the scripts.                        *)
(*                                                                         *)
(* All of it is functions, exact in fractions here: a square root is kept  *)
(* squared and a logarithm is left off.  A behavior is one call: `sample`  *)
(* holds its arguments, and nothing happens.                               *)
(***************************************************************************)
EXTENDS Integers, FiniteSets, SequencesExt, FiniteSetsExt, Functions, Fractions

CONSTANTS
    MaxDocuments,  \* bound: documents of a window
    Mix,           \* bound: documents of one stratum
    AuthorCounts,  \* bound: documents of each author
    Moves,         \* bound: returns of platforms
    PlatformWeights,
    HourCounts,    \* bound: documents of each hour
    Levels,        \* bound: levels of an index
    ZSquare        \* the square of a confidence's z

VARIABLE sample

-----------------------------------------------------------------------------
Whole(n) == <<n, 1>>
Square(x) == Product(x, x)
Sum(values) == FoldLeft(+, 0, values)
Signum(n) == IF n > 0 THEN 1 ELSE IF n < 0 THEN -1 ELSE 0
Complement(x) == Minus(Unit, x)
Share(n, d) == IF d = 0 THEN Nothing ELSE Fraction(n, d)
Sorted(values) == SortSeq(values, <)

\* null, and what a function gives that throws.
Null == <<>>

-----------------------------------------------------------------------------
(* Prevalence.                                                             *)

\* Whether the sufficient statistics are accepted, by either package.
Valid(row) == row.expressed <= row.eligible /\ row.occurrences >= row.expressed

PrevalenceFromCounts(row) ==
    [raw |-> Share(row.expressed, row.eligible),
     smoothed |-> Fraction(2 * row.expressed + 1, 2 * row.eligible + 2),
     intensity |-> Share(row.occurrences, row.expressed)]

JeffreysPrevalence(row) ==
    IF row.eligible = 0 THEN [raw |-> Nothing, smoothed |-> Nothing]
    ELSE [raw |-> Fraction(row.expressed, row.eligible),
          smoothed |-> Fraction(2 * row.expressed + 1, 2 * row.eligible + 2)]

AggregateCounts(rows) ==
    [f \in {"expressed", "eligible", "occurrences"} |-> Sum([i \in DOMAIN rows |-> rows[i][f]])]
CountWeightedPrevalence(rows) == PrevalenceFromCounts(AggregateCounts(rows))

\* The middle of the interval and the square of its radius; all of [0, 1] without documents.
WilsonInterval(row) ==
    IF row.eligible = 0 THEN [center |-> Fraction(1, 2), radius2 |-> Fraction(1, 4)] ELSE
    LET n == Whole(row.eligible)
        p == Fraction(row.expressed, row.eligible)
        denominator == Plus(Unit, Quotient(ZSquare, n))
    IN  [center |-> Quotient(Plus(p, Quotient(ZSquare, Product(Whole(2), n))), denominator),
         radius2 |-> Product(Quotient(ZSquare, Square(denominator)),
                             Plus(Quotient(Product(p, Complement(p)), n),
                                  Quotient(ZSquare, Product(Whole(4), Square(n)))))]

-----------------------------------------------------------------------------
(* Standardization.                                                        *)

CalibrateFixedWeights(counts) == [k \in DOMAIN counts |-> Fraction(counts[k], Sum(counts))]

\* A key without a row is a stratum without documents.
StandardizedPrevalence(strata, weights) ==
    IF \E k \in DOMAIN weights : strata[k].eligible = 0 THEN Null
    ELSE Total([k \in DOMAIN weights |->
                   Product(weights[k], Fraction(strata[k].expressed, strata[k].eligible))])

-----------------------------------------------------------------------------
(* Signals.                                                                *)

\* Mutant: an average author instead of an effective one.
AuthorConcentrationPlain(counts) ==
    LET sorted == Reverse(Sorted(counts))
    IN  [unique |-> Len(counts), largest |-> Fraction(sorted[1], Sum(counts)),
         topTen |-> Fraction(Sum(SubSeq(sorted, 1, Min({10, Len(sorted)}))), Sum(counts)),
         effective |-> Fraction(Sum(counts), sorted[1])]

\* Of counts that are not all nothing.
AuthorConcentration(counts) ==
    LET sorted == Reverse(Sorted(counts))
        squares == [i \in DOMAIN counts |-> counts[i] * counts[i]]
    IN  [unique |-> Len(counts), largest |-> Fraction(sorted[1], Sum(counts)),
         topTen |-> Fraction(Sum(SubSeq(sorted, 1, Min({10, Len(sorted)}))), Sum(counts)),
         effective |-> Fraction(Sum(counts) * Sum(counts), Sum(squares))]

Breadth(changes) ==
    Fraction(Max({Len(SelectSeq(changes, LAMBDA x : x > 0)), Len(SelectSeq(changes, LAMBDA x : x < 0))}),
             Len(changes))
Persistence(changes) == Fraction(Unsigned(Sum([i \in DOMAIN changes |-> Signum(changes[i])])), Len(changes))

Phase2Signals(returns, weights) ==
    LET Weighted(measure(_)) ==
            Fraction(Sum([i \in DOMAIN returns |-> weights[i] * measure(returns[i])]), Sum(weights))
    IN  [velocity |-> Weighted(LAMBDA r : r),
         breadth |-> Weighted(LAMBDA r : IF r > 0 THEN 1 ELSE 0),
         signedBreadth |-> Weighted(Signum),
         persistence |-> Fraction(Sum([i \in DOMAIN returns |-> Signum(returns[i])]), Len(returns))]

-----------------------------------------------------------------------------
(* Liquidity and horizons.                                                 *)

Median(values) ==
    LET ordered == Sorted(values)
        middle == Len(values) \div 2
    IN  IF values = <<>> THEN Nothing
        ELSE IF Len(values) % 2 = 1 THEN Whole(ordered[middle + 1])
        ELSE Fraction(ordered[middle] + ordered[middle + 1], 2)

LiquidityDiagnostics(counts) ==
    LET zero == Len(SelectSeq(counts, LAMBDA x : x = 0))
        frequency == IF counts = <<>> THEN Unit ELSE Fraction(zero, Len(counts))
    IN  [average |-> Share(Sum(counts), Len(counts)), median |-> Median(counts),
         zeroWindows |-> frequency, activeWindows |-> Complement(frequency)]

\* end / start, of levels by time where 0 is none; what is thrown is Null.
ExplicitHorizonReturn(levels, from, to) ==
    IF levels[from] = 0 \/ levels[to] = 0 \/ to <= from THEN Null ELSE Fraction(levels[to], levels[from])

-----------------------------------------------------------------------------
StratumRows == {row \in [expressed : 0 .. Mix, eligible : 0 .. Mix] : row.expressed <= row.eligible}

Measured ==
    [kind : {"window"}, row : [expressed : 0 .. MaxDocuments, eligible : 0 .. MaxDocuments, occurrences : {MaxDocuments}]]
    \cup [kind : {"strata"}, rows : [1 .. 2 -> StratumRows], counts : {c \in [1 .. 2 -> 0 .. Mix] : Sum(c) > 0}]
    \cup [kind : {"authors"}, counts : {c \in AuthorCounts : Sum(c) > 0}]
    \cup [kind : {"signals"}, returns : [1 .. 3 -> Moves], weights : {w \in [1 .. 3 -> PlatformWeights] : Sum(w) > 0}]
    \cup [kind : {"hours"}, counts : BoundedSeq(HourCounts, 4)]
    \cup [kind : {"horizon"}, levels : [1 .. 4 -> Levels]]

-----------------------------------------------------------------------------
(* Properties.                                                             *)

Between(x, low, high) == AtMost(low, x) /\ AtMost(x, high)

\* The two packages agree on the prevalence of a window exactly when it has documents:
\* without any, one answers 0 and the other a half, where docs/methodology/prevalence.md
\* has neither ("no valid window, not a fabricated zero observation").  The research
\* package's is strictly between 0 and 1; its interval holds both estimates, ends within
\* [0, 1] before it is clamped, is the same for what is not expressed, and shrinks as
\* documents come.
WindowIsMeasured(row) ==
    LET here == PrevalenceFromCounts(row)
        wilson == WilsonInterval(row)
        others == WilsonInterval([row EXCEPT !.expressed = row.eligible - row.expressed])
        twice == WilsonInterval([row EXCEPT !.expressed = 2 * @, !.eligible = 2 * @])
        InInterval(x) == AtMost(Square(Minus(x, wilson.center)), wilson.radius2)
    IN  /\ (JeffreysPrevalence(row) = [raw |-> here.raw, smoothed |-> here.smoothed]) = (row.eligible > 0)
        /\ Less(Nothing, here.smoothed) /\ Less(here.smoothed, Unit)
        /\ InInterval(here.raw) /\ InInterval(here.smoothed)
        /\ AtMost(wilson.radius2, Square(wilson.center))
        /\ AtMost(wilson.radius2, Square(Complement(wilson.center)))
        /\ others = [wilson EXCEPT !.center = Complement(@)]
        /\ row.eligible > 0 => Less(twice.radius2, wilson.radius2)

\* Calibrated weights are always accepted; standardization is withheld exactly when a
\* calibrated stratum is empty, even one without weight; it stays between the strata's
\* rates and is the count weighted rate when the mix is the calibrated one.
StandardizationHolds(rows, counts) ==
    LET weights == CalibrateFixedWeights(counts)
        standard == StandardizedPrevalence(rows, weights)
        RateOf(k) == Fraction(rows[k].expressed, rows[k].eligible)
        pooled == Fraction(rows[1].expressed + rows[2].expressed, rows[1].eligible + rows[2].eligible)
    IN  /\ Total(weights) = Unit
        /\ (standard = Null) = (\E k \in 1 .. 2 : rows[k].eligible = 0)
        /\ standard # Null =>
               /\ \E j, k \in 1 .. 2 : Between(standard, RateOf(j), RateOf(k))
               /\ counts[1] * rows[2].eligible = counts[2] * rows[1].eligible => standard = pooled

\* The effective authors are at least one and at most those who wrote, no fewer than the
\* largest share allows, and more when a document moves to one who wrote at least two
\* fewer; ten authors are everything exactly when no eleventh wrote.
AuthorsAreBounded(counts) ==
    LET authors == AuthorConcentration(counts)
        wrote == Len(SelectSeq(counts, LAMBDA x : x > 0))
    IN  /\ Between(authors.effective, Unit, Whole(wrote)) /\ wrote <= authors.unique
        /\ AtMost(Unit, Product(authors.effective, authors.largest))
        /\ AtMost(Product(authors.effective, Square(authors.largest)), Unit)
        /\ Between(authors.topTen, authors.largest, Unit)
        /\ (authors.topTen = Unit) = (wrote <= 10)
        /\ \A i, j \in DOMAIN counts : counts[i] >= counts[j] + 2 =>
               Less(authors.effective, AuthorConcentration([counts EXCEPT ![i] = @ - 1, ![j] = @ + 1]).effective)

\* The velocity lies within the platforms' returns and needs a platform that moves its
\* way; with equal weights the signals are the unweighted ones they replaced.
SignalsAgree(returns, weights) ==
    LET signals == Phase2Signals(returns, weights)
        declining == Minus(signals.breadth, signals.signedBreadth)
        equal == Phase2Signals(returns, [i \in DOMAIN returns |-> 1])
    IN  /\ Between(signals.velocity, Whole(Min(Range(returns))), Whole(Max(Range(returns))))
        /\ Less(Nothing, signals.velocity) => Less(Nothing, signals.breadth)
        /\ Less(signals.velocity, Nothing) => Less(Nothing, declining)
        /\ AtMost(Plus(signals.breadth, declining), Unit)
        /\ Breadth(returns) \in {equal.breadth, Minus(equal.breadth, equal.signedBreadth)}
        /\ AtMost(equal.breadth, Breadth(returns))
        /\ Persistence(returns) = <<Unsigned(equal.signedBreadth[1]), equal.signedBreadth[2]>>
        /\ equal.persistence = equal.signedBreadth

\* At most half of the windows lie on either side of the median, as far from it when the
\* counts are turned around; it is at most twice the average, and nothing when most
\* windows are.
LiquidityIsConsistent(counts) ==
    LET liquidity == LiquidityDiagnostics(counts)
        FewAre(Test(_)) == 2 * Len(SelectSeq(counts, Test)) <= Len(counts)
    IN  /\ FewAre(LAMBDA x : Less(liquidity.median, Whole(x))) /\ FewAre(LAMBDA x : Less(Whole(x), liquidity.median))
        /\ counts # <<>> => LET most == Max(Range(counts))
                             IN  Median([i \in DOMAIN counts |-> most - counts[i]]) = Minus(Whole(most), liquidity.median)
        /\ AtMost(liquidity.median, Product(Whole(2), liquidity.average))
        /\ Less(liquidity.activeWindows, Fraction(1, 2)) => liquidity.median = Nothing

\* Returns over adjoining horizons compound to the return over both, which exists
\* when they do.
HorizonsCompound(levels) ==
    \A a, b, c \in DOMAIN levels :
        LET first == ExplicitHorizonReturn(levels, a, b)
            second == ExplicitHorizonReturn(levels, b, c)
        IN first # Null /\ second # Null => ExplicitHorizonReturn(levels, a, c) = Product(first, second)

MeasurementHolds ==
    /\ sample.kind = "window" /\ Valid(sample.row) => WindowIsMeasured(sample.row)
    /\ sample.kind = "strata" => StandardizationHolds(sample.rows, sample.counts)
    /\ sample.kind = "authors" => AuthorsAreBounded(sample.counts)
    /\ sample.kind = "signals" => SignalsAgree(sample.returns, sample.weights)
    /\ sample.kind = "hours" => LiquidityIsConsistent(sample.counts)
    /\ sample.kind = "horizon" => HorizonsCompound(sample.levels)
=============================================================================
