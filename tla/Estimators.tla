----------------------------- MODULE Estimators -----------------------------
(***************************************************************************)
(* The statistics of packages/research-engine, some of which routes of the *)
(* API call: moments and ranks, regressions by formula and by elimination, *)
(* lags, losses, and the selection of signals and samples.                 *)
(* Exact as in Measurement, whose `sample` holds the arguments here too.   *)
(***************************************************************************)
EXTENDS Measurement

CONSTANTS
    Values,      \* bound: observations of a series
    Indicators,  \* bound: those of a fourth and of signals and controls
    Equities,    \* bound: points of an equity curve
    Probability, \* bound: p-values, in parts of it
    Alpha,       \* the level of a test, as a fraction
    Tolerance,   \* under which a pivot is no pivot, 1e-12 in the code, as a fraction
    MaxSplit     \* bound: lengths of a walk forward split

-----------------------------------------------------------------------------
Exactly(values) == [i \in DOMAIN values |-> Whole(values[i])]
Average(values) == IF values = <<>> THEN Nothing ELSE Quotient(Total(values), Whole(Len(values)))
Dot(left, right) == Total([i \in DOMAIN left |-> Product(left[i], right[i])])

-----------------------------------------------------------------------------
(* statistics.ts                                                           *)

\* Mutant: both deviations are from the mean before the value.
SampleVarianceStale(values) ==
    LET Next(past, value) ==
            LET delta == Minus(value, past.mean)
                mean == Plus(past.mean, Quotient(delta, Whole(past.count + 1)))
            IN  [count |-> past.count + 1, mean |-> mean, m2 |-> Plus(past.m2, Square(delta))]
        all == FoldLeft(Next, [count |-> 0, mean |-> Nothing, m2 |-> Nothing], values)
    IN  IF Len(values) < 2 THEN Nothing ELSE Quotient(all.m2, Whole(all.count - 1))

\* In one pass, with a running mean.
SampleVariance(values) ==
    LET Next(past, value) ==
            LET delta == Minus(value, past.mean)
                mean == Plus(past.mean, Quotient(delta, Whole(past.count + 1)))
            IN  [count |-> past.count + 1, mean |-> mean,
                 m2 |-> Plus(past.m2, Product(delta, Minus(value, mean)))]
        all == FoldLeft(Next, [count |-> 0, mean |-> Nothing, m2 |-> Nothing], values)
    IN  IF Len(values) < 2 THEN Nothing ELSE Quotient(all.m2, Whole(all.count - 1))

Covariance(left, right) ==
    IF Len(left) # Len(right) \/ Len(left) < 2 THEN Nothing
    ELSE Quotient(Total([i \in DOMAIN left |->
                      Product(Minus(left[i], Average(left)), Minus(right[i], Average(right)))]),
                  Whole(Len(left) - 1))

\* The square of the coefficient, with its sign.
Pearson(left, right) ==
    LET scale == Product(SampleVariance(left), SampleVariance(right))
        shared == Covariance(left, right)
    IN  IF scale = Nothing THEN Nothing
        ELSE Quotient(Product(shared, <<Unsigned(shared[1]), shared[2]>>), scale)

\* Equal values share the middle of their places.
Ranks(values) ==
    [i \in DOMAIN values |->
        LET less == {j \in DOMAIN values : values[j] < values[i]}
            equal == {j \in DOMAIN values : values[j] = values[i]}
        IN  Fraction(2 * Cardinality(less) + Cardinality(equal) + 1, 2)]

Spearman(left, right) == Pearson(Ranks(left), Ranks(right))

\* slice(lag) and slice(0, -lag), nothing for a lag there is no pair at.
Autocorrelation(values, lag) ==
    IF lag <= 0 \/ Len(values) <= lag THEN Nothing
    ELSE Pearson(SubSeq(values, lag + 1, Len(values)), SubSeq(values, 1, Len(values) - lag))

SingleFactorRegression(asset, market) ==
    LET variance == SampleVariance(market)
        beta == IF variance = Nothing THEN Nothing ELSE Quotient(Covariance(asset, market), variance)
        alpha == Minus(Average(asset), Product(beta, Average(market)))
    IN  [alpha |-> alpha, beta |-> beta,
         residuals |-> [i \in DOMAIN asset |-> Minus(Minus(asset[i], alpha), Product(beta, market[i]))]]

\* The square of the dispersion.
MarketFactors(returns, weights) ==
    LET normalized == [i \in DOMAIN weights |-> Fraction(weights[i], Sum(weights))]
        marketReturn == Dot(Exactly(returns), normalized)
    IN  [marketReturn |-> marketReturn,
         dispersion2 |-> Total([i \in DOMAIN returns |->
                             Product(normalized[i], Square(Minus(Whole(returns[i]), marketReturn)))]),
         hhi |-> Dot(normalized, normalized)]

-----------------------------------------------------------------------------
(* factor.ts                                                               *)

\* A turn of solve(): the largest row of the column takes the pivot's place,
\* is divided, and is taken from every other row; <<>> when it is under the tolerance.
Eliminated(rows, pivot) ==
    LET Size(r) == <<Unsigned(rows[r][pivot][1]), rows[r][pivot][2]>>
        best == CHOOSE r \in pivot .. Len(rows) :
                    /\ \A q \in pivot .. Len(rows) : AtMost(Size(q), Size(r))
                    /\ \A q \in pivot .. r - 1 : Less(Size(q), Size(r))
        swapped == [rows EXCEPT ![pivot] = rows[best], ![best] = rows[pivot]]
        lead == [c \in DOMAIN swapped[pivot] |-> Quotient(swapped[pivot][c], swapped[pivot][pivot])]
    IN  IF Less(Size(best), Tolerance) THEN <<>>
        ELSE [r \in DOMAIN rows |->
                 IF r = pivot THEN lead
                 ELSE [c \in DOMAIN lead |-> Minus(swapped[r][c], Product(swapped[r][pivot], lead[c]))]]

Solve(matrix, target) ==
    LET n == Len(target)
        augmented == [r \in 1 .. n |-> Append(matrix[r], target[r])]
        reduced == FoldLeft(LAMBDA rows, pivot : IF rows = <<>> THEN <<>> ELSE Eliminated(rows, pivot),
                            augmented, [p \in 1 .. n |-> p])
    IN  IF reduced = <<>> THEN <<>> ELSE [r \in 1 .. n |-> reduced[r][n + 1]]

\* <<>> stands for the RangeError of a singular design.
Neutralize(signal, controls) ==
    LET columns == << [i \in DOMAIN signal |-> Unit] >> \o controls
        coefficients == Solve([i \in DOMAIN columns |-> [j \in DOMAIN columns |-> Dot(columns[i], columns[j])]],
                              [i \in DOMAIN columns |-> Dot(columns[i], signal)])
    IN  IF coefficients = <<>> THEN <<>>
        ELSE [coefficients |-> coefficients,
              residuals |-> [row \in DOMAIN signal |->
                  Minus(signal[row], Dot([c \in DOMAIN columns |-> columns[c][row]], coefficients))]]

\* The bucket of the item of each place, both from 0.
BucketOf(place, n, quantiles) == Min({quantiles - 1, (place * quantiles) \div n})

\* The indices accepted in the order of their p-values, up to the last that may be.
BenjaminiHochberg(pValues) ==
    LET n == Len(pValues)
        ordered == SortSeq([i \in 1 .. n |-> i],
                           LAMBDA i, j : n * pValues[i] + i < n * pValues[j] + j)
        Accepts(rank) == AtMost(Fraction(pValues[ordered[rank]], Probability), Product(Fraction(rank, n), Alpha))
        largest == Max({0} \cup {rank \in 1 .. n : Accepts(rank)})
    IN  {ordered[rank] : rank \in 1 .. largest}
Bonferroni(pValues) ==
    {i \in DOMAIN pValues : AtMost(Fraction(pValues[i], Probability), Quotient(Alpha, Whole(Len(pValues))))}

\* Where each split starts; the embargo is added to the step.
WalkForwardSplits(c) ==
    LET starts == {k \in 0 .. c.observations : k % (c.step + c.embargo) = 0
                       /\ k + c.train + c.purge + c.test <= c.observations}
    IN  {[train |-> k .. k + c.train - 1,
          test |-> k + c.train + c.purge .. k + c.train + c.purge + c.test - 1] : k \in starts}

-----------------------------------------------------------------------------
(* econometrics.ts                                                         *)

\* Array.slice(0, end), where a negative end counts from the back.
Prefix(values, end) == SubSeq(values, 1, IF end < 0 THEN Max({0, Len(values) + end}) ELSE Min({end, Len(values)}))
Dropped(values, n) == SubSeq(values, n + 1, Len(values))

\* left.length - lag || undefined: at a lag of the length all of left is taken.
LeadLag(left, right, lag) ==
    LET end == Len(left) - lag
        leftSlice == IF lag < 0 THEN Dropped(left, -lag) ELSE IF end = 0 THEN left ELSE Prefix(left, end)
        rightSlice == IF lag < 0 THEN Prefix(right, Len(right) + lag) ELSE Dropped(right, lag)
    IN  [observations |-> Len(leftSlice),
         correlation |-> IF Len(leftSlice) >= 3 THEN Pearson(leftSlice, rightSlice) ELSE Null]

\* The long run variance, before it is kept from being negative.
LongRunVariance(values, maximumLag) ==
    LET centered == [i \in DOMAIN values |-> Minus(values[i], Average(values))]
        n == Len(values)
        Gamma(lag) == Quotient(Dot(Dropped(centered, lag), SubSeq(centered, 1, n - lag)), Whole(n))
    IN  FoldLeft(LAMBDA sum, lag : Plus(sum, Product(Fraction(2 * (maximumLag + 1 - lag), maximumLag + 1), Gamma(lag))),
                 Gamma(0), [lag \in 1 .. maximumLag |-> lag])

\* rSquared of forecastMetrics().
RSquared(actual, predicted) ==
    LET errors == [i \in DOMAIN actual |-> Minus(actual[i], predicted[i])]
        centered == [i \in DOMAIN actual |-> Minus(actual[i], Average(actual))]
        squares == Dot(centered, centered)
    IN  IF squares = Nothing THEN Nothing ELSE Complement(Quotient(Dot(errors, errors), squares))

-----------------------------------------------------------------------------
(* portfolio.ts                                                            *)

\* quantile(): between the two values around a place of the sorted ones.
QuantileAt(values, probability) ==
    LET sorted == Sorted(values)
        position == Product(Whole(Len(values) - 1), probability)
        lower == position[1] \div position[2]
        low == Whole(sorted[lower + 1])
        high == IF lower + 2 > Len(values) THEN low ELSE Whole(sorted[lower + 2])
    IN  Plus(low, Product(Minus(position, Whole(lower)), Minus(high, low)))

ValueAtRisk(values, confidence) ==
    LET cutoff == QuantileAt(values, Complement(confidence))
        tail == SelectSeq(values, LAMBDA x : AtMost(Whole(x), cutoff))
    IN  [valueAtRisk |-> Minus(Nothing, cutoff), expectedShortfall |-> Minus(Nothing, Average(Exactly(tail)))]

\* One point of drawdownAnalysis(); a peak of -1 is the one before any point.
DrawnDown(past, value) ==
    LET risen == value >= past.peak
        duration == IF risen THEN 0 ELSE past.duration + 1
        peak == IF risen THEN value ELSE past.peak
        drawdown == IF peak > 0 THEN Minus(Fraction(value, peak), Unit) ELSE Nothing
    IN  [peak |-> peak, duration |-> duration, longest |-> Max({past.longest, duration}),
         deepest |-> Lower(past.deepest, drawdown), points |-> past.points + 1,
         recovery |-> IF risen /\ past.duration > 0 THEN past.points ELSE past.recovery]
DrawdownAnalysis(equity) ==
    FoldLeft(DrawnDown, [peak |-> -1, duration |-> 0, longest |-> 0, deepest |-> Nothing, points |-> 0,
                     recovery |-> -1], equity)

-----------------------------------------------------------------------------
Estimated ==
    [kind : {"pair"}, left : [1 .. 3 -> Values], right : [1 .. 3 -> Values]]
    \cup [kind : {"pair"}, left : [1 .. 4 -> Values], right : [1 .. 4 -> Indicators]]
    \cup [kind : {"controls"}, signal : [1 .. 4 -> Indicators], first : [1 .. 4 -> Indicators],
          second : [1 .. 4 -> Indicators]]
    \cup [kind : {"market"}, returns : [1 .. 3 -> Values], weights : {w \in [1 .. 3 -> PlatformWeights] : Sum(w) > 0}]
    \cup [kind : {"equity"}, equity : BoundedSeq(Equities, 5) \ {<<>>}]
    \cup [kind : {"tests"}, pValues : [1 .. 3 -> 0 .. Probability]]
    \cup [kind : {"buckets"}, items : 2 .. 9, quantiles : 2 .. 5]
    \cup [kind : {"splits"}, observations : {3 * MaxSplit}, train : 1 .. MaxSplit, test : 1 .. MaxSplit,
          step : 1 .. MaxSplit, purge : 0 .. 1, embargo : 0 .. 2]

SampleInit == sample \in Measured \cup Estimated
NoSample == [kind |-> "none"]

-----------------------------------------------------------------------------
(* Properties.                                                             *)

SizeOf(x) == <<Unsigned(x[1]), x[2]>>
LargerOf(p, q) == IF Less(p, q) THEN q ELSE p

\* The one-pass variance is the covariance with oneself; no correlation exceeds one;
\* ranks only order, whichever way the observations come.
MomentsAgree(left, right, x, y) ==
    /\ SampleVariance(x) = Covariance(x, x)
    /\ Between(Pearson(x, y), Whole(-1), Unit) /\ Pearson(x, y) = Pearson(y, x)
    /\ Spearman(Reverse(left), Reverse(right)) = Spearman(left, right)
    /\ (Spearman(left, right) = Unit) =
           (Cardinality(Range(left)) > 1 /\ \A i, j \in DOMAIN left : left[i] < left[j] <=> right[i] < right[j])

\* A regression leaves nothing the market explains, its fit is the squared correlation,
\* and elimination finds the same line, unless the market is so nearly constant that its
\* second pivot, what the first leaves of the market's squares, is under the tolerance:
\* there the formula still gives a slope, and elimination refuses.
RegressionsAgree(x, y) ==
    LET model == SingleFactorRegression(x, y)
        fitted == [i \in DOMAIN x |-> Plus(model.alpha, Product(model.beta, y[i]))]
        other == Neutralize(x, <<y>>)
        n == Whole(Len(y))
        deviation == Product(Whole(Len(y) - 1), Covariance(y, y))
        pivot == LargerOf(n, SizeOf(Total(y)))
    IN  /\ Total(model.residuals) = Nothing /\ Dot(model.residuals, y) = Nothing
        /\ RSquared(x, fitted) = SizeOf(Pearson(x, y))
        /\ IF Less(Product(n, deviation), Product(Tolerance, pivot)) THEN other = <<>>
           ELSE other = [coefficients |-> <<model.alpha, model.beta>>, residuals |-> model.residuals]

\* A lag pairs as many observations as it leaves, either series may lead, and a series
\* leads itself by its autocorrelation; the weights of the lags keep the long run
\* variance from being negative.
LagsAgree(x, y) ==
    /\ \A lag \in 1 - Len(x) .. Len(x) - 1 :
           /\ LeadLag(x, y, lag).observations = Len(x) - Unsigned(lag)
           /\ LeadLag(x, y, lag) = LeadLag(y, x, -lag)
           /\ lag > 0 /\ Len(x) - lag >= 3 => LeadLag(x, x, lag).correlation = Autocorrelation(x, lag)
    /\ \A maximumLag \in 0 .. Len(x) - 1 : AtMost(Nothing, LongRunVariance(x, maximumLag))

\* Two controls between 0 and 1 are rejected exactly when the first varies too little, or
\* the second too little beside the first, so always when they and the constant are
\* dependent, and some that are not; otherwise nothing of either is left in the residuals.
ControlsAreNeutralized(signal, first, second) ==
    LET neutral == Neutralize(signal, <<first, second>>)
        Shared(one, other) == Product(Whole(Len(signal) - 1), Covariance(one, other))
        pivot == LargerOf(Shared(first, first), SizeOf(Shared(first, second)))
        left == Minus(Product(Shared(first, first), Shared(second, second)), Square(Shared(first, second)))
    IN  IF Less(pivot, Tolerance) \/ Less(left, Product(Tolerance, pivot)) THEN neutral = <<>>
        ELSE /\ Total(neutral.residuals) = Nothing
             /\ Dot(neutral.residuals, first) = Nothing /\ Dot(neutral.residuals, second) = Nothing

\* The market's return lies within its members' and its dispersion is what their
\* squares have over it; it is as concentrated as one member at most, and at least as
\* if all that have weight had the same.
MarketIsExplained(returns, weights) ==
    LET factors == MarketFactors(returns, weights)
        squares == Fraction(Sum([i \in DOMAIN returns |-> weights[i] * returns[i] * returns[i]]), Sum(weights))
        held == Cardinality({i \in DOMAIN weights : weights[i] > 0})
    IN  /\ Between(factors.marketReturn, Whole(Min(Range(returns))), Whole(Max(Range(returns))))
        /\ factors.dispersion2 = Minus(squares, Square(factors.marketReturn))
        /\ Between(factors.hhi, Fraction(1, held), Unit)

\* A shortfall is no better than the value at risk; the drawdown is the worst of any
\* point under an earlier one, the duration the longest time under a peak, and the
\* recovery the last point to reach a peak that was lost.
RiskIsWhatWasLost(equity) ==
    LET drawn == DrawdownAnalysis(equity)
        n == Len(equity)
        Under(i) == \E j \in 1 .. i - 1 : equity[j] > equity[i]
        Falls == {Minus(Fraction(equity[i], equity[j]), Unit) :
                      <<i, j>> \in {<<i, j>> \in (1 .. n) \X (1 .. n) : j <= i /\ equity[j] > 0}} \cup {Nothing}
        Stretches == {s \in (1 .. n) \X (1 .. n) : \A i \in s[1] .. s[2] : Under(i)}
        Recoveries == {i \in 2 .. n : Under(i - 1) /\ ~Under(i)}
    IN  /\ \A confidence \in {<<19, 20>>, <<99, 100>>} :
               LET risk == ValueAtRisk(equity, confidence)
               IN  AtMost(risk.valueAtRisk, risk.expectedShortfall)
                   /\ AtMost(risk.expectedShortfall, Whole(-Min(Range(equity))))
        /\ drawn.deepest \in Falls /\ \A fall \in Falls : AtMost(drawn.deepest, fall)
        /\ drawn.longest = Max({0} \cup {s[2] - s[1] + 1 : s \in Stretches})
        /\ drawn.duration > 0 <=> Under(n)
        /\ drawn.recovery = Max({-1} \cup {i - 1 : i \in Recoveries})

\* What is accepted is all that lies below some level as many lie below as it allows,
\* whatever the order of equal p-values, and what Bonferroni accepts with it.
TestsAgree(pValues) ==
    LET n == Len(pValues)
        AtLevel(k) == {i \in 1 .. n : AtMost(Fraction(pValues[i], Probability), Product(Fraction(k, n), Alpha))}
    IN  /\ BenjaminiHochberg(pValues) = UNION {AtLevel(k) : k \in {k \in 1 .. n : Cardinality(AtLevel(k)) >= k}}
        /\ Bonferroni(pValues) \subseteq BenjaminiHochberg(pValues)

\* Every bucket has as many items as any other, or one more.
BucketsAreEven(items, quantiles) ==
    items >= quantiles =>
        LET Bucket(b) == {place \in 0 .. items - 1 : BucketOf(place, items, quantiles) = b}
        IN \A b \in 0 .. quantiles - 1 : Cardinality(Bucket(b)) \in {items \div quantiles, (items + quantiles - 1) \div quantiles}

\* A split tests what comes more than the purge after all it was trained on; no two
\* splits test the same unless the step is shorter than a test, and one more split
\* would not have fitted.
SplitsAreForward(c) ==
    LET splits == WalkForwardSplits(c)
        last == Max({0} \cup {Max(split.test) + 1 : split \in splits})
    IN  /\ \A split \in splits :
               /\ Min(split.test) = Max(split.train) + c.purge + 1
               /\ split.train \cup split.test \subseteq 0 .. c.observations - 1
        /\ c.step + c.embargo >= c.test =>
               \A one, other \in splits : one # other => one.test \cap other.test = {}
        /\ splits # {} => last + c.step + c.embargo > c.observations

EstimatorsHold ==
    /\ sample.kind = "pair" =>
           LET x == Exactly(sample.left)
               y == Exactly(sample.right)
           IN  MomentsAgree(sample.left, sample.right, x, y) /\ RegressionsAgree(x, y) /\ LagsAgree(x, y)
    /\ sample.kind = "controls" =>
           ControlsAreNeutralized(Exactly(sample.signal), Exactly(sample.first), Exactly(sample.second))
    /\ sample.kind = "market" => MarketIsExplained(sample.returns, sample.weights)
    /\ sample.kind = "equity" => RiskIsWhatWasLost(sample.equity)
    /\ sample.kind = "tests" => TestsAgree(sample.pValues)
    /\ sample.kind = "buckets" => BucketsAreEven(sample.items, sample.quantiles)
    /\ sample.kind = "splits" => SplitsAreForward(sample)

\* The estimators agree with each other, with their definitions and between the two
\* packages, at the edges included: constant and nearly constant series, ties, whole
\* ranges; on a window without documents the packages differ, as WindowIsMeasured says.
EstimatesAgree == MeasurementHolds /\ EstimatorsHold
=============================================================================
