--------------------------- MODULE ObservedSeries ---------------------------
(***************************************************************************)
(* What is derived from recorded series: the reference index and the daily *)
(* closes of scripts/replay.ts over a file of aggregate batches, and the   *)
(* candles the terminal draws from its bounded history of ticks            *)
(* (apps/web/src/realtime/candles.ts, marketStore.ts).                     *)
(*                                                                         *)
(* A minute may have two lines in a file: the worker flushes it again      *)
(* after a reconnect or a restart (Ingestion).  A line is given by its     *)
(* minute and the documents of one expression in two content buckets; a    *)
(* batch always has an eligible document, or it is not written.  A row of  *)
(* another language than ALL repeats documents and is skipped.             *)
(***************************************************************************)
EXTENDS Integers, FiniteSets, SequencesExt, Fractions

CONSTANTS
    ReplayWindows,     \* bound: minutes of a file
    WindowsPerDay,     \* the 1440 minutes of a final day
    DocumentCounts,    \* bound: [eligible, expressed] of a content bucket
    MaxLines,          \* bound: lines of a file
    TickPrices,        \* bound: prices of ticks
    Gaps,              \* bound: seconds between two ticks
    MaxTicks,          \* bound: ticks
    MaxHistory,        \* MAX_HISTORY_POINTS
    BucketSeconds

ASSUME SeriesAssumption ==
    /\ TickPrices \subseteq Int /\ Gaps \subseteq Nat
    /\ MaxHistory \in Nat \ {0} /\ BucketSeconds \in Nat \ {0}

VARIABLES
    lines,   \* the file, or none
    ticks,   \* history: every tick received, and when
    points   \* historyByAssetId

seriesVars == <<lines, ticks, points>>

-----------------------------------------------------------------------------
(* scripts/replay.ts.                                                      *)

Row(counts, language) ==
    [eligible |-> counts.eligible, expressed |-> counts.expressed, language |-> language]
Line(window, original, reply) ==
    [window |-> window, rows |-> <<Row(original, "ALL"), Row(reply, "ALL"), Row(original, "en")>>]
Silent == {counts \in DocumentCounts : counts.eligible = 0}
Lines == {Line(w, o, r) : w \in ReplayWindows, o \in DocumentCounts, r \in DocumentCounts}
             \ {Line(w, o, r) : w \in ReplayWindows, o \in Silent, r \in Silent}

\* Mutant: the lines are taken as they come.
AsRecorded(file) == file
\* The sort by windowStart is stable.
Batches(file) ==
    LET inOrder == SetToSortSeq(DOMAIN file, LAMBDA i, j :
                       file[i].window < file[j].window \/ (file[i].window = file[j].window /\ i < j))
    IN  [i \in DOMAIN file |-> file[inOrder[i]]]

Rows(batch) == SelectSeq(batch.rows, LAMBDA row : row.language = "ALL")
Eligible(rows) == FoldLeft(LAMBDA sum, row : sum + row.eligible, 0, rows)
Expressed(rows) == FoldLeft(LAMBDA sum, row : sum + row.expressed, 0, rows)
Smoothed(batch) == Fraction(2 * Expressed(Rows(batch)) + 1, 2 * Eligible(Rows(batch)) + 2)

\* The index moves by the ratio to the previous line of the expression.
Observed(chain, batch) ==
    LET p == Smoothed(batch)
        next == IF chain.previous = Nothing THEN chain.index
                ELSE Product(chain.index, Quotient(p, chain.previous))
    IN  [previous |-> p, index |-> next, snapshots |-> Append(chain.snapshots, <<batch.window, next>>)]
Snapshots(file) ==
    FoldLeft(Observed, [previous |-> Nothing, index |-> <<1000, 1>>, snapshots |-> <<>>],
             Batches(file)).snapshots

Day(window) == (window - 1) \div WindowsPerDay
\* The documents of every line count, the minutes of a day are a set.
DailyClose(file, day) ==
    LET ofDay == SelectSeq(Batches(file), LAMBDA batch : Day(batch.window) = day)
        rows == FlattenSeq([i \in DOMAIN ofDay |-> Rows(ofDay[i])])
        windows == {ofDay[i].window : i \in DOMAIN ofDay}
    IN  [eligible |-> Eligible(rows), expressed |-> Expressed(rows),
         windows |-> windows, final |-> Cardinality(windows) = WindowsPerDay]

-----------------------------------------------------------------------------
(* The terminal.                                                           *)

\* A tick joins the history, and the oldest may leave it.
Tick(gap, price) ==
    /\ lines = <<>> /\ Len(ticks) < MaxTicks
    /\ LET now == IF ticks = <<>> THEN gap ELSE ticks[Len(ticks)].time + gap
           point == [time |-> now, value |-> price]
           all == Append(points, point)
       IN  /\ ticks' = Append(ticks, point)
           /\ points' = IF Len(all) > MaxHistory THEN Tail(all) ELSE all
    /\ UNCHANGED lines

AtLeast(a, b) == IF a < b THEN b ELSE a
AtBest(a, b) == IF a < b THEN a ELSE b
\* Where the candle of a point begins.
Bucket(point) == (point.time \div BucketSeconds) * BucketSeconds
Opened(point) ==
    [time |-> Bucket(point), open |-> point.value, high |-> point.value,
     low |-> point.value, close |-> point.value]
\* Mutant: the high is that of the last two points.
TakenAfterClose(candle, point) ==
    [candle EXCEPT !.high = AtLeast(candle.close, point.value), !.low = AtBest(@, point.value),
                   !.close = point.value]
Taken(candle, point) ==
    [candle EXCEPT !.high = AtLeast(@, point.value), !.low = AtBest(@, point.value),
                   !.close = point.value]
\* The last candle takes the point, or a new one begins.
Drawn(candles, point) ==
    LET n == Len(candles)
    IN  IF n > 0 /\ candles[n].time = Bucket(point)
        THEN [candles EXCEPT ![n] = Taken(@, point)]
        ELSE Append(candles, Opened(point))
Candles(observed) == FoldLeft(Drawn, <<>>, observed)

-----------------------------------------------------------------------------
NoSeries == ticks = <<>> /\ points = <<>>
SeriesInit == lines \in BoundedSeq(Lines, MaxLines) /\ NoSeries
SeriesNext == \E gap \in Gaps, price \in TickPrices : Tick(gap, price)

-----------------------------------------------------------------------------
(* Properties.                                                             *)

(***************************************************************************)
(* A replay does not depend on the order of the lines as long as no minute *)
(* has two; its daily closes never do.  The index at a line is the ratio   *)
(* of that line to the first, whatever lies between.  A day is final when  *)
(* it has every minute, however often one was flushed.                     *)
(***************************************************************************)
ReplayIsCanonical ==
    LET windows == {lines[i].window : i \in DOMAIN lines}
        batches == Batches(lines)
        snapshots == Snapshots(lines)
        Days == {Day(w) : w \in ReplayWindows}
        swaps == {[lines EXCEPT ![i] = lines[j], ![j] = lines[i]] : i, j \in DOMAIN lines}
    IN  /\ \A other \in swaps :
               /\ Cardinality(windows) = Len(lines) => Snapshots(other) = snapshots
               /\ \A day \in Days : DailyClose(other, day) = DailyClose(lines, day)
        /\ \A i \in DOMAIN batches :
               snapshots[i][2] = Product(<<1000, 1>>, Quotient(Smoothed(batches[i]), Smoothed(batches[1])))
        /\ \A day \in Days :
               DailyClose(lines, day).final = (day * WindowsPerDay + 1 .. (day + 1) * WindowsPerDay \subseteq windows)

(***************************************************************************)
(* Candles come in ascending order, each with the open, the close and the  *)
(* extremes of what was observed in its time; dropping the oldest ticks    *)
(* may change the oldest candle that is left and no other.                 *)
(***************************************************************************)
CandlesAreObserved ==
    LET candles == Candles(points)
        full == Candles(ticks)
        dropped == Len(full) - Len(candles)
        In(i) == {k \in DOMAIN points : points[k].time \in candles[i].time .. candles[i].time + BucketSeconds - 1}
    IN  /\ \A i \in DOMAIN candles :
               LET c == candles[i]
                   values == {points[k].value : k \in In(i)}
                   ends == {k \in In(i) : k - 1 \notin In(i) \/ k + 1 \notin In(i)}
               IN  /\ {c.low, c.high} \subseteq values /\ \A v \in values : v \in c.low .. c.high
                   /\ \E first, last \in ends :
                          /\ \A k \in ends : first <= k /\ k <= last
                          /\ points[first].value = c.open /\ points[last].value = c.close
                   /\ i > 1 => candles[i - 1].time < c.time
                   /\ i > 1 => c = full[i + dropped]
        /\ DOMAIN points = UNION {In(i) : i \in DOMAIN candles}
=============================================================================
