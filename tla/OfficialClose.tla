---------------------------- MODULE OfficialClose ----------------------------
(***************************************************************************)
(* Official daily closes: scripts/finalize-official-close.ts, which two    *)
(* operators or jobs may run at the same time, and the calibrations of     *)
(* scripts/calibrate-standardization.ts it chooses from.                   *)
(*                                                                         *)
(* A step is one statement.  Before BEGIN each statement reads what is     *)
(* committed then; in the transaction, READ COMMITTED and its own rows.    *)
(* An INSERT waits for another transaction that holds its key.  Indexes    *)
(* are exact fractions in units of the base value of 1000.                 *)
(***************************************************************************)
EXTENDS Integers, FiniteSets, FiniteSetsExt, TLC

CONSTANTS
    Days,             \* the UTC days
    Expressions,      \* 1 .. n, in the order of their ids
    Full,             \* the 1440 windows of a day
    Level(_, _, _),   \* expression, day, windows -> smoothed prevalence
    Finalizers,       \* the processes
    LastDays,         \* the last days of the calibration periods
    MaxRuns,          \* bound: runs of the script
    MaxCalibrations   \* bound: calibrations

ASSUME CloseAssumption ==
    /\ Days \subseteq Nat /\ LastDays \subseteq Nat /\ Expressions \subseteq Nat /\ Full \in Nat \ {0}
    /\ \A e \in Expressions, d \in Days, w \in 0 .. Full : Level(e, d, w) \in Nat \ {0}
    /\ MaxRuns \in Nat /\ MaxCalibrations \in Nat

VARIABLES
    windows,        \* day -> its observed windows
    calibrations,   \* the last day of each ACTIVE calibration
    closes,         \* official_expression_closes, committed
    run,            \* finalizer -> its run of the script
    pending,        \* finalizer -> the rows of its open transaction
    runs            \* history: the number of runs

closeVars == <<windows, calibrations, closes, run, pending, runs>>

NoCalibration == -1
NoPrior == [day |-> 0]
\* No run: no field of a run means anything before the step that sets it.
Idle == [at |-> "idle", day |-> 0, observed |-> 0, id |-> 0, history |-> {},
         calibration |-> NoCalibration, counted |-> 0, prior |-> NoPrior, left |-> {}]

CloseOf(e, d) == CHOOSE c \in closes : c.expression = e /\ c.day = d
SameIndex(x, y) == x[1] * y[2] = y[1] * x[2]

-----------------------------------------------------------------------------
(* finalize-official-close.ts.                                             *)

\* The windows are counted: without all of them only a partial close goes on.
CountWindows(f, d, allowPartial) ==
    /\ run[f] = Idle /\ runs < MaxRuns
    /\ windows[d] = Full \/ allowPartial
    /\ run' = [run EXCEPT ![f].at = "existing", ![f].day = d, ![f].observed = windows[d],
                          ![f].id = runs + 1,
                          ![f].history = {<<c.expression, c.day>> : c \in closes}]
    /\ runs' = runs + 1
    /\ UNCHANGED <<windows, calibrations, closes, pending>>

Abort(f) ==
    /\ run' = [run EXCEPT ![f] = Idle]
    /\ pending' = [pending EXCEPT ![f] = {}]

\* A final close of the day ends the run.
CheckExisting(f) ==
    /\ run[f].at = "existing"
    /\ IF \E c \in closes : c.day = run[f].day /\ c.final
       THEN Abort(f)
       ELSE run' = [run EXCEPT ![f].at = "calibration"] /\ UNCHANGED pending
    /\ UNCHANGED <<windows, calibrations, closes, runs>>

\* Mutant: the first calibration to end instead of the last.
ChosenFirst(d) ==
    LET ended == {c \in calibrations : c < d}
    IN IF ended = {} THEN NoCalibration ELSE Min(ended)

\* Of the ACTIVE calibrations that ended before day d, the last.
Chosen(d) ==
    LET ended == {c \in calibrations : c < d}
    IN IF ended = {} THEN NoCalibration ELSE Max(ended)

ChooseCalibration(f) ==
    /\ run[f].at = "calibration"
    /\ run' = [run EXCEPT ![f].at = "rows", ![f].calibration = Chosen(run[f].day)]
    /\ UNCHANGED <<windows, calibrations, closes, pending, runs>>

\* The day's sums, one row set per expression, and BEGIN.
ReadRows(f) ==
    /\ run[f].at = "rows"
    /\ LET w == windows[run[f].day]
       IN run' = [run EXCEPT ![f].at = "prior", ![f].counted = w,
                             ![f].left = IF w = 0 THEN {} ELSE Expressions]
    /\ UNCHANGED <<windows, calibrations, closes, pending, runs>>

\* Mutant: the query for the previous close forgets the expression.
PriorOfAny(e, d) ==
    LET earlier == {c \in closes : c.day < d}
    IN IF earlier = {} THEN NoPrior ELSE CHOOSE c \in earlier : \A b \in earlier : b.day <= c.day

\* The latest close of e before d.
Prior(e, d) ==
    LET earlier == {c \in closes : c.expression = e /\ c.day < d}
    IN IF earlier = {} THEN NoPrior ELSE CHOOSE c \in earlier : \A b \in earlier : b.day <= c.day

LookPrior(f) ==
    /\ run[f].at = "prior" /\ run[f].left # {}
    /\ run' = [run EXCEPT ![f].at = "insert", ![f].prior = Prior(Min(run[f].left), run[f].day)]
    /\ UNCHANGED <<windows, calibrations, closes, pending, runs>>

Row(f) ==
    LET r == run[f]
        e == Min(r.left)
        smoothed == Level(e, r.day, r.counted)
    IN [expression |-> e, day |-> r.day, smoothed |-> smoothed, final |-> r.observed = Full,
        calibration |-> r.calibration, run |-> r.id, history |-> r.history,
        index |-> IF r.prior = NoPrior THEN <<1, 1>>
                  ELSE <<r.prior.index[1] * smoothed, r.prior.index[2] * r.prior.smoothed>>]

Holds(rows, e, d) == \E c \in rows : c.expression = e /\ c.day = d

\* Mutant: every row is committed by itself.
InsertAlone(f) ==
    /\ run[f].at = "insert"
    /\ IF Holds(closes, Min(run[f].left), run[f].day)
       THEN Abort(f) /\ UNCHANGED closes
       ELSE /\ closes' = closes \cup {Row(f)}
            /\ run' = [run EXCEPT ![f].at = "prior", ![f].left = @ \ {Min(@)}]
            /\ UNCHANGED pending
    /\ UNCHANGED <<windows, calibrations, runs>>

\* The primary key: a committed row of the expression and day (all revisions
\* are 0) rolls the run back, an uncommitted one makes it wait.
InsertRow(f) ==
    /\ run[f].at = "insert"
    /\ LET e == Min(run[f].left) d == run[f].day
       IN /\ \A g \in Finalizers \ {f} : ~Holds(pending[g], e, d)
          /\ IF Holds(closes, e, d)
             THEN Abort(f)
             ELSE /\ pending' = [pending EXCEPT ![f] = @ \cup {Row(f)}]
                  /\ run' = [run EXCEPT ![f].at = "prior", ![f].left = @ \ {e}]
    /\ UNCHANGED <<windows, calibrations, closes, runs>>

Commit(f) ==
    /\ run[f].at = "prior" /\ run[f].left = {}
    /\ closes' = closes \cup pending[f]
    /\ Abort(f)
    /\ UNCHANGED <<windows, calibrations, runs>>

\* The process or its connection ends: the database rolls back.
Kill(f) ==
    /\ run[f] # Idle
    /\ Abort(f)
    /\ UNCHANGED <<windows, calibrations, closes, runs>>

-----------------------------------------------------------------------------
(* What the worker and calibrate-standardization.ts write meanwhile.       *)

\* The minutes come in order; one may be missing when the next day starts.
Observe(d) ==
    /\ windows[d] < Full /\ \A later \in Days : later > d => windows[later] = 0
    /\ windows' = [windows EXCEPT ![d] = @ + 1]
    /\ UNCHANGED <<calibrations, closes, run, pending, runs>>

\* A calibration is ACTIVE from its INSERT; the earlier ones stay so.
Calibrate(last) ==
    /\ Cardinality(calibrations) < MaxCalibrations
    /\ calibrations' = calibrations \cup {last}
    /\ UNCHANGED <<windows, closes, run, pending, runs>>

CloseInit ==
    /\ windows = [d \in Days |-> 0] /\ calibrations = {} /\ closes = {}
    /\ run = [f \in Finalizers |-> Idle] /\ pending = [f \in Finalizers |-> {}] /\ runs = 0

CloseNext ==
    \/ \E f \in Finalizers :
         \/ \E d \in Days, p \in BOOLEAN : CountWindows(f, d, p)
         \/ CheckExisting(f) \/ ChooseCalibration(f) \/ ReadRows(f)
         \/ LookPrior(f) \/ InsertRow(f) \/ Commit(f) \/ Kill(f)
    \/ \E d \in Days : Observe(d)
    \/ \E last \in LastDays : Calibrate(last)

CloseSpec == CloseInit /\ [][CloseNext]_closeVars

-----------------------------------------------------------------------------
(* Properties.                                                             *)

\* The finalizer's transaction and the primary key: whoever runs it when, a day
\* that has a close has one of every expression, all by the same run, so that
\* final and partial values or two calibrations are never mixed.
DayIsUniform ==
    \A c \in closes : \A e \in Expressions :
        Holds(closes, e, c.day) /\ CloseOf(e, c.day).run = c.run /\ CloseOf(e, c.day).final = c.final

\* The index is chained: when a close of an earlier day was there before the
\* run, the index moves with the smoothed prevalence from it, or from a later
\* one that came meanwhile.
IndexIsChained ==
    \A c \in closes :
        LET known == {d \in Days : d < c.day /\ <<c.expression, d>> \in c.history}
        IN known # {} =>
             \E d \in Max(known) .. c.day - 1 :
                /\ Holds(closes, c.expression, d)
                /\ LET p == CloseOf(c.expression, d)
                   IN SameIndex(c.index, <<p.index[1] * c.smoothed, p.index[2] * p.smoothed>>)

\* Calibrations stay ACTIVE: still a close never uses one that ended before the
\* one of an earlier day whose close it could see.
CalibrationsAdvance ==
    \A b, c \in closes :
        b.day < c.day /\ <<b.expression, b.day>> \in c.history => b.calibration <= c.calibration
=============================================================================
