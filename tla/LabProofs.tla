----------------------------- MODULE LabProofs ------------------------------
(***************************************************************************)
(* Proofs about the laboratory around the book: the event clock            *)
(* (Scheduler), the backtest engines (Backtest, PortfolioBacktest), the    *)
(* behavior accumulator (Behavior), the trading rules (TradingRules) and   *)
(* the buffer and the history of an index (IndexRules) and the candles of  *)
(* the terminal (ObservedSeries).                                          *)
(***************************************************************************)
EXTENDS Scheduler, Backtest, Behavior, TradingRules, IndexRules, ObservedSeries,
        PortfolioBacktest, SumProofs, WellFoundedInduction, TLAPS

-----------------------------------------------------------------------------
(***************************************************************************)
(* The event clock runs its actions in order for any number of actions and *)
(* any times.  The invariant adds to RunsInOrder what the heap and the     *)
(* clock guarantee between two steps: whatever has run comes before        *)
(* whatever waits, and whatever waits is not in the past.                  *)
(***************************************************************************)

Ordered(a, b) == a.time < b.time \/ (a.time = b.time /\ a.sequence < b.sequence)

TypeInv ==
    /\ now \in Nat
    /\ sequence \in 0 .. MaxActions
    /\ queue \in SUBSET [time : Nat, sequence : Nat]
    /\ ran \in Seq([time : Nat, sequence : Nat])

\* The history is in order and behind the clock.
RanInv ==
    /\ \A i, j \in 1 .. Len(ran) : i < j => Ordered(ran[i], ran[j])
    /\ \A i \in 1 .. Len(ran) : ran[i].time <= now /\ ran[i].sequence <= sequence

\* The queue is ahead of the clock and of the history.
QueueInv ==
    /\ \A a \in queue : a.time >= now /\ a.sequence <= sequence
    /\ \A i \in 1 .. Len(ran), a \in queue : Ordered(ran[i], a)

\* Every call of schedule() is in the queue or in the history.
NoneLost ==
    \A n \in 1 .. sequence :
        \/ \E i \in 1 .. Len(ran) : ran[i].sequence = n
        \/ \E a \in queue : a.sequence = n

ClockIInv == TypeInv /\ RanInv /\ QueueInv /\ NoneLost

\* What has run has a time and a number.
LEMMA RanType ==
    ASSUME TypeInv, NEW i \in 1 .. Len(ran)
    PROVE  ran[i] \in [time : Nat, sequence : Nat]
  <1> DEFINE S == [time : Nat, sequence : Nat]
  <1>1. ran \in Seq(S)
    BY DEF TypeInv
  <1> HIDE DEF S
  <1>2. ran[i] \in S
    BY <1>1
  <1> QED
    BY <1>2 DEF S

\* Nothing is scheduled and nothing has run.
LEMMA ClockInitInv == SchedulerInit => ClockIInv
  BY SchedulerAssumption DEF SchedulerInit, ClockIInv, TypeInv, RanInv, QueueInv, NoneLost

\* schedule(): the new action is not in the past and has the last number.
LEMMA ScheduleInv ==
    ASSUME ClockIInv, NEW time \in Times, Schedule(time)
    PROVE  ClockIInv'
  <1> DEFINE new == [time |-> time, sequence |-> sequence + 1]
  <1>1. /\ time \in Nat /\ time >= now /\ sequence' = sequence + 1
        /\ queue' = queue \union {new} /\ now' = now /\ ran' = ran
        /\ sequence < MaxActions
    BY DEF Schedule, MaySchedule, Times
  <1>2. TypeInv'
    BY <1>1, SchedulerAssumption DEF ClockIInv, TypeInv
  <1>. /\ sequence \in Nat /\ now \in Nat
       /\ \A i \in 1 .. Len(ran) : ran[i].time \in Nat /\ ran[i].sequence \in Nat
    <2>1. \A i \in 1 .. Len(ran) : ran[i] \in [time : Nat, sequence : Nat]
      BY RanType DEF ClockIInv
    <2> QED
      BY <2>1, SchedulerAssumption DEF ClockIInv, TypeInv
  <1>3. RanInv'
    <2>1. \A i \in 1 .. Len(ran) : ran[i].time <= now /\ ran[i].sequence <= sequence + 1
      BY DEF ClockIInv, RanInv
    <2> QED
      BY <1>1, <2>1 DEF ClockIInv, RanInv, Ordered
  <1>4. QueueInv'
    <2>1. ASSUME NEW i \in 1 .. Len(ran)
          PROVE  Ordered(ran[i], new)
      <3>1. ran[i].time <= now /\ ran[i].sequence < sequence + 1
        BY DEF ClockIInv, RanInv
      <3> QED
        BY <1>1, <3>1 DEF Ordered
    <2>2. ASSUME NEW a \in queue'
          PROVE  a.time >= now' /\ a.sequence <= sequence'
      <3>1. CASE a = new
        BY <1>1, <3>1
      <3>2. CASE a \in queue
        BY <1>1, <3>2 DEF ClockIInv, TypeInv, QueueInv
      <3> QED
        BY <1>1, <3>1, <3>2
    <2> QED
      BY <1>1, <2>1, <2>2 DEF ClockIInv, QueueInv
  <1>5. NoneLost'
    <2> SUFFICES ASSUME NEW n \in 1 .. sequence'
                 PROVE  \/ \E i \in 1 .. Len(ran') : ran'[i].sequence = n
                        \/ \E a \in queue' : a.sequence = n
      BY DEF NoneLost
    <2>1. CASE n = sequence + 1
      <3>1. new \in queue' /\ new.sequence = n
        BY <1>1, <2>1
      <3> QED
        BY <3>1
    <2>2. CASE n \in 1 .. sequence
      BY <1>1, <2>2 DEF ClockIInv, NoneLost
    <2> QED
      BY <1>1, <2>1, <2>2 DEF ClockIInv, TypeInv
  <1> QED
    BY <1>2, <1>3, <1>4, <1>5 DEF ClockIInv

\* step(): what runs comes before what goes on waiting.
LEMMA StepInv ==
    ASSUME ClockIInv, Step
    PROVE  ClockIInv'
  <1>1. PICK next \in queue :
            /\ \A other \in queue \ {next} : Before(next, other)
            /\ queue' = queue \ {next}
            /\ now' = next.time
            /\ ran' = Append(ran, next)
            /\ sequence' = sequence
    BY DEF Step
  <1>2. next \in [time : Nat, sequence : Nat]
    BY <1>1 DEF ClockIInv, TypeInv
  <1>3. TypeInv'
    BY <1>1, <1>2 DEF ClockIInv, TypeInv
  <1>4. /\ Len(ran') = Len(ran) + 1 /\ Len(ran) \in Nat
        /\ \A i \in 1 .. Len(ran) : ran'[i] = ran[i]
        /\ ran'[Len(ran) + 1] = next
    BY <1>1, <1>2 DEF ClockIInv, TypeInv
  <1>5. RanInv'
    <2>1. ASSUME NEW i \in 1 .. Len(ran'), NEW j \in 1 .. Len(ran'), i < j
          PROVE  Ordered(ran'[i], ran'[j])
      <3>1. CASE j = Len(ran) + 1
        BY <1>1, <1>4, <2>1, <3>1 DEF ClockIInv, QueueInv
      <3>2. CASE j # Len(ran) + 1
        BY <1>4, <2>1, <3>2 DEF ClockIInv, RanInv
      <3> QED
        BY <3>1, <3>2
    <2>2. ASSUME NEW i \in 1 .. Len(ran')
          PROVE  ran'[i].time <= now' /\ ran'[i].sequence <= sequence'
      <3>1. CASE i = Len(ran) + 1
        BY <1>1, <1>2, <1>4, <3>1 DEF ClockIInv, QueueInv
      <3>2. CASE i # Len(ran) + 1
        <4>1. i \in 1 .. Len(ran) /\ ran'[i] = ran[i]
          BY <1>4, <2>2, <3>2
        <4>2. ran[i] \in [time : Nat, sequence : Nat]
          BY <4>1, RanType DEF ClockIInv
        <4>3. ran[i].time <= next.time
          BY <1>1, <1>2, <4>1, <4>2 DEF ClockIInv, QueueInv, Ordered
        <4> QED
          BY <1>1, <4>1, <4>3 DEF ClockIInv, RanInv
      <3> QED
        BY <3>1, <3>2
    <2> QED
      BY <2>1, <2>2 DEF RanInv
  <1>6. QueueInv'
    <2>1. ASSUME NEW a \in queue'
          PROVE  a.time >= now' /\ a.sequence <= sequence'
      <3>1. a \in queue /\ a \in [time : Nat, sequence : Nat] /\ Before(next, a)
        BY <1>1, <2>1 DEF ClockIInv, TypeInv
      <3> QED
        BY <1>1, <1>2, <3>1 DEF ClockIInv, QueueInv, Before
    <2>2. ASSUME NEW i \in 1 .. Len(ran'), NEW a \in queue'
          PROVE  Ordered(ran'[i], a)
      <3>1. CASE i = Len(ran) + 1
        BY <1>1, <1>4, <2>2, <3>1 DEF Before, Ordered
      <3>2. CASE i # Len(ran) + 1
        BY <1>1, <1>4, <2>2, <3>2 DEF ClockIInv, QueueInv
      <3> QED
        BY <3>1, <3>2
    <2> QED
      BY <2>1, <2>2 DEF QueueInv
  <1>7. NoneLost'
    <2> SUFFICES ASSUME NEW n \in 1 .. sequence'
                 PROVE  \/ \E i \in 1 .. Len(ran') : ran'[i].sequence = n
                        \/ \E a \in queue' : a.sequence = n
      BY DEF NoneLost
    <2>1. CASE next.sequence = n
      BY <1>4, <2>1
    <2>2. CASE next.sequence # n
      BY <1>1, <1>4, <2>2 DEF ClockIInv, NoneLost
    <2> QED
      BY <2>1, <2>2
  <1> QED
    BY <1>3, <1>5, <1>6, <1>7 DEF ClockIInv

\* RunsInOrder for every number of actions, every time they are scheduled for
\* and every moment they are scheduled at: the clock of
\* DeterministicScheduler is deterministic.
THEOREM AlwaysInOrder == SchedulerSpec => []RunsInOrder
  <1>1. ClockIInv /\ [SchedulerNext]_schedulerVars => ClockIInv'
    <2>1. ASSUME ClockIInv, UNCHANGED schedulerVars
          PROVE  ClockIInv'
      BY <2>1 DEF schedulerVars, ClockIInv, TypeInv, RanInv, QueueInv, NoneLost
    <2> QED
      BY <2>1, ScheduleInv, StepInv DEF SchedulerNext
  <1>2. ClockIInv => RunsInOrder
    BY DEF ClockIInv, RanInv, NoneLost, Ordered, RunsInOrder
  <1> QED
    BY ClockInitInv, <1>1, <1>2, PTL DEF SchedulerSpec

-----------------------------------------------------------------------------
(***************************************************************************)
(* Which decisions of a backtest execute, for any number of bars and       *)
(* assets, any interval and any delay.  The invariant adds to              *)
(* DecisionsExecute what is pending between two bars: the decision of the  *)
(* last rebalance, as long as its bar has not come.                        *)
(***************************************************************************)

ConfigInv == every \in Nat \ {0} /\ delay \in Nat /\ bar \in Nat

\* What is pending was decided on the last rebalance.
PendingInv ==
    \A p \in pending :
        /\ p.decided \in 0 .. Bars - 1 /\ p.decided < bar
        /\ p.at = p.decided + delay
        /\ Rebalances(p.decided)
        /\ \A b \in 0 .. Bars - 1 : p.decided < b /\ b < bar => ~Rebalances(b)

\* The last rebalance is pending until its delay is over.
LastInv ==
    \A d \in 0 .. Bars - 1 :
        /\ Rebalances(d) /\ d < bar /\ bar <= d + delay
        /\ \A b \in 0 .. Bars - 1 : d < b /\ b < bar => ~Rebalances(b)
        => \E p \in pending : p.decided = d

BacktestIInv == ConfigInv /\ PendingInv /\ LastInv /\ DecisionsExecute

\* A decision whose delay ends on this bar and that nothing replaced.
Ends(d) == d \in 0 .. Bars - 1 /\ Rebalances(d) /\ ~Superseded(d) /\ delay # 0 /\ d + delay = bar

\* Before the first bar nothing is decided.
LEMMA BacktestInitInv == BacktestInit => BacktestIInv
  <1> SUFFICES ASSUME BacktestInit
               PROVE  BacktestIInv
    OBVIOUS
  <1>1. ConfigInv
    BY BacktestAssumption DEF BacktestInit, ConfigInv
  <1>2. PendingInv /\ LastInv
    BY BacktestAssumption DEF BacktestInit, PendingInv, LastInv
  <1>3. DecisionsExecute
    BY BacktestAssumption DEF BacktestInit, DecisionsExecute
  <1> QED
    BY <1>1, <1>2, <1>3 DEF BacktestIInv

\* What is due on a bar is what ends on it.
LEMMA DueEnds ==
    ASSUME BacktestIInv, bar < Bars
    PROVE  /\ \A p \in Due : Ends(p.decided)
           /\ \A d : Ends(d) => \E p \in Due : p.decided = d
  <1> USE BacktestAssumption DEF BacktestIInv, ConfigInv
  <1>1. ASSUME NEW p \in Due
        PROVE  Ends(p.decided)
    <2>1. /\ p \in pending /\ p.at = bar /\ p.decided \in 0 .. Bars - 1
          /\ p.decided < bar /\ p.at = p.decided + delay /\ Rebalances(p.decided)
      BY DEF Due, PendingInv
    <2>2. ~Superseded(p.decided)
      BY <2>1 DEF Superseded, PendingInv
    <2>3. delay # 0
      BY <2>1
    <2> QED
      BY <2>1, <2>2, <2>3 DEF Ends
  <1>2. ASSUME NEW d, Ends(d)
        PROVE  \E p \in Due : p.decided = d
    <2>1. d \in 0 .. Bars - 1 /\ Rebalances(d) /\ d < bar /\ bar <= d + delay
      BY <1>2 DEF Ends
    <2>2. \A b \in 0 .. Bars - 1 : d < b /\ b < bar => ~Rebalances(b)
      BY <1>2 DEF Ends, Superseded
    <2>3. PICK p \in pending : p.decided = d
      BY <2>1, <2>2 DEF LastInv
    <2> QED
      BY <1>2, <2>3 DEF Due, PendingInv, Ends
  <1> QED
    BY <1>1, <1>2

\* One bar.
LEMMA BarInv ==
    ASSUME BacktestIInv, Bar
    PROVE  BacktestIInv'
  <1> USE BacktestAssumption
  <1>1. /\ bar < Bars /\ bar' = bar + 1 /\ every' = every /\ delay' = delay
        /\ every \in Nat \ {0} /\ delay \in Nat /\ bar \in Nat
    BY DEF Bar, BacktestIInv, ConfigInv
  <1>2. /\ \A b : Rebalances(b)' <=> Rebalances(b)
        /\ \A d : Superseded(d)' <=> Superseded(d)
    BY <1>1 DEF Rebalances, Superseded
  <1>3. ConfigInv'
    BY <1>1 DEF ConfigInv
  <1>4. \/ /\ Rebalances(bar)
           /\ \E targets \in Targets :
                  pending' = {[at |-> bar + delay, decided |-> bar, targets |-> targets]}
        \/ ~Rebalances(bar) /\ pending' = pending \ Due
    BY DEF Bar, Decide
  <1>5. PendingInv'
    <2> SUFFICES ASSUME NEW p \in pending'
                 PROVE  /\ p.decided \in 0 .. Bars - 1 /\ p.decided < bar'
                        /\ p.at = p.decided + delay
                        /\ Rebalances(p.decided)
                        /\ \A b \in 0 .. Bars - 1 : p.decided < b /\ b < bar' => ~Rebalances(b)
      BY <1>1, <1>2 DEF PendingInv
    <2>1. CASE Rebalances(bar)
      BY <1>1, <1>4, <2>1
    <2>2. CASE ~Rebalances(bar)
      <3>1. p \in pending
        BY <1>4, <2>2
      <3>2. /\ p.decided \in 0 .. Bars - 1 /\ p.decided < bar
            /\ p.at = p.decided + delay /\ Rebalances(p.decided)
            /\ \A b \in 0 .. Bars - 1 : p.decided < b /\ b < bar => ~Rebalances(b)
        BY <3>1 DEF BacktestIInv, PendingInv
      <3> QED
        BY <1>1, <2>2, <3>2
    <2> QED
      BY <2>1, <2>2
  <1>6. LastInv'
    <2> SUFFICES ASSUME NEW d \in 0 .. Bars - 1,
                        Rebalances(d), d < bar', bar' <= d + delay,
                        \A b \in 0 .. Bars - 1 : d < b /\ b < bar' => ~Rebalances(b)
                 PROVE  \E p \in pending' : p.decided = d
      BY <1>1, <1>2 DEF LastInv
    <2>1. CASE Rebalances(bar)
      <3>1. d = bar
        BY <1>1, <2>1
      <3>2. PICK targets \in Targets :
                pending' = {[at |-> bar + delay, decided |-> bar, targets |-> targets]}
        BY <1>4, <2>1
      <3> QED
        BY <3>1, <3>2
    <2>2. CASE ~Rebalances(bar)
      <3>1. d < bar /\ bar < d + delay
        BY <1>1, <2>2
      <3>2. PICK p \in pending : p.decided = d
        BY <1>1, <3>1 DEF BacktestIInv, LastInv
      <3>3. p.at # bar
        BY <1>1, <3>1, <3>2 DEF BacktestIInv, PendingInv
      <3> QED
        BY <1>4, <2>2, <3>2, <3>3 DEF Due
    <2> QED
      BY <2>1, <2>2
  <1>7. /\ executed' = executed \union {d \in 0 .. Bars - 1 : Ends(d)}
        /\ \A a \in Assets : quantity'[a] # 0 => origin'[a] \in executed'
    <2>1. \A a \in Assets : quantity[a] # 0 => origin[a] \in executed
      BY DEF BacktestIInv, DecisionsExecute
    <2>2. CASE Due = {}
      <3>1. quantity' = quantity /\ origin' = origin /\ executed' = executed
        BY <2>2 DEF Bar, ExecuteDue
      <3>2. \A d : ~Ends(d)
        BY <1>1, <2>2, DueEnds
      <3> QED
        BY <2>1, <3>1, <3>2
    <2>3. CASE Due # {}
      <3>1. PICK p \in Due : Execute(p)
        BY <2>3 DEF Bar, ExecuteDue
      <3>2. executed' = executed \union {p.decided}
        BY <3>1 DEF Execute
      <3>3. {d \in 0 .. Bars - 1 : Ends(d)} = {p.decided}
        <4>1. Ends(p.decided)
          BY <1>1, <3>1, DueEnds
        <4>2. \A d \in 0 .. Bars - 1 : Ends(d) => d = p.decided
          BY <1>1, <4>1 DEF Ends
        <4> QED
          BY <4>1, <4>2 DEF Ends
      <3>4. ASSUME NEW a \in Assets, quantity'[a] # 0
            PROVE  origin'[a] \in executed'
        BY <2>1, <3>1, <3>2, <3>4 DEF Execute
      <3> QED
        BY <3>2, <3>3, <3>4
    <2> QED
      BY <2>2, <2>3
  <1>8. DecisionsExecute'
    <2> DEFINE Done == {d \in 0 .. Bars - 1 :
                            Rebalances(d) /\ ~Superseded(d) /\ delay # 0 /\ d + delay < bar}
               DoneNext == {d \in 0 .. Bars - 1 :
                            Rebalances(d) /\ ~Superseded(d) /\ delay # 0 /\ d + delay < bar + 1}
    <2>1. executed = Done
      BY DEF BacktestIInv, DecisionsExecute
    <2>2. DoneNext = Done \union {d \in 0 .. Bars - 1 : Ends(d)}
      BY <1>1 DEF Ends
    <2>3. executed' = DoneNext
      BY <1>7, <2>1, <2>2
    <2>4. DoneNext = {d \in 0 .. Bars - 1 :
              Rebalances(d)' /\ ~Superseded(d)' /\ delay' # 0 /\ d + delay' < bar'}
      BY <1>1, <1>2
    <2> QED
      BY <1>7, <2>3, <2>4 DEF DecisionsExecute
  <1> QED
    BY <1>3, <1>5, <1>6, <1>8 DEF BacktestIInv

\* DecisionsExecute for every number of bars, interval and delay: which
\* decisions of a strategy are executed, and that none is before its delay.
THEOREM DecisionsAlwaysExecute == BacktestSpec => []DecisionsExecute
  <1>1. BacktestIInv /\ [Bar]_backtestVars => BacktestIInv'
    <2>1. ASSUME BacktestIInv, UNCHANGED backtestVars
          PROVE  BacktestIInv'
      BY <2>1 DEF backtestVars, BacktestIInv, ConfigInv, PendingInv, LastInv, DecisionsExecute,
                  Rebalances, Superseded
    <2> QED
      BY <2>1, BarInv
  <1>2. BacktestIInv => DecisionsExecute
    BY DEF BacktestIInv
  <1> QED
    BY BacktestInitInv, <1>1, <1>2, PTL DEF BacktestSpec

-----------------------------------------------------------------------------
(***************************************************************************)
(* The behavior accumulator: what it says of the depth of a thread, for    *)
(* every forest of records and every order in which events arrive.         *)
(***************************************************************************)

\* The depth at which an event counts when all its lineage is known.
EventDepth(v) == IF v.parent = 0 THEN 1 ELSE TrueDepth[v.parent] + 1

\* A set of applied events each of which has its parent before it in the set.
Supported(e, L) ==
    \A i \in L :
        /\ e \in applied[i].expressions
        /\ applied[i].parent = 0 \/ \E j \in L : j < i /\ applied[j].record = applied[i].parent

\* An event is measured as deep as it is.
Exact(e, v) ==
    /\ v.record # 0 => v.record \in DOMAIN depthOf[e] /\ depthOf[e][v.record] = EventDepth(v)
    /\ cascades[e][v.cascade].depth >= EventDepth(v)

KnownRecords(e) ==
    /\ DOMAIN depthOf[e] \subseteq Records
    /\ \A r \in DOMAIN depthOf[e] :
         /\ depthOf[e][r] \in Nat \ {0} /\ depthOf[e][r] <= TrueDepth[r]
         /\ Parent[r] # 0 => depthOf[e][r] >= 2

\* A cascade is as deep as an event in it.
KnownCascades(e) ==
    /\ DOMAIN cascades[e] = Records
    /\ \A c \in Records :
         /\ cascades[e][c].depth \in Nat
         /\ cascades[e][c].depth # 0 =>
              \E i \in 1 .. Len(applied) :
                 /\ applied[i].cascade = c /\ e \in applied[i].expressions
                 /\ cascades[e][c].depth <= EventDepth(applied[i])

BehaviorInv ==
    /\ tape \in Seq(Events) /\ cursor \in Nat /\ applied \in Seq(Events)
    /\ DOMAIN depthOf = Expressions /\ DOMAIN cascades = Expressions
    /\ \A e \in Expressions : KnownRecords(e) /\ KnownCascades(e)
    /\ \A e \in Expressions : \A L \in SUBSET (1 .. Len(applied)) :
         Supported(e, L) => \A i \in L : Exact(e, applied[i])

-----------------------------------------------------------------------------
(* The recursive definitions.                                              *)

DepthFrom(f, r) == IF Parent[r] = 0 THEN 1 ELSE f[Parent[r]] + 1

LEMMA ParentFacts ==
    /\ Records \subseteq Nat \ {0}
    /\ \A r \in Records : Parent[r] = 0 \/ (Parent[r] \in Records /\ Parent[r] < r)
  BY BehaviorAssumption DEF BehaviorAssumption

\* A nonempty set of naturals has a least element.
LEMMA LeastOf ==
    ASSUME NEW T \in SUBSET Nat, T # {}
    PROVE  \E m \in T : \A n \in T : m <= n
  <1>1. PICK m \in T : \A n \in T : ~ (<<n, m>> \in OpToRel(<, Nat))
    BY NatLessThanWellFounded, WFMin
  <1>2. \A n \in T : ~ (n < m)
    BY <1>1 DEF OpToRel
  <1> QED BY <1>2

\* Parents have smaller ids, so the recursion of TrueDepth has a solution.
LEMMA DepthExists ==
    \E f : f = [r \in Records |-> DepthFrom(f, r)] /\ f \in [Records -> Nat]
  <1> DEFINE UpTo(f, n) == \A r \in Records : r <= n => f[r] = DepthFrom(f, r)
             Bad == {n \in Nat : ~ \E f \in [Records -> Nat] : UpTo(f, n)}
  <1>1. \A f \in [Records -> Nat] : \A r \in Records : DepthFrom(f, r) \in Nat
    <2> SUFFICES ASSUME NEW f \in [Records -> Nat], NEW r \in Records PROVE DepthFrom(f, r) \in Nat
      OBVIOUS
    <2>1. Parent[r] # 0 => f[Parent[r]] \in Nat
      BY ParentFacts
    <2> QED BY <2>1 DEF DepthFrom
  <1>2. 0 \notin Bad
    <2>1. [r \in Records |-> 0] \in [Records -> Nat]
      OBVIOUS
    <2>2. \A r \in Records : ~(r <= 0)
      BY ParentFacts
    <2> QED BY <2>1, <2>2
  <1>3. ASSUME NEW n \in Nat, n \notin Bad PROVE n + 1 \notin Bad
    <2>1. PICK f \in [Records -> Nat] : UpTo(f, n)
      BY <1>3
    <2> DEFINE g == [r \in Records |-> DepthFrom(f, r)]
    <2>2. g \in [Records -> Nat]
      BY <1>1
    <2>3. ASSUME NEW r \in Records, r <= n + 1 PROVE g[r] = DepthFrom(g, r)
      <3>1. CASE Parent[r] = 0
        BY <3>1 DEF DepthFrom
      <3>2. CASE Parent[r] # 0
        <4>0. r \in Nat /\ Parent[r] \in Records /\ Parent[r] \in Nat /\ Parent[r] < r
          BY <3>2, ParentFacts
        <4>1. Parent[r] \in Records /\ Parent[r] <= n
          BY <2>3, <4>0
        <4>2. f[Parent[r]] = g[Parent[r]]
          BY <2>1, <4>1
        <4> QED BY <3>2, <4>2 DEF DepthFrom
      <3> QED BY <3>1, <3>2
    <2> HIDE DEF g
    <2> QED BY <2>2, <2>3
  <1> HIDE DEF Bad
  <1>4. Bad = {}
    <2> SUFFICES ASSUME Bad # {} PROVE FALSE
      OBVIOUS
    <2>1. Bad \in SUBSET Nat
      BY DEF Bad
    <2>2. PICK m \in Bad : \A n \in Bad : m <= n
      BY <2>1, LeastOf
    <2>3. m \in Nat /\ m # 0
      BY <1>2, <2>1
    <2>4. m - 1 \in Nat /\ m - 1 \notin Bad /\ (m - 1) + 1 = m
      BY <2>2, <2>3
    <2> QED BY <1>3, <2>2, <2>4
  <1>5. \A n \in Nat : \E f \in [Records -> Nat] : UpTo(f, n)
    BY <1>4 DEF Bad
  <1>6. ASSUME NEW f \in [Records -> Nat], NEW g \in [Records -> Nat], NEW n \in Nat, UpTo(f, n), UpTo(g, n)
        PROVE \A r \in Records : r <= n => f[r] = g[r]
    <2> DEFINE Differ == {r \in Records : r <= n /\ f[r] # g[r]}
    <2> SUFFICES ASSUME Differ # {} PROVE FALSE
      OBVIOUS
    <2>1. Differ \in SUBSET Nat
      BY ParentFacts
    <2> HIDE DEF Differ
    <2>2. PICK m \in Differ : \A k \in Differ : m <= k
      BY <2>1, LeastOf
    <2>3. m \in Records /\ m <= n /\ f[m] # g[m] /\ m \in Nat
      BY <2>1 DEF Differ
    <2>4. f[m] = DepthFrom(f, m) /\ g[m] = DepthFrom(g, m)
      BY <1>6, <2>3
    <2>5. Parent[m] # 0
      BY <2>3, <2>4 DEF DepthFrom
    <2>6. Parent[m] \in Records /\ Parent[m] \in Nat /\ Parent[m] < m
      BY <2>3, <2>5, ParentFacts
    <2>7. Parent[m] \notin Differ
      BY <2>2, <2>3, <2>6
    <2>8. Parent[m] <= n
      BY <2>3, <2>6
    <2>9. f[Parent[m]] = g[Parent[m]]
      BY <2>6, <2>7, <2>8 DEF Differ
    <2> QED BY <2>3, <2>4, <2>5, <2>9 DEF DepthFrom
  <1> DEFINE level(n) == CHOOSE f \in [Records -> Nat] : UpTo(f, n)
             whole == [r \in Records |-> level(r)[r]]
  <1>7. \A n \in Nat : level(n) \in [Records -> Nat] /\ UpTo(level(n), n)
    BY <1>5
  <1> HIDE DEF level
  <1>8. whole \in [Records -> Nat]
    BY <1>7, ParentFacts
  <1>9. ASSUME NEW r \in Records PROVE whole[r] = DepthFrom(whole, r)
    <2>1. r \in Nat /\ level(r) \in [Records -> Nat] /\ level(r)[r] = DepthFrom(level(r), r)
      BY <1>7, ParentFacts
    <2>2. CASE Parent[r] = 0
      BY <2>1, <2>2 DEF DepthFrom
    <2>3. CASE Parent[r] # 0
      <3> DEFINE q == Parent[r]
      <3>1. q \in Records /\ q \in Nat /\ q < r
        BY <2>3, ParentFacts
      <3>2. level(q) \in [Records -> Nat] /\ UpTo(level(q), q)
        BY <1>7, <3>1
      <3>3. UpTo(level(r), q)
        <4> SUFFICES ASSUME NEW s \in Records, s <= q PROVE level(r)[s] = DepthFrom(level(r), s)
          OBVIOUS
        <4>1. s <= r
          BY <2>1, <3>1, ParentFacts
        <4> QED BY <1>7, <2>1, <4>1
      <3>4. level(q)[q] = level(r)[q]
        BY <1>6, <2>1, <3>1, <3>2, <3>3
      <3> QED BY <2>1, <2>3, <3>1, <3>4 DEF DepthFrom
    <2> QED BY <2>2, <2>3
  <1>10. whole = [r \in Records |-> DepthFrom(whole, r)]
    BY <1>9
  <1> QED BY <1>8, <1>10

LEMMA TrueDepthUnfolds ==
    /\ \A r \in Records : TrueDepth[r] = IF Parent[r] = 0 THEN 1 ELSE TrueDepth[Parent[r]] + 1
    /\ \A r \in Records : TrueDepth[r] \in Nat \ {0}
    /\ \A r \in Records : Parent[r] # 0 => TrueDepth[r] >= 2
  <1> DEFINE solves(f) == f = [r \in Records |-> DepthFrom(f, r)]
  <1>1. PICK f : solves(f) /\ f \in [Records -> Nat]
    BY DepthExists
  <1>2. TrueDepth = CHOOSE g : solves(g)
    BY DEF TrueDepth, DepthFrom
  <1>3. solves(TrueDepth)
    BY <1>1, <1>2
  <1>4. \A r \in Records : TrueDepth[r] = DepthFrom(TrueDepth, r)
    BY <1>3
  <1> DEFINE Bad == {r \in Records : TrueDepth[r] \notin Nat}
  <1>5. Bad = {}
    <2> SUFFICES ASSUME Bad # {} PROVE FALSE
      OBVIOUS
    <2>1. Bad \in SUBSET Nat
      BY ParentFacts
    <2>2. PICK m \in Bad : \A k \in Bad : m <= k
      <3> HIDE DEF Bad
      <3> QED BY <2>1, LeastOf
    <2>3. TrueDepth[m] = DepthFrom(TrueDepth, m) /\ m \in Records /\ m \in Nat
      BY <1>4, <2>1
    <2>4. Parent[m] # 0
      BY <2>3 DEF DepthFrom
    <2>5. Parent[m] \in Records /\ Parent[m] \in Nat /\ Parent[m] < m
      BY <2>3, <2>4, ParentFacts
    <2>6. Parent[m] \notin Bad
      <3> HIDE DEF Bad
      <3> QED BY <2>2, <2>3, <2>5
    <2> QED BY <2>3, <2>4, <2>5, <2>6 DEF DepthFrom
  <1>6. \A r \in Records : TrueDepth[r] \in Nat
    BY <1>5
  <1>7. ASSUME NEW r \in Records PROVE TrueDepth[r] # 0 /\ (Parent[r] # 0 => TrueDepth[r] >= 2)
    <2>1. CASE Parent[r] = 0
      BY <1>4, <2>1 DEF DepthFrom
    <2>2. CASE Parent[r] # 0
      <3> DEFINE q == Parent[r]
      <3>1. q \in Records /\ TrueDepth[r] = TrueDepth[q] + 1
        BY <1>4, <2>2, ParentFacts DEF DepthFrom
      <3>2. TrueDepth[q] \in Nat /\ TrueDepth[q] # 0
        <4>1. TrueDepth[q] = DepthFrom(TrueDepth, q)
          BY <1>4, <3>1
        <4>2. CASE Parent[q] = 0
          BY <4>1, <4>2 DEF DepthFrom
        <4>3. CASE Parent[q] # 0
          <5>1. Parent[q] \in Records
            BY <3>1, <4>3, ParentFacts
          <5>2. TrueDepth[Parent[q]] \in Nat /\ TrueDepth[q] = TrueDepth[Parent[q]] + 1
            BY <1>6, <4>1, <4>3, <5>1 DEF DepthFrom
          <5> QED BY <5>2
        <4> QED BY <4>2, <4>3
      <3> QED BY <3>1, <3>2
    <2> QED BY <2>1, <2>2
  <1> QED BY <1>4, <1>6, <1>7 DEF DepthFrom

\* The largest supported set solves the recursion of InOrder.
LEMMA InOrderSupported ==
    ASSUME NEW e \in Expressions, applied \in Seq(Events)
    PROVE Supported(e, {i \in 1 .. Len(applied) : InOrder(e)[i]})
  <1> DEFINE S == 1 .. Len(applied)
             body(f, i) ==
               /\ e \in applied[i].expressions
               /\ \/ applied[i].parent = 0
                  \/ \E j \in 1 .. i - 1 : applied[j].record = applied[i].parent /\ f[j]
             solves(f) == f = [i \in S |-> body(f, i)]
             most == {i \in S : \E L \in SUBSET S : Supported(e, L) /\ i \in L}
             largest == [i \in S |-> i \in most]
  <1>0. Len(applied) \in Nat /\ \A i \in S : i \in Nat /\ 1 .. i - 1 \subseteq S
    OBVIOUS
  <1>1. most \in SUBSET S /\ Supported(e, most)
    BY DEF Supported
  <1>2. ASSUME NEW i \in S PROVE (i \in most) <=> body(largest, i)
    <2>1. \A j \in 1 .. i - 1 : largest[j] <=> j \in most
      BY <1>0
    <2>2. ASSUME i \in most PROVE body(largest, i)
      <3>1. /\ e \in applied[i].expressions
            /\ applied[i].parent = 0 \/ \E j \in most : j < i /\ applied[j].record = applied[i].parent
        BY <1>1, <2>2 DEF Supported
      <3>2. \A j \in most : j < i => j \in 1 .. i - 1
        BY <1>0, <1>1
      <3> HIDE DEF most
      <3> QED BY <2>1, <3>1, <3>2
    <2>3. ASSUME body(largest, i) PROVE i \in most
      <3>1. \A j \in 1 .. i - 1 : j < i /\ j \in S
        BY <1>0
      <3>2. /\ e \in applied[i].expressions
            /\ applied[i].parent = 0 \/ \E j \in most : j < i /\ applied[j].record = applied[i].parent
        <4> HIDE DEF most, largest
        <4> QED BY <2>1, <2>3, <3>1
      <3>3. Supported(e, most \cup {i}) /\ most \cup {i} \in SUBSET S
        <4> HIDE DEF most
        <4> QED BY <1>1, <3>2 DEF Supported
      <3> QED BY <3>3
    <2> HIDE DEF most, largest, body
    <2> QED BY <2>2, <2>3
  <1>3. solves(largest)
    <2> HIDE DEF most, body
    <2>1. largest = [i \in S |-> i \in most]
      OBVIOUS
    <2> HIDE DEF largest
    <2>2. \A i \in S : (i \in most) = body(largest, i)
      <3> SUFFICES ASSUME NEW i \in S PROVE (i \in most) = body(largest, i)
        OBVIOUS
      <3> USE DEF body
      <3>1. (i \in most) <=> body(largest, i)
        BY <1>2
      <3>2. (i \in most) \in BOOLEAN /\ body(largest, i) \in BOOLEAN
        OBVIOUS
      <3> HIDE DEF body
      <3> QED BY <3>1, <3>2, Zenon
    <2> QED BY <2>1, <2>2
  <1>4. InOrder(e) = CHOOSE f : solves(f)
    BY DEF InOrder
  <1>5. solves(InOrder(e))
    <2> HIDE DEF solves
    <2> QED BY <1>3, <1>4
  <1> DEFINE g == InOrder(e)
             L == {i \in S : g[i]}
  <1>6. ASSUME NEW i \in L
        PROVE /\ e \in applied[i].expressions
              /\ applied[i].parent = 0 \/ \E j \in L : j < i /\ applied[j].record = applied[i].parent
    <2> HIDE DEF g
    <2>1. g = [k \in S |-> body(g, k)]
      BY <1>5 DEF g
    <2>2. i \in S /\ g[i] /\ g[i] = body(g, i)
      BY <2>1
    <2>3. body(g, i)
      BY <2>2
    <2>4. \A j \in 1 .. i - 1 : j < i /\ j \in S
      BY <1>0, <2>2
    <2> QED BY <2>3, <2>4
  <1> QED BY <1>6 DEF Supported

-----------------------------------------------------------------------------
(* The invariant.                                                          *)

LEMMA EventFacts ==
    ASSUME NEW v \in Events
    PROVE /\ v.record = 0 \/ (v.record \in Records /\ v.record # 0 /\ v.parent = Parent[v.record])
          /\ v.parent = 0 \/ (v.parent \in Records /\ v.parent # 0)
          /\ v.cascade \in Records
          /\ EventDepth(v) \in Nat \ {0}
          /\ v.record # 0 => EventDepth(v) = TrueDepth[v.record]
  <1>1. /\ v.record \in Records \cup {0} /\ v.parent \in Records \cup {0} /\ v.cascade \in Records
        /\ v.record # 0 => v.parent = Parent[v.record]
    BY BehaviorAssumption DEF BehaviorAssumption, EventType
  <1>2. v.parent # 0 => TrueDepth[v.parent] \in Nat
    BY <1>1, TrueDepthUnfolds
  <1>3. EventDepth(v) \in Nat \ {0}
    BY <1>2 DEF EventDepth
  <1>4. v.record # 0 => EventDepth(v) = TrueDepth[v.record]
    BY <1>1, TrueDepthUnfolds DEF EventDepth
  <1> QED BY <1>1, <1>3, <1>4, ParentFacts

\* own_depth is at most the depth of the event, and at least 2 below a parent.
LEMMA OwnDepthBounds ==
    ASSUME NEW e \in Expressions, KnownRecords(e), NEW v \in Events
    PROVE /\ OwnDepth(e, v) \in Nat \ {0} /\ OwnDepth(e, v) <= EventDepth(v)
          /\ v.parent # 0 => OwnDepth(e, v) >= 2
  <1>1. CASE v.parent = 0
    BY <1>1 DEF OwnDepth, EventDepth
  <1>2. CASE v.parent # 0 /\ v.parent \in DOMAIN depthOf[e]
    <2>1. depthOf[e][v.parent] \in Nat \ {0} /\ depthOf[e][v.parent] <= TrueDepth[v.parent]
      BY <1>2 DEF KnownRecords
    <2>2. TrueDepth[v.parent] \in Nat
      BY <1>2, EventFacts, TrueDepthUnfolds
    <2> QED BY <1>2, <2>1, <2>2 DEF OwnDepth, EventDepth
  <1>3. CASE v.parent # 0 /\ v.parent \notin DOMAIN depthOf[e]
    <2>1. TrueDepth[v.parent] \in Nat \ {0}
      BY <1>3, EventFacts, TrueDepthUnfolds
    <2> QED BY <1>3, <2>1 DEF OwnDepth, EventDepth
  <1> QED BY <1>1, <1>2, <1>3

LEMMA BehaviorInitInv == BehaviorInit => BehaviorInv
  <1> SUFFICES ASSUME BehaviorInit PROVE BehaviorInv
    OBVIOUS
  <1>1. ASSUME NEW e \in Expressions PROVE KnownRecords(e) /\ KnownCascades(e)
    <2>1. depthOf[e] = <<>> /\ cascades[e] = [c \in Records |-> NoCascade] /\ NoCascade.depth = 0
      BY DEF BehaviorInit, NoCascade
    <2>2. DOMAIN depthOf[e] = {}
      BY <2>1
    <2> HIDE DEF NoCascade
    <2> QED BY <2>1, <2>2 DEF KnownRecords, KnownCascades
  <1>2. applied = <<>> /\ tape = <<>> /\ cursor = 0
    BY DEF BehaviorInit
  <1>3. 1 .. Len(applied) = {}
    BY <1>2
  <1>4. DOMAIN depthOf = Expressions /\ DOMAIN cascades = Expressions
    BY DEF BehaviorInit
  <1> QED BY <1>1, <1>2, <1>3, <1>4 DEF BehaviorInv

\* What an event does to one expression.
LEMMA AppliedTo ==
    ASSUME BehaviorInv, NEW v \in Events, Apply(v), NEW e \in Expressions
    PROVE /\ e \notin v.expressions => depthOf'[e] = depthOf[e] /\ cascades'[e] = cascades[e]
          /\ e \in v.expressions =>
               /\ v.record = 0 => depthOf'[e] = depthOf[e]
               /\ v.record # 0 =>
                    /\ DOMAIN depthOf'[e] = DOMAIN depthOf[e] \cup {v.record}
                    /\ depthOf'[e][v.record] = OwnDepth(e, v)
                    /\ \A r \in DOMAIN depthOf[e] : r # v.record => depthOf'[e][r] = depthOf[e][r]
               /\ DOMAIN cascades'[e] = Records
               /\ cascades'[e][v.cascade].depth = Larger(cascades[e][v.cascade].depth, OwnDepth(e, v))
               /\ \A c \in Records : c # v.cascade => cascades'[e][c] = cascades[e][c]
  <1>1. e \notin v.expressions => depthOf'[e] = depthOf[e] /\ cascades'[e] = cascades[e]
    BY DEF Apply
  <1>2. ASSUME e \in v.expressions, v.record # 0
        PROVE depthOf'[e] = [r \in DOMAIN depthOf[e] \cup {v.record} |->
                               IF r = v.record THEN OwnDepth(e, v) ELSE depthOf[e][r]]
    BY <1>2 DEF Apply
  <1>3. e \in v.expressions /\ v.record = 0 => depthOf'[e] = depthOf[e]
    BY DEF Apply
  <1>4. ASSUME e \in v.expressions
        PROVE cascades'[e] = [cascades[e] EXCEPT ![v.cascade] = Grown(e, v)]
    BY <1>4 DEF Apply
  <1>5. Grown(e, v).depth = Larger(cascades[e][v.cascade].depth, OwnDepth(e, v))
    BY DEF Grown
  <1>6. DOMAIN cascades[e] = Records /\ v.cascade \in Records
    BY EventFacts DEF BehaviorInv, KnownCascades
  <1> HIDE DEF Grown, OwnDepth
  <1> QED BY <1>1, <1>2, <1>3, <1>4, <1>5, <1>6

LEMMA RecordsStep ==
    ASSUME BehaviorInv, NEW v \in Events, Apply(v), NEW e \in Expressions
    PROVE KnownRecords(e)'
  <1>1. KnownRecords(e)
    BY DEF BehaviorInv
  <1>2. CASE depthOf'[e] = depthOf[e]
    BY <1>1, <1>2 DEF KnownRecords
  <1>3. CASE e \in v.expressions /\ v.record # 0
    <2>1. /\ DOMAIN depthOf'[e] = DOMAIN depthOf[e] \cup {v.record}
          /\ depthOf'[e][v.record] = OwnDepth(e, v)
          /\ \A r \in DOMAIN depthOf[e] : r # v.record => depthOf'[e][r] = depthOf[e][r]
      BY <1>3, AppliedTo
    <2>2. /\ v.record \in Records /\ v.parent = Parent[v.record] /\ EventDepth(v) = TrueDepth[v.record]
      BY <1>3, EventFacts
    <2>3. /\ OwnDepth(e, v) \in Nat \ {0} /\ OwnDepth(e, v) <= TrueDepth[v.record]
          /\ Parent[v.record] # 0 => OwnDepth(e, v) >= 2
      BY <1>1, <2>2, OwnDepthBounds
    <2> QED BY <1>1, <2>1, <2>2, <2>3 DEF KnownRecords
  <1> QED BY <1>2, <1>3, AppliedTo

LEMMA LargerFacts ==
    ASSUME NEW m \in Nat, NEW n \in Nat
    PROVE /\ Larger(m, n) \in {m, n} /\ Larger(m, n) \in Nat
          /\ m <= Larger(m, n) /\ n <= Larger(m, n)
  BY DEF Larger

LEMMA CascadesStep ==
    ASSUME BehaviorInv, NEW v \in Events, Apply(v), NEW e \in Expressions
    PROVE /\ KnownCascades(e)'
          /\ \A c \in Records : cascades[e][c].depth <= cascades'[e][c].depth
  <1>1. KnownRecords(e) /\ KnownCascades(e) /\ applied \in Seq(Events)
    BY DEF BehaviorInv
  <1>2. applied' = Append(applied, v)
    BY DEF Apply
  <1>3. /\ Len(applied) \in Nat /\ Len(applied') = Len(applied) + 1 /\ applied'[Len(applied) + 1] = v
        /\ \A i \in 1 .. Len(applied) : applied'[i] = applied[i]
    BY <1>1, <1>2
  <1>4. \A i \in 1 .. Len(applied) : i \in 1 .. Len(applied')
    BY <1>3
  <1>5. Len(applied) + 1 \in 1 .. Len(applied')
    BY <1>3
  <1>6. ASSUME NEW c \in Records, cascades'[e][c] = cascades[e][c]
        PROVE /\ cascades'[e][c].depth \in Nat
              /\ cascades'[e][c].depth # 0 =>
                    \E i \in 1 .. Len(applied') :
                       /\ applied'[i].cascade = c /\ e \in applied'[i].expressions
                       /\ cascades'[e][c].depth <= EventDepth(applied'[i])
              /\ cascades[e][c].depth <= cascades'[e][c].depth
    BY <1>1, <1>3, <1>4, <1>6 DEF KnownCascades
  <1>7. CASE e \notin v.expressions
    <2>1. cascades'[e] = cascades[e]
      BY <1>7, AppliedTo
    <2> QED BY <1>1, <1>6, <2>1 DEF KnownCascades
  <1>8. CASE e \in v.expressions
    <2> DEFINE old == cascades[e][v.cascade].depth
               own == OwnDepth(e, v)
               deep == cascades'[e][v.cascade].depth
    <2>1. /\ DOMAIN cascades'[e] = Records /\ deep = Larger(old, own)
          /\ \A c \in Records : c # v.cascade => cascades'[e][c] = cascades[e][c]
      BY <1>8, AppliedTo
    <2>2. v.cascade \in Records /\ old \in Nat
      BY <1>1, EventFacts DEF KnownCascades
    <2>3. own \in Nat /\ own <= EventDepth(v)
      BY <1>1, OwnDepthBounds
    <2> HIDE DEF own
    <2>4. deep \in {old, own} /\ deep \in Nat /\ old <= deep
      BY <2>1, <2>2, <2>3, LargerFacts
    <2>5. deep # 0 =>
             \E i \in 1 .. Len(applied') :
                /\ applied'[i].cascade = v.cascade /\ e \in applied'[i].expressions
                /\ deep <= EventDepth(applied'[i])
      <3>1. CASE deep = own
        BY <1>3, <1>5, <1>8, <2>3, <3>1
      <3>2. CASE deep = old
        <4> HIDE DEF deep
        <4> QED BY <1>1, <1>3, <1>4, <2>2, <3>2 DEF KnownCascades
      <3> QED BY <2>4, <3>1, <3>2
    <2>6. ASSUME NEW c \in Records
          PROVE /\ cascades'[e][c].depth \in Nat
                /\ cascades'[e][c].depth # 0 =>
                      \E i \in 1 .. Len(applied') :
                         /\ applied'[i].cascade = c /\ e \in applied'[i].expressions
                         /\ cascades'[e][c].depth <= EventDepth(applied'[i])
                /\ cascades[e][c].depth <= cascades'[e][c].depth
      BY <1>6, <2>1, <2>4, <2>5
    <2> QED BY <2>1, <2>6 DEF KnownCascades, EventDepth
  <1> QED BY <1>7, <1>8

\* An event of a supported set stays exact, and the next one is.
LEMMA ExactStep ==
    ASSUME BehaviorInv, NEW v \in Events, Apply(v), NEW e \in Expressions,
           NEW L \in SUBSET (1 .. Len(applied')), Supported(e, L)'
    PROVE \A i \in L : Exact(e, applied[i])'
  <1> DEFINE n == Len(applied)
             before == L \ {n + 1}
  <1>1. /\ n \in Nat /\ Len(applied') = n + 1 /\ applied'[n + 1] = v
        /\ \A i \in 1 .. n : applied'[i] = applied[i] /\ applied[i] \in Events
    BY DEF BehaviorInv, Apply
  <1>2. before \in SUBSET (1 .. n)
    <2>1. L \in SUBSET (1 .. n + 1)
      BY <1>1
    <2> HIDE DEF n
    <2>2. \A i \in 1 .. n + 1 : i # n + 1 => i \in 1 .. n
      BY ONLY <1>1
    <2> QED BY ONLY <2>1, <2>2 DEF before
  <1>3. \A i \in L : /\ e \in applied'[i].expressions
                     /\ \/ applied'[i].parent = 0
                        \/ \E j \in L : j < i /\ applied'[j].record = applied'[i].parent
    BY DEF Supported
  <1>4. Supported(e, before)
    <2> SUFFICES ASSUME NEW i \in before
                 PROVE /\ e \in applied[i].expressions
                       /\ \/ applied[i].parent = 0
                          \/ \E j \in before : j < i /\ applied[j].record = applied[i].parent
      BY DEF Supported
    <2>1. i \in 1 .. n /\ i \in L /\ applied'[i] = applied[i]
      BY <1>1, <1>2
    <2>2. ASSUME applied[i].parent # 0
          PROVE \E j \in before : j < i /\ applied[j].record = applied[i].parent
      <3>1. PICK j \in L : j < i /\ applied'[j].record = applied[i].parent
        BY <1>3, <2>1, <2>2
      <3>2. j \in before /\ j \in 1 .. n
        BY <1>1, <1>2, <2>1, <3>1
      <3> QED BY <1>1, <3>1, <3>2
    <2> HIDE DEF before
    <2> QED BY <1>3, <2>1, <2>2
  <1>5. \A i \in before : Exact(e, applied[i])
    BY <1>2, <1>4 DEF BehaviorInv
  <1>6. KnownRecords(e) /\ KnownCascades(e)
    BY DEF BehaviorInv
  <1>7. ASSUME n + 1 \in L PROVE OwnDepth(e, v) = EventDepth(v) /\ e \in v.expressions
    <2>1. /\ e \in v.expressions
          /\ v.parent = 0 \/ \E j \in L : j < n + 1 /\ applied'[j].record = v.parent
      BY <1>1, <1>3, <1>7
    <2>2. CASE v.parent = 0
      BY <2>1, <2>2 DEF OwnDepth, EventDepth
    <2>3. CASE v.parent # 0
      <3>1. PICK j \in L : j < n + 1 /\ applied'[j].record = v.parent
        BY <2>1, <2>3
      <3>2. j \in before /\ j \in 1 .. n
        BY <1>1, <1>2, <3>1
      <3>3. applied[j] \in Events /\ applied[j].record = v.parent /\ Exact(e, applied[j])
        BY <1>1, <1>5, <3>1, <3>2
      <3>4. v.parent \in DOMAIN depthOf[e] /\ depthOf[e][v.parent] = TrueDepth[v.parent]
        BY <2>3, <3>3, EventFacts DEF Exact
      <3> QED BY <2>1, <2>3, <3>4 DEF OwnDepth, EventDepth
    <2> QED BY <2>2, <2>3
  <1>8. ASSUME NEW i \in L
        PROVE LET u == applied'[i] IN
              /\ u.record # 0 => u.record \in DOMAIN depthOf'[e] /\ depthOf'[e][u.record] = EventDepth(u)
              /\ cascades'[e][u.cascade].depth >= EventDepth(u)
    <2>1. CASE i = n + 1
      <3>1. e \in v.expressions /\ OwnDepth(e, v) = EventDepth(v) /\ EventDepth(v) \in Nat
        BY <1>7, <2>1, EventFacts
      <3>2. v.cascade \in Records /\ cascades[e][v.cascade].depth \in Nat
        BY <1>6, EventFacts DEF KnownCascades
      <3>3. cascades'[e][v.cascade].depth = Larger(cascades[e][v.cascade].depth, EventDepth(v))
        BY <3>1, AppliedTo
      <3>4. cascades'[e][v.cascade].depth >= EventDepth(v)
        BY <3>1, <3>2, <3>3, LargerFacts
      <3>5. v.record # 0 => v.record \in DOMAIN depthOf'[e] /\ depthOf'[e][v.record] = EventDepth(v)
        BY <3>1, AppliedTo
      <3> QED BY <1>1, <2>1, <3>4, <3>5
    <2>2. CASE i # n + 1
      <3> DEFINE u == applied[i]
      <3>1. i \in before /\ i \in 1 .. n
        BY <1>2, <2>2
      <3>2. u \in Events /\ applied'[i] = u /\ Exact(e, u)
        BY <1>1, <1>5, <3>1
      <3> HIDE DEF u
      <3>3. u.cascade \in Records /\ EventDepth(u) \in Nat
        BY <3>2, EventFacts
      <3>4. cascades[e][u.cascade].depth \in Nat /\ cascades[e][u.cascade].depth >= EventDepth(u)
        BY <1>6, <3>2, <3>3 DEF KnownCascades, Exact
      <3>5. /\ cascades[e][u.cascade].depth <= cascades'[e][u.cascade].depth
            /\ cascades'[e][u.cascade].depth \in Nat
        BY <3>3, CascadesStep DEF KnownCascades
      <3>6. cascades'[e][u.cascade].depth >= EventDepth(u)
        BY <3>3, <3>4, <3>5
      <3>7. ASSUME u.record # 0
            PROVE u.record \in DOMAIN depthOf'[e] /\ depthOf'[e][u.record] = EventDepth(u)
        <4>1. u.record \in DOMAIN depthOf[e] /\ depthOf[e][u.record] = EventDepth(u)
          BY <3>2, <3>7 DEF Exact
        <4>2. CASE e \notin v.expressions \/ v.record = 0 \/ v.record # u.record
          BY <4>1, <4>2, AppliedTo
        <4>3. CASE e \in v.expressions /\ v.record # 0 /\ v.record = u.record
          <5>1. u.parent = v.parent /\ EventDepth(u) = EventDepth(v)
            BY <3>2, <3>7, <4>3, EventFacts
          <5>2. OwnDepth(e, v) = EventDepth(v)
            <6>1. CASE v.parent = 0
              BY <6>1 DEF OwnDepth, EventDepth
            <6>2. CASE v.parent # 0
              <7>1. PICK j \in before : j < i /\ applied[j].record = u.parent
                BY <1>4, <3>1, <5>1, <6>2 DEF Supported, u
              <7>2. applied[j] \in Events /\ Exact(e, applied[j])
                BY <1>1, <1>2, <1>5, <7>1
              <7>3. v.parent \in DOMAIN depthOf[e] /\ depthOf[e][v.parent] = TrueDepth[v.parent]
                BY <5>1, <6>2, <7>1, <7>2, EventFacts DEF Exact
              <7> QED BY <6>2, <7>3 DEF OwnDepth, EventDepth
            <6> QED BY <6>1, <6>2
          <5> QED BY <4>3, <5>1, <5>2, AppliedTo
        <4> QED BY <4>2, <4>3
      <3> QED BY <3>2, <3>6, <3>7
    <2> QED BY <2>1, <2>2
  <1> QED BY <1>8 DEF Exact, EventDepth

LEMMA BehaviorStep == BehaviorInv /\ [BehaviorNext]_behaviorVars => BehaviorInv'
  <1> SUFFICES ASSUME BehaviorInv, [BehaviorNext]_behaviorVars PROVE BehaviorInv'
    OBVIOUS
  <1>1. CASE UNCHANGED <<states, applied>> /\ tape' \in Seq(Events) /\ cursor' \in Nat
    <2>1. UNCHANGED <<depthOf, cascades, applied>>
      BY <1>1 DEF states
    <2>2. \A e \in Expressions : KnownRecords(e)' /\ KnownCascades(e)'
      BY <2>1 DEF BehaviorInv, KnownRecords, KnownCascades
    <2>3. \A e \in Expressions : \A L \in SUBSET (1 .. Len(applied')) :
            Supported(e, L)' => \A i \in L : Exact(e, applied[i])'
      BY <2>1 DEF BehaviorInv, Supported, Exact
    <2> QED BY <1>1, <2>1, <2>2, <2>3 DEF BehaviorInv
  <1>2. CASE ~Exhausted /\ Apply(tape[cursor + 1]) /\ cursor' = cursor + 1 /\ tape' = tape
    <2> DEFINE v == tape[cursor + 1]
    <2>1. v \in Events
      BY <1>2 DEF BehaviorInv, Exhausted
    <2> HIDE DEF v
    <2>2. Apply(v)
      BY <1>2 DEF v
    <2>3. \A e \in Expressions : KnownRecords(e)' /\ KnownCascades(e)'
      BY <2>1, <2>2, RecordsStep, CascadesStep
    <2>4. \A e \in Expressions : \A L \in SUBSET (1 .. Len(applied')) :
            Supported(e, L)' => \A i \in L : Exact(e, applied[i])'
      BY <2>1, <2>2, ExactStep
    <2>5. applied' \in Seq(Events) /\ DOMAIN depthOf' = Expressions /\ DOMAIN cascades' = Expressions
      BY <2>1, <2>2 DEF BehaviorInv, Apply
    <2>6. tape' \in Seq(Events) /\ cursor' \in Nat
      BY <1>2 DEF BehaviorInv
    <2> QED BY <2>3, <2>4, <2>5, <2>6 DEF BehaviorInv
  <1>3. CASE LoadReplay
    <2>1. UNCHANGED <<states, applied>> /\ cursor' = 0
      BY <1>3 DEF LoadReplay
    <2>2. tape' \in SeqOf(Events, MaxApplied - Len(applied))
      BY <1>3 DEF LoadReplay
    <2>3. tape' \in Seq(Events)
      BY <2>2 DEF SeqOf
    <2> QED BY <1>1, <2>1, <2>3
  <1>4. CASE StepReplay
    <2>1. CASE Exhausted
      BY <1>1, <1>4, <2>1 DEF StepReplay, BehaviorInv
    <2>2. CASE ~Exhausted
      BY <1>2, <1>4, <2>2 DEF StepReplay
    <2> QED BY <2>1, <2>2
  <1>5. CASE Run \/ Pause \/ Resume
    BY <1>1, <1>5 DEF Run, Pause, Resume, BehaviorInv
  <1>6. CASE UNCHANGED behaviorVars
    BY <1>1, <1>6 DEF behaviorVars, BehaviorInv
  <1> QED BY <1>3, <1>4, <1>5, <1>6 DEF BehaviorNext

\* BehaviorAccumulator::apply(): for every forest of records, and whatever
\* arrives late, twice or never, no depth is overstated, no child is a root, and
\* what arrived in order is measured exactly, and stays so.
THEOREM DepthIsAlwaysEarned ==
    BehaviorInit /\ [][BehaviorNext]_behaviorVars => []DepthIsEarned
  <1>1. BehaviorInv => DepthIsEarned
    <2> SUFFICES ASSUME BehaviorInv, NEW e \in Expressions
                 PROVE /\ \A r \in DOMAIN depthOf[e] :
                            depthOf[e][r] <= TrueDepth[r] /\ (Parent[r] # 0 => depthOf[e][r] >= 2)
                       /\ \A i \in 1 .. Len(applied) : InOrder(e)[i] =>
                            /\ applied[i].record # 0 => depthOf[e][applied[i].record] = EventDepth(applied[i])
                            /\ cascades[e][applied[i].cascade].depth >= EventDepth(applied[i])
                       /\ \A c \in Records : cascades[e][c].depth # 0 =>
                            \E i \in 1 .. Len(applied) :
                               /\ applied[i].cascade = c /\ e \in applied[i].expressions
                               /\ cascades[e][c].depth <= EventDepth(applied[i])
      BY DEF DepthIsEarned, EventDepth
    <2>1. KnownRecords(e) /\ KnownCascades(e) /\ applied \in Seq(Events)
      BY DEF BehaviorInv
    <2> DEFINE L == {i \in 1 .. Len(applied) : InOrder(e)[i]}
    <2>2. Supported(e, L) /\ L \in SUBSET (1 .. Len(applied))
      BY <2>1, InOrderSupported
    <2>3. \A i \in L : Exact(e, applied[i])
      <3> HIDE DEF L
      <3> QED BY <2>2 DEF BehaviorInv
    <2>4. \A i \in 1 .. Len(applied) : InOrder(e)[i] => Exact(e, applied[i])
      BY <2>3
    <2> QED BY <2>1, <2>4 DEF KnownRecords, KnownCascades, Exact
  <1>2. BehaviorInit => BehaviorInv
    BY BehaviorInitInv
  <1> QED BY <1>1, <1>2, BehaviorStep, PTL

-----------------------------------------------------------------------------
(***************************************************************************)
(* The wealth of a backtest is explained for any assets, prices, targets   *)
(* and fee.  A bar moves the wealth by what the prices earned on what was  *)
(* held, as every notional leaves the cash it brings into the positions;   *)
(* only the fees are lost.  What a bar leaves unpriced it does not trade,  *)
(* so the curve lacks just that.                                           *)
(***************************************************************************)
WealthTypes ==
    /\ cash \in Int /\ turnover \in Int /\ shown \in Int /\ gain \in Int
    /\ held \in [Portfolio -> Int] /\ known \in [Portfolio -> Int]
    /\ quoted \in SUBSET Portfolio

WealthInv == WealthTypes /\ WealthIsExplained

\* Multiplication distributes.
LEMMA Distributes == \A a, b, c \in Int : a * (b + c) = a * b + a * c /\ a * (b - c) = a * b - a * c
  OBVIOUS

\* Positions are worth an integer.
LEMMA WorthType ==
    ASSUME NEW positions \in [Portfolio -> Int], NEW prices \in [Portfolio -> Int]
    PROVE  Worth(positions, prices) \in Int
  <1> DEFINE worths == [a \in Portfolio |-> positions[a] * prices[a]]
  <1>1. worths \in [Portfolio -> Int]
    OBVIOUS
  <1> HIDE DEF worths
  <1>2. SumFunction(worths) \in Int
    BY <1>1, TotalType, PortfolioAssumption
  <1> QED BY <1>2, PortfolioAssumption DEF Worth, worths

\* A rebalance leaves whole positions, and an asset without a price alone.
LEMMA RebalancedType ==
    ASSUME WealthTypes, NEW prices \in [Portfolio -> Nat],
           NEW some \in SUBSET Portfolio, NEW targets \in [some -> TargetHalves]
    PROVE  /\ Rebalanced(prices, targets) \in [Portfolio -> Int]
           /\ \A a \in Portfolio : prices[a] = 0 => Rebalanced(prices, targets)[a] = held[a]
  <1> DEFINE equity == cash + Worth(held, prices)
             bought(a) == (equity * targets[a]) \div (2 * FeeDivisor * prices[a])
             next(a) == IF prices[a] = 0 THEN held[a] ELSE IF a \in DOMAIN targets THEN bought(a) ELSE 0
  <1>1. equity \in Int
    BY WorthType DEF WealthTypes
  <1> HIDE DEF equity
  <1>2. ASSUME NEW a \in Portfolio, prices[a] # 0, a \in DOMAIN targets
        PROVE  bought(a) \in Int
    <2>1. equity * targets[a] \in Int
      BY <1>1, <1>2, PortfolioAssumption
    <2>2. 2 * FeeDivisor * prices[a] \in Nat \ {0}
      <3>1. \A x, y \in Nat \ {0} : 2 * x * y \in Nat \ {0}
        OBVIOUS
      <3> QED BY <1>2, <3>1, PortfolioAssumption
    <2>3. \A x \in Int, y \in Nat \ {0} : x \div y \in Int
      OBVIOUS
    <2> QED BY <2>1, <2>2, <2>3
  <1> HIDE DEF bought
  <1>3. \A a \in Portfolio : next(a) \in Int
    BY <1>2 DEF WealthTypes
  <1>4. Rebalanced(prices, targets) = [a \in Portfolio |-> next(a)]
    BY DEF Rebalanced, equity, bought
  <1> QED BY <1>3, <1>4

\* A bar that trades only what it has a price for.
LEMMA BarExplained ==
    ASSUME WealthInv, NEW prices \in [Portfolio -> Nat], NEW after \in [Portfolio -> Int],
           \A a \in Portfolio : prices[a] = 0 => after[a] = held[a],
           Trade(prices, after),
           shown' = cash' + Worth(held', prices),
           quoted' = {a \in Portfolio : prices[a] # 0},
           known' = [a \in Portfolio |-> IF prices[a] = 0 THEN known[a] ELSE prices[a]],
           gain' = gain + SumFunction([a \in Portfolio |-> held[a] * (known'[a] - known[a])])
    PROVE  WealthInv'
  <1> DEFINE notional == [a \in Portfolio |-> (after[a] - held[a]) * prices[a]]
             dealt == [a \in Portfolio |-> Absolute(notional[a])]
             scaled == [a \in Portfolio |-> FeeDivisor * notional[a]]
             paid == [a \in Portfolio |-> scaled[a] + dealt[a]]
             before == [a \in Portfolio |-> held[a] * known[a]]
             earned == [a \in Portfolio |-> held[a] * (known'[a] - known[a])]
             moved == [a \in Portfolio |-> before[a] + earned[a]]
             valued == [a \in Portfolio |-> after[a] * known'[a]]
             curve == [a \in Portfolio |-> after[a] * prices[a]]
             gap == [a \in Portfolio |-> valued[a] - curve[a]]
             missing == [a \in Portfolio \ quoted' |-> after[a] * known'[a]]
             T == [Portfolio -> Int]
  <1>1. /\ IsFiniteSet(Portfolio) /\ FeeDivisor \in Int /\ InitialCash \in Int
        /\ held \in T /\ known \in T /\ known' \in T /\ held' = after
    BY PortfolioAssumption DEF WealthInv, WealthTypes, Trade
  <1>2. /\ notional \in T /\ scaled \in T /\ before \in T /\ earned \in T /\ valued \in T /\ curve \in T
        /\ dealt \in T
    <2>1. notional \in T /\ before \in T /\ earned \in T /\ valued \in T /\ curve \in T
      BY <1>1
    <2> HIDE DEF notional
    <2>2. scaled \in T
      BY <1>1, <2>1
    <2>3. dealt \in T
      BY <2>1 DEF Absolute
    <2> QED BY <2>1, <2>2, <2>3
  <1>3. moved \in T /\ gap \in T
    <2> HIDE DEF before, earned, valued, curve
    <2> QED BY <1>2
  <1>4. /\ valued = [a \in Portfolio |-> moved[a] + notional[a]]
        /\ valued = [a \in Portfolio |-> gap[a] + curve[a]]
    <2>1. ASSUME NEW a \in Portfolio PROVE valued[a] = moved[a] + notional[a]
      <3>1. \A h, k, p, n \in Int : n * p = h * k + h * (p - k) + (n - h) * p
        OBVIOUS
      <3>2. \A h, k \in Int : h * k = h * k + h * (k - k) + (h - h) * 0
        OBVIOUS
      <3> DEFINE h == held[a]
                 k == known[a]
                 p == prices[a]
                 n == after[a]
      <3>3. h \in Int /\ k \in Int /\ p \in Int /\ n \in Int
        BY <1>1
      <3>4. known'[a] = (IF p = 0 THEN k ELSE p) /\ (p = 0 => n = h)
        OBVIOUS
      <3>5. valued[a] = n * known'[a] /\ moved[a] = h * k + h * (known'[a] - k) /\ notional[a] = (n - h) * p
        OBVIOUS
      <3> HIDE DEF h, k, p, n, valued, moved, notional
      <3>6. CASE p = 0
        BY <3>2, <3>3, <3>4, <3>5, <3>6
      <3>7. CASE p # 0
        BY <3>1, <3>3, <3>4, <3>5, <3>7
      <3> QED BY <3>6, <3>7
    <2>2. \A a \in Portfolio : valued[a] = gap[a] + curve[a]
      <3>1. \A a \in Portfolio : valued[a] \in Int /\ curve[a] \in Int /\ gap[a] = valued[a] - curve[a]
        BY <1>2
      <3> HIDE DEF valued, curve, gap
      <3> QED BY <3>1
    <2>3. valued = [a \in Portfolio |-> valued[a]]
      OBVIOUS
    <2> HIDE DEF valued, moved, notional, gap, curve
    <2> QED BY <2>1, <2>2, <2>3
  <1>5. /\ \A a \in Portfolio \ (Portfolio \ quoted') : gap[a] = 0
        /\ missing = [a \in Portfolio \ quoted' |-> gap[a]]
    <2>1. ASSUME NEW a \in Portfolio, prices[a] # 0 PROVE gap[a] = 0
      <3>1. known'[a] = prices[a] /\ after[a] * prices[a] \in Int
        BY <2>1
      <3> QED BY <3>1
    <2>2. ASSUME NEW a \in Portfolio, prices[a] = 0 PROVE gap[a] = after[a] * known'[a]
      <3>1. curve[a] = 0 /\ valued[a] = after[a] * known'[a] /\ valued[a] \in Int
        BY <1>2, <2>2
      <3> QED BY <3>1
    <2> HIDE DEF gap
    <2> QED BY <2>1, <2>2
  <1>6. /\ cash' = cash - SumFunction(paid) /\ turnover' = turnover + SumFunction(dealt)
        /\ gain' = gain + SumFunction(earned) /\ shown' = cash' + FeeDivisor * SumFunction(curve)
        /\ Worth(held, known) = FeeDivisor * SumFunction(before)
        /\ Worth(held', known') = FeeDivisor * SumFunction(valued)
    <2>1. paid = [a \in Portfolio |-> FeeDivisor * ((after[a] - held[a]) * prices[a])
                                          + FeeOf((after[a] - held[a]) * prices[a])]
      BY DEF FeeOf
    <2>2. dealt = [a \in Portfolio |-> Absolute((after[a] - held[a]) * prices[a])]
      OBVIOUS
    <2>3. cash' = cash - SumFunction(paid) /\ turnover' = turnover + SumFunction(dealt)
      <3> HIDE DEF paid, dealt
      <3> QED BY ONLY <2>1, <2>2, Trade(prices, after), Zenon DEF Trade
    <2>4. gain' = gain + SumFunction(earned)
      OBVIOUS
    <2>5. /\ Worth(held, known) = FeeDivisor * SumFunction(before)
          /\ Worth(held', known') = FeeDivisor * SumFunction(valued)
          /\ Worth(held', prices) = FeeDivisor * SumFunction(curve)
      BY <1>1 DEF Worth
    <2> QED BY <2>3, <2>4, <2>5
  <1>7. quoted' \in SUBSET Portfolio /\ Portfolio \ quoted' \in SUBSET Portfolio
    OBVIOUS
  <1> DEFINE lack == SumFunction(missing)
  <1>8. lack = SumFunction([a \in Portfolio \ quoted' |-> held'[a] * known'[a]])
    BY <1>1
  <1>9. moved = [a \in Portfolio |-> before[a] + earned[a]] /\ paid = [a \in Portfolio |-> scaled[a] + dealt[a]]
        /\ scaled = [a \in Portfolio |-> FeeDivisor * notional[a]]
    OBVIOUS
  <1>10. known' \in T /\ after \in T
    BY <1>1
  <1> HIDE DEF notional, dealt, scaled, paid, before, earned, moved, valued, curve, gap, missing, T
  <1>11. SumFunction(valued) = SumFunction(moved) + SumFunction(notional)
    <2>1. /\ IsFiniteSet(Portfolio) /\ moved \in [Portfolio -> Int] /\ notional \in [Portfolio -> Int]
          /\ valued = [a \in Portfolio |-> moved[a] + notional[a]]
      BY <1>1, <1>2, <1>3, <1>4 DEF T
    <2> QED BY ONLY <2>1, TotalAdds
  <1>12. SumFunction(moved) = SumFunction(before) + SumFunction(earned)
    <2>1. /\ IsFiniteSet(Portfolio) /\ before \in [Portfolio -> Int] /\ earned \in [Portfolio -> Int]
          /\ moved = [a \in Portfolio |-> before[a] + earned[a]]
      BY <1>1, <1>2, <1>9 DEF T
    <2> QED BY ONLY <2>1, TotalAdds
  <1>13. SumFunction(paid) = FeeDivisor * SumFunction(notional) + SumFunction(dealt)
    <2>1. SumFunction(paid) = SumFunction(scaled) + SumFunction(dealt)
      <3>1. /\ IsFiniteSet(Portfolio) /\ scaled \in [Portfolio -> Int] /\ dealt \in [Portfolio -> Int]
            /\ paid = [a \in Portfolio |-> scaled[a] + dealt[a]]
        BY <1>1, <1>2, <1>9 DEF T
      <3> QED BY ONLY <3>1, TotalAdds
    <2>2. SumFunction(scaled) = FeeDivisor * SumFunction(notional)
      <3>1. /\ IsFiniteSet(Portfolio) /\ notional \in [Portfolio -> Int] /\ FeeDivisor \in Int
            /\ scaled = [a \in Portfolio |-> FeeDivisor * notional[a]]
        BY <1>1, <1>2, <1>9 DEF T
      <3> QED BY ONLY <3>1, TotalScales
    <2> QED BY <2>1, <2>2
  <1>14. SumFunction(valued) = SumFunction(gap) + SumFunction(curve)
    <2>1. /\ IsFiniteSet(Portfolio) /\ gap \in [Portfolio -> Int] /\ curve \in [Portfolio -> Int]
          /\ valued = [a \in Portfolio |-> gap[a] + curve[a]]
      BY <1>1, <1>2, <1>3, <1>4 DEF T
    <2> QED BY ONLY <2>1, TotalAdds
  <1>15. SumFunction(gap) = lack
    <2> DEFINE unquoted == Portfolio \ quoted'
    <2>1. /\ IsFiniteSet(Portfolio) /\ gap \in [Portfolio -> Int] /\ unquoted \in SUBSET Portfolio
          /\ missing = [a \in unquoted |-> gap[a]] /\ \A a \in Portfolio \ unquoted : gap[a] = 0
      BY <1>1, <1>3, <1>5, <1>7 DEF T
    <2> HIDE DEF unquoted
    <2>2. SumFunction(gap) = SumFunction(missing)
      BY ONLY <2>1, TotalWithoutZeros
    <2> QED BY <2>2
  <1>16. /\ SumFunction(valued) \in Int /\ SumFunction(notional) \in Int /\ SumFunction(before) \in Int
         /\ SumFunction(earned) \in Int /\ SumFunction(dealt) \in Int /\ SumFunction(curve) \in Int
         /\ SumFunction(gap) \in Int
    BY <1>1, <1>2, <1>3, TotalType DEF T
  <1>17. WealthTypes /\ WealthIsExplained
    BY DEF WealthInv
  <1> DEFINE sNow == SumFunction(valued)
             sNotional == SumFunction(notional)
             sBefore == SumFunction(before)
             sEarned == SumFunction(earned)
             sDealt == SumFunction(dealt)
             sCurve == SumFunction(curve)
             FD == FeeDivisor
  <1>18. /\ cash \in Int /\ gain \in Int /\ turnover \in Int /\ FD \in Int /\ InitialCash \in Int
         /\ cash + FD * sBefore = FD * (InitialCash + gain) - turnover
    BY <1>1, <1>6, <1>17 DEF WealthTypes, WealthIsExplained
  <1>19. /\ cash' = cash - (FD * sNotional + sDealt) /\ turnover' = turnover + sDealt
         /\ gain' = gain + sEarned /\ shown' = cash' + FD * sCurve
         /\ sNow = sBefore + sEarned + sNotional /\ sNow = lack + sCurve /\ lack \in Int
    BY <1>6, <1>11, <1>12, <1>13, <1>14, <1>15, <1>16
  <1>20. /\ sNow \in Int /\ sNotional \in Int /\ sBefore \in Int /\ sEarned \in Int /\ sDealt \in Int
         /\ sCurve \in Int
    BY <1>16
  <1>21. Worth(held', known') = FD * sNow
    BY <1>6
  <1> HIDE DEF sNow, sNotional, sBefore, sEarned, sDealt, sCurve, FD, lack
  <1>22. /\ FD * sNow = FD * sBefore + FD * sEarned + FD * sNotional
         /\ FD * sNow = FD * lack + FD * sCurve
         /\ FD * (InitialCash + gain') = FD * (InitialCash + gain) + FD * sEarned
    <2>1. /\ FD * (sBefore + sEarned) = FD * sBefore + FD * sEarned
          /\ FD * ((sBefore + sEarned) + sNotional) = FD * (sBefore + sEarned) + FD * sNotional
          /\ FD * (lack + sCurve) = FD * lack + FD * sCurve
          /\ FD * ((InitialCash + gain) + sEarned) = FD * (InitialCash + gain) + FD * sEarned
      BY <1>18, <1>19, <1>20, Distributes
    <2>2. (InitialCash + gain) + sEarned = InitialCash + gain'
      BY <1>18, <1>19, <1>20
    <2> QED BY <1>19, <2>1, <2>2
  <1>23. /\ FD * sNow \in Int /\ FD * sNotional \in Int /\ FD * sBefore \in Int /\ FD * sEarned \in Int
         /\ FD * sCurve \in Int /\ FD * lack \in Int /\ FD * (InitialCash + gain) \in Int
    BY <1>18, <1>19, <1>20
  <1>24. /\ cash' + FD * sNow = FD * (InitialCash + gain') - turnover'
         /\ (cash' + FD * sNow) - shown' = FD * lack
         /\ cash' \in Int /\ turnover' \in Int /\ shown' \in Int /\ gain' \in Int
    <2> DEFINE pNow == FD * sNow
               pNotional == FD * sNotional
               pBefore == FD * sBefore
               pEarned == FD * sEarned
               pCurve == FD * sCurve
               pLack == FD * lack
               fund == FD * (InitialCash + gain)
               fund2 == FD * (InitialCash + gain')
    <2>1. /\ pNow = pBefore + pEarned + pNotional /\ pNow = pLack + pCurve /\ fund2 = fund + pEarned
          /\ pNow \in Int /\ pNotional \in Int /\ pBefore \in Int /\ pEarned \in Int
          /\ pCurve \in Int /\ pLack \in Int /\ fund \in Int
          /\ cash + pBefore = fund - turnover /\ cash' = cash - (pNotional + sDealt)
          /\ shown' = cash' + pCurve
      BY <1>18, <1>19, <1>22, <1>23
    <2> HIDE DEF pNow, pNotional, pBefore, pEarned, pCurve, pLack, fund, fund2
    <2>2. /\ cash' + pNow = fund2 - turnover' /\ (cash' + pNow) - shown' = pLack
          /\ cash' \in Int /\ turnover' \in Int /\ shown' \in Int /\ gain' \in Int
      BY <1>18, <1>19, <1>20, <2>1
    <2> QED BY <2>2 DEF pNow, pLack, fund2
  <1>25. WealthIsExplained'
    <2>1. WealthIsExplained' <=>
              /\ cash' + Worth(held', known') = FeeDivisor * (InitialCash + gain') - turnover'
              /\ (cash' + Worth(held', known')) - shown'
                     = FeeDivisor * SumFunction([a \in Portfolio \ quoted' |-> held'[a] * known'[a]])
      BY DEF WealthIsExplained
    <2> QED BY <1>8, <1>21, <1>24, <2>1 DEF FD
  <1>26. WealthTypes'
    BY <1>1, <1>7, <1>24 DEF WealthTypes, T
  <1> QED BY <1>25, <1>26 DEF WealthInv

\* At first all wealth is cash.
LEMMA WealthInitInv == PortfolioInit => WealthInv
  <1> SUFFICES ASSUME PortfolioInit PROVE WealthInv
    OBVIOUS
  <1> DEFINE worths == [a \in Portfolio |-> held[a] * known[a]]
             lacking == [a \in Portfolio \ quoted |-> held[a] * known[a]]
             none == [a \in {} |-> 0]
  <1>1. WealthTypes
    BY PortfolioAssumption DEF PortfolioInit, WealthTypes
  <1>2. worths \in [Portfolio -> Int] /\ (\A a \in Portfolio : worths[a] = 0) /\ lacking = none
    BY DEF PortfolioInit
  <1>3. none = [a \in {} |-> worths[a]] /\ {} \in SUBSET Portfolio
    OBVIOUS
  <1> HIDE DEF worths, lacking, none
  <1>4. SumFunction(worths) = SumFunction(none)
    <2> DEFINE empty == {}
    <2>1. /\ IsFiniteSet(Portfolio) /\ worths \in [Portfolio -> Int] /\ empty \in SUBSET Portfolio
          /\ none = [a \in empty |-> worths[a]] /\ \A a \in Portfolio \ empty : worths[a] = 0
      BY <1>2, <1>3, PortfolioAssumption
    <2> HIDE DEF empty
    <2> QED BY ONLY <2>1, TotalWithoutZeros
  <1>5. SumFunction(none) = 0
    <2>1. IsFiniteSet({}) /\ none \in [{} -> Int]
      BY FS_EmptySet DEF none
    <2>2. PICK g : Summing(g, none, {})
      BY <2>1, SumExists
    <2>3. g[{}] = 0
      BY <2>1, <2>2, SumUnfolds
    <2> QED BY <2>1, <2>2, <2>3, SumFunctionIs
  <1>6. Worth(held, known) = 0
    BY <1>4, <1>5, PortfolioAssumption DEF Worth, worths
  <1>7. SumFunction([a \in Portfolio \ quoted |-> held[a] * known[a]]) = 0
    BY <1>2, <1>5 DEF lacking
  <1>8. WealthIsExplained
    BY <1>6, <1>7, PortfolioAssumption DEF WealthIsExplained, PortfolioInit
  <1> QED BY <1>1, <1>8 DEF WealthInv

\* Each bar keeps the invariant, and so does a step that is none.
LEMMA WealthStepInv == WealthInv /\ [PortfolioNext]_portfolioVars => WealthInv'
  <1> SUFFICES ASSUME WealthInv, [PortfolioNext]_portfolioVars PROVE WealthInv'
    OBVIOUS
  <1>1. CASE UNCHANGED portfolioVars
    BY <1>1 DEF WealthInv, WealthTypes, WealthIsExplained, Worth, portfolioVars
  <1>2. CASE PortfolioNext
    <2>1. PICK prices \in {f \in [Portfolio -> UNION {PricesOf[a] : a \in Portfolio}] :
                               \A a \in Portfolio : f[a] \in PricesOf[a]},
               targets \in IF index % rebalanceEvery = 0
                           THEN UNION {[some -> TargetHalves] : some \in SUBSET Portfolio} ELSE {<<>>} :
                   ResearchBar(prices, targets)
      BY <1>2 DEF PortfolioNext
    <2>2. prices \in [Portfolio -> Nat]
      BY <2>1, PortfolioAssumption
    <2> DEFINE after == IF index % rebalanceEvery = 0 THEN Rebalanced(prices, targets) ELSE held
    <2>3. after \in [Portfolio -> Int] /\ \A a \in Portfolio : prices[a] = 0 => after[a] = held[a]
      <3>1. CASE index % rebalanceEvery = 0
        <4>1. PICK some \in SUBSET Portfolio : targets \in [some -> TargetHalves]
          BY <2>1, <3>1
        <4> QED BY <2>2, <3>1, <4>1, RebalancedType DEF WealthInv
      <3>2. CASE index % rebalanceEvery # 0
        BY <3>2 DEF WealthInv, WealthTypes
      <3> QED BY <3>1, <3>2
    <2>4. /\ Trade(prices, after)
          /\ shown' = cash' + Worth(held', prices)
          /\ quoted' = {a \in Portfolio : prices[a] # 0}
          /\ known' = [a \in Portfolio |-> IF prices[a] = 0 THEN known[a] ELSE prices[a]]
          /\ gain' = gain + SumFunction([a \in Portfolio |-> held[a] * (known'[a] - known[a])])
      BY <2>1 DEF ResearchBar
    <2> HIDE DEF after
    <2> QED BY <2>2, <2>3, <2>4, BarExplained
  <1> QED BY <1>1, <1>2

(***************************************************************************)
(* However long a backtest runs, whatever its assets, gaps and targets,    *)
(* its wealth is the initial cash and what prices earned, less the fees,   *)
(* and the curve lacks exactly what is held without a price.               *)
(***************************************************************************)
THEOREM WealthIsAlwaysExplained ==
    PortfolioInit /\ [][PortfolioNext]_portfolioVars => []WealthIsExplained
  <1>1. WealthInv => WealthIsExplained
    BY DEF WealthInv
  <1> QED BY <1>1, WealthInitInv, WealthStepInv, PTL

-----------------------------------------------------------------------------
(***************************************************************************)
(* The rules of CULT-X.  A call takes any auction and any parent order the *)
(* slicing does not throw at; what it returns follows from its arguments,  *)
(* so the invariant is only what the arguments are.                        *)
(***************************************************************************)

RulesType ==
    /\ orders \in Seq(AuctionOrder)
    /\ parent = <<>> \/ (parent \in ParentOrder /\ Sliceable(parent))

(* Volumes are integers, so that prices can be compared by them.           *)
LEMMA VolumesCompare ==
    ASSUME RulesType
    PROVE  \A price \in Int : Matched(price) \in Int /\ Imbalance(price) \in Int
<1>1. /\ \A i \in DOMAIN orders : orders[i] \in AuctionOrder
      /\ IsFiniteSet(DOMAIN orders)
  <2>1. DOMAIN orders = 1 .. Len(orders) /\ Len(orders) \in Nat
    BY DEF RulesType
  <2> QED BY <2>1, FS_Interval DEF RulesType
<1>2. ASSUME NEW some \in SUBSET DOMAIN orders PROVE Volume(some) \in Int
  <2> DEFINE f == [i \in some |-> orders[i].quantity]
  <2>1. IsFiniteSet(some)
    BY <1>1, FS_Subset
  <2>2. f \in [some -> Int]
    <3>1. \A i \in some : orders[i].quantity \in Nat
      BY <1>1, RulesAssumption DEF AuctionOrder
    <3> QED BY <3>1
  <2> HIDE DEF f
  <2>3. SumFunction(f) \in Int
    BY <2>1, <2>2, TotalType
  <2> QED BY <2>3 DEF Volume, f
<1>3. ASSUME NEW price \in Int PROVE Buys(price) \in Int /\ Sells(price) \in Int
  BY <1>2 DEF Buys, Sells
<1>4. \A a, b \in Int : Min({a, b}) \in Int /\ Max({a, b}) \in Int
  <2>1. \A a, b \in Int : /\ \E x \in {a, b} : \A y \in {a, b} : x <= y
                          /\ \E x \in {a, b} : \A y \in {a, b} : x >= y
    OBVIOUS
  <2> QED BY <2>1 DEF Min, Max
<1>5. ASSUME NEW price \in Int PROVE Matched(price) \in Int /\ Imbalance(price) \in Int
  <2> DEFINE b == Buys(price)  s == Sells(price)
  <2>1. b \in Int /\ s \in Int
    BY <1>3
  <2>2. Matched(price) = Min({b, s}) /\ Imbalance(price) = Max({b - s, s - b})
    BY DEF Matched, Imbalance
  <2> HIDE DEF b, s
  <2>3. b - s \in Int /\ s - b \in Int
    BY <2>1
  <2>4. Min({b, s}) \in Int
    BY <1>4, <2>1
  <2>5. Max({b - s, s - b}) \in Int
    BY <1>4, <2>3
  <2> QED BY <2>2, <2>4, <2>5
<1> QED BY <1>5

(* There are finitely many candidates, and they are integers.              *)
LEMMA CandidatesFinite ==
    ASSUME RulesType
    PROVE  IsFiniteSet(Candidates) /\ Candidates \in SUBSET Int
<1> DEFINE D == DOMAIN orders
           f == [i \in D |-> orders[i].price]
<1>1. /\ \A i \in D : orders[i] \in AuctionOrder
      /\ IsFiniteSet(D)
  <2>1. DOMAIN orders = 1 .. Len(orders) /\ Len(orders) \in Nat
    BY DEF RulesType
  <2> QED BY <2>1, FS_Interval DEF RulesType
<1>2. IsFiniteSet({f[i] : i \in D})
  <2>1. f = [i \in D |-> f[i]]
    OBVIOUS
  <2> HIDE DEF f, D
  <2> QED BY <1>1, <2>1, FiniteImage
<1>3. Candidates \in SUBSET {f[i] : i \in D}
  BY DEF Candidates, Range
<1>4. \A i \in D : f[i] \in Int
  BY <1>1, RulesAssumption DEF AuctionOrder
<1> HIDE DEF f
<1> QED BY <1>2, <1>3, <1>4, FS_Subset

(* Ascending lists every candidate, upwards.                               *)
LEMMA AscendingLists ==
    ASSUME RulesType
    PROVE  /\ Ascending \in [1 .. Cardinality(Candidates) -> Candidates]
           /\ \A i, j \in 1 .. Cardinality(Candidates) : i < j => Ascending[i] < Ascending[j]
           /\ \A price \in Candidates : \E i \in 1 .. Cardinality(Candidates) : Ascending[i] = price
<1> DEFINE n == Cardinality(Candidates)
<1>1. IsFiniteSet(Candidates) /\ Candidates \in SUBSET Int
  BY CandidatesFinite
<1>2. n \in Nat
  BY <1>1, FS_CardinalityType
<1>3. \E s \in [1 .. n -> Candidates] : \A i, j \in 1 .. n : i < j => s[i] < s[j]
  BY <1>1, AscendingList
<1>4. Ascending \in [1 .. n -> Candidates] /\ \A i, j \in 1 .. n : i < j => Ascending[i] < Ascending[j]
  BY <1>3 DEF Ascending
<1> HIDE DEF n
<1>5. ASSUME NEW i \in 1 .. n, NEW j \in 1 .. n, Ascending[i] = Ascending[j] PROVE i = j
  <2>1. i \in Int /\ j \in Int /\ Ascending[i] \in Int
    <3>1. Ascending[i] \in Candidates /\ i \in Int /\ j \in Int
      BY <1>2, <1>4
    <3> QED BY <1>1, <3>1
  <2>2. ~(i < j) /\ ~(j < i)
    BY <1>4, <1>5, <2>1
  <2> QED BY <2>1, <2>2
<1>6. \A price \in Candidates : \E i \in 1 .. n : Ascending[i] = price
  BY <1>1, <1>4, <1>5, ListsAll DEF n
<1> QED BY <1>4, <1>6 DEF n

(* What is beaten by no other stays so when a better one takes over.       *)
LEMMA BetterIsTransitive ==
    ASSUME RulesType, NEW p \in Int, NEW q \in Int, NEW r \in Int,
           Better(p, r), ~ Better(q, r)
    PROVE  ~ Better(q, p)
<1> DEFINE mp == Matched(p)  mq == Matched(q)  mr == Matched(r)
           ip == Imbalance(p)  iq == Imbalance(q)  ir == Imbalance(r)
<1>1. mp \in Int /\ mq \in Int /\ mr \in Int /\ ip \in Int /\ iq \in Int /\ ir \in Int
  BY VolumesCompare
<1>2. /\ mp > mr \/ (mp = mr /\ (ip < ir \/ (ip = ir /\ p < r)))
      /\ ~(mq > mr \/ (mq = mr /\ (iq < ir \/ (iq = ir /\ q < r))))
  BY DEF Better
<1>3. ~(mq > mp \/ (mq = mp /\ (iq < ip \/ (iq = ip /\ q < p))))
  <2> HIDE DEF mp, mq, mr, ip, iq, ir
  <2> QED BY <1>1, <1>2
<1> QED BY <1>3 DEF Better

(* g is the fold of the auction, prefix by prefix.                         *)
Visits(g, n) ==
    /\ g[{}] = Ascending[1]
    /\ \A k \in 1 .. n : g[1 .. k] = Visit(g[(1 .. k) \ {Max(1 .. k)}], Ascending[k])

LEMMA AuctionVisits ==
    ASSUME RulesType, Candidates # {}
    PROVE  \E g : AuctionPrice = g[1 .. Cardinality(Candidates)] /\ Visits(g, Cardinality(Candidates))
  <1> DEFINE o == [ab \in Candidates \X Candidates |-> Visit(ab[1], ab[2])]
             n == Cardinality(Candidates)
             D == 1 .. n
             base == Ascending[1]
             raw(f) == [t \in SUBSET D |-> IF t = {} THEN base
                                           ELSE Visit(f[t \ {Max(t)}], Ascending[Max(t)])]
             it == CHOOSE f : f = raw(f)
  <1>0. Ascending \in [1 .. n -> Candidates] /\ n \in Nat /\ base \in Candidates
    <2>1. n \in Nat /\ n # 0
      BY CandidatesFinite, FS_CardinalityType, FS_EmptySet
    <2> QED BY <2>1, AscendingLists
  <1> HIDE DEF n, base
  <1>1. o \in [Candidates \X Candidates -> Candidates]
    BY DEF Visit
  <1> HIDE DEF o
  <1>a. PICK g \in [SUBSET (1 .. n) -> Candidates] : FoldsBy(g, o, base, Ascending, n)
    BY <1>0, <1>1, FoldExists
  <1>2. g \in [SUBSET D -> Candidates] /\ \A t \in SUBSET D : g[t] = FoldStep(g, o, base, Ascending, t)
    BY <1>a DEF FoldsBy
  <1>3. ASSUME NEW t \in SUBSET D, t # {} PROVE Max(t) \in D /\ t \ {Max(t)} \in SUBSET D
    <2>1. IsFiniteSet(D) /\ D \in SUBSET Int
      BY <1>0, FS_Interval
    <2>2. IsFiniteSet(t) /\ t \in SUBSET Int
      <3> HIDE DEF D
      <3> QED BY <2>1, FS_Subset
    <2>3. \E m \in t : \A y \in t : m >= y
      BY <1>3, <2>2, GreatestElement
    <2> QED BY <2>3 DEF Max
  <1>4. g = raw(g)
    <2>1. ASSUME NEW t \in SUBSET D
          PROVE  g[t] = IF t = {} THEN base ELSE Visit(g[t \ {Max(t)}], Ascending[Max(t)])
      <3>1. CASE t = {}
        BY <1>2, <3>1 DEF FoldStep
      <3>2. CASE t # {}
        <4>1. Max(t) \in D /\ t \ {Max(t)} \in SUBSET D
          BY <1>3, <3>2
        <4>2. <<g[t \ {Max(t)}], Ascending[Max(t)]>> \in Candidates \X Candidates
          BY <1>0, <4>1
        <4>3. o[<<g[t \ {Max(t)}], Ascending[Max(t)]>>] = Visit(g[t \ {Max(t)}], Ascending[Max(t)])
          BY <4>2 DEF o
        <4> QED BY <1>2, <3>2, <4>3 DEF FoldStep
      <3> QED BY <3>1, <3>2
    <2> QED BY <2>1
  <1>5. it = raw(it)
    <2>1. \E f : f = raw(f)
      BY <1>4
    <2> HIDE DEF raw
    <2> QED BY ONLY <2>1, Zenon DEF it
  <1>6. AuctionPrice = it[D]
    <2>1. DOMAIN Ascending = D
      BY <1>0
    <2> QED BY <2>1, Zenon DEF AuctionPrice, FoldLeft, MapThenFoldSet, base
  <1> HIDE DEF it
  <1>7. \A t \in SUBSET D : it[t] = IF t = {} THEN base ELSE Visit(it[t \ {Max(t)}], Ascending[Max(t)])
    BY <1>5
  <1>8. Visits(it, n)
    <2>1. it[{}] = base
      BY <1>7
    <2>2. ASSUME NEW k \in 1 .. n
          PROVE  it[1 .. k] = Visit(it[(1 .. k) \ {Max(1 .. k)}], Ascending[k])
      <3>1. 1 .. k \in SUBSET D /\ 1 .. k # {}
        <4>1. 1 \in 1 .. k /\ \A x \in 1 .. k : x \in D
          BY <1>0
        <4> QED BY <4>1
      <3>2. Max(1 .. k) = k
        BY <1>0, LastOfFirst
      <3> QED BY <1>7, <3>1, <3>2
    <2> QED BY <2>1, <2>2 DEF Visits, base
  <1> QED BY <1>6, <1>8 DEF n

(* No candidate beats the price of the auction.                            *)
LEMMA NothingBeatsIt ==
    ASSUME RulesType, Candidates # {}
    PROVE  AuctionPrice \in Candidates /\ \A q \in Candidates : ~ Better(q, AuctionPrice)
<1> DEFINE n == Cardinality(Candidates)
<1>1. PICK g : AuctionPrice = g[1 .. n] /\ Visits(g, n)
  BY AuctionVisits
<1>2. /\ Ascending \in [1 .. n -> Candidates]
      /\ \A price \in Candidates : \E i \in 1 .. n : Ascending[i] = price
  BY AscendingLists
<1>3. n \in Nat /\ n # 0 /\ Candidates \in SUBSET Int
  BY CandidatesFinite, FS_CardinalityType, FS_EmptySet
<1> HIDE DEF n
<1> DEFINE h(k) == g[1 .. k]
           Ahead(k) == h(k) \in Candidates /\ \A i \in 1 .. k : ~ Better(Ascending[i], h(k))
           T == {k \in 0 .. n : Ahead(k)}
<1>4. 0 \in T
  <2>1. 1 .. 0 = {}
    OBVIOUS
  <2>2. h(0) = Ascending[1] /\ Ascending[1] \in Candidates
    BY <1>1, <1>2, <1>3, <2>1 DEF Visits
  <2> QED BY <1>3, <2>1, <2>2
<1>5. ASSUME NEW k \in 1 .. n, k - 1 \in T PROVE k \in T
  <2>1. (1 .. k) \ {Max(1 .. k)} = 1 .. (k - 1)
    BY LastOfFirst
  <2>2. h(k) = Visit(h(k - 1), Ascending[k])
    BY <1>1, <2>1 DEF Visits
  <2>3. Ahead(k - 1)
    BY <1>5
  <2> DEFINE best == h(k - 1)  price == Ascending[k]
  <2>4. best \in Candidates /\ price \in Candidates /\ \A i \in 1 .. (k - 1) : ~ Better(Ascending[i], best)
    BY <1>2, <2>3
  <2>5. \A i \in 1 .. k : i = k \/ i \in 1 .. (k - 1)
    OBVIOUS
  <2>6. k \in 0 .. n /\ best \in Int /\ price \in Int /\ \A i \in 1 .. k : Ascending[i] \in Int
    <3>1. k \in 0 .. n
      BY <1>3
    <3>2. best \in Int /\ price \in Int
      <4> HIDE DEF best, price
      <4> QED BY <1>3, <2>4
    <3>3. ASSUME NEW i \in 1 .. k PROVE Ascending[i] \in Int
      <4>1. i \in 1 .. n
        BY <1>3
      <4>2. Ascending[i] \in Candidates
        BY <1>2, <4>1
      <4> QED BY <1>3, <4>2
    <3> HIDE DEF best, price
    <3> QED BY <3>1, <3>2, <3>3
  <2>7. CASE Better(price, best)
    <3>1. h(k) = price
      BY <2>2, <2>7 DEF Visit
    <3>2. ~ Better(price, price)
      <4>1. Matched(price) \in Int /\ Imbalance(price) \in Int
        BY <2>6, VolumesCompare
      <4> HIDE DEF price
      <4> QED BY <2>6, <4>1 DEF Better
    <3>3. ASSUME NEW i \in 1 .. (k - 1) PROVE ~ Better(Ascending[i], price)
      <4>1. Ascending[i] \in Int /\ ~ Better(Ascending[i], best)
        BY <2>4, <2>6
      <4> HIDE DEF price, best
      <4> QED BY <2>6, <2>7, <4>1, BetterIsTransitive
    <3>4. \A i \in 1 .. k : ~ Better(Ascending[i], price)
      BY <2>5, <3>2, <3>3
    <3> HIDE DEF h
    <3> QED BY <2>4, <2>6, <3>1, <3>4
  <2>8. CASE ~ Better(price, best)
    <3>1. h(k) = best
      BY <2>2, <2>8 DEF Visit
    <3>2. \A i \in 1 .. k : ~ Better(Ascending[i], best)
      BY <2>4, <2>5, <2>8
    <3> HIDE DEF h
    <3> QED BY <2>4, <2>6, <3>1, <3>2
  <2> QED BY <2>7, <2>8
<1>6. n \in T
  <2> HIDE DEF T
  <2>1. \A k \in 0 .. n : k \in T
    BY <1>3, <1>4, <1>5, CountsUp
  <2> QED BY <1>3, <2>1
<1>7. Ahead(n) /\ h(n) = AuctionPrice
  BY <1>1, <1>6
<1> HIDE DEF h
<1> QED BY <1>2, <1>7

(* The auction clears.                                                     *)
LEMMA PriceClears ==
    ASSUME RulesType
    PROVE  AuctionClears
<1> SUFFICES ASSUME Candidates # {}
             PROVE  LET most == {p \in Candidates : \A q \in Candidates : Matched(q) <= Matched(p)}
                        even == {p \in most : \A q \in most : Imbalance(p) <= Imbalance(q)}
                    IN  AuctionPrice = Min(even)
  BY DEF AuctionClears
<1> DEFINE most == {p \in Candidates : \A q \in Candidates : Matched(q) <= Matched(p)}
           even == {p \in most : \A q \in most : Imbalance(p) <= Imbalance(q)}
           r == AuctionPrice
<1>1. r \in Candidates /\ \A q \in Candidates : ~ Better(q, r)
  BY NothingBeatsIt
<1>2. \A q \in Candidates : q \in Int /\ Matched(q) \in Int /\ Imbalance(q) \in Int
  BY CandidatesFinite, VolumesCompare
<1> HIDE DEF r
<1>3. \A q \in Candidates : /\ ~ (Matched(q) > Matched(r))
                            /\ Matched(q) = Matched(r) => ~ (Imbalance(q) < Imbalance(r))
                            /\ Matched(q) = Matched(r) /\ Imbalance(q) = Imbalance(r) => ~ (q < r)
  BY <1>1 DEF Better
<1>4. r \in most
  BY <1>1, <1>2, <1>3
<1>5. \A q \in most : q \in Candidates /\ Matched(q) = Matched(r)
  <2>1. ASSUME NEW q \in most PROVE Matched(q) = Matched(r)
    <3>1. Matched(r) <= Matched(q) /\ q \in Candidates
      BY <1>1, <2>1
    <3> QED BY <1>1, <1>2, <1>3, <3>1
  <2> QED BY <2>1
<1> HIDE DEF most
<1>6. r \in even
  BY <1>1, <1>2, <1>3, <1>4, <1>5
<1>7. \A q \in even : q \in Candidates /\ Imbalance(q) = Imbalance(r)
  <2>1. ASSUME NEW q \in even PROVE Imbalance(q) = Imbalance(r)
    <3>1. Imbalance(q) <= Imbalance(r) /\ q \in most
      BY <1>4, <2>1
    <3> QED BY <1>1, <1>2, <1>3, <1>5, <3>1
  <2> QED BY <1>5, <2>1
<1>8. \A q \in even : r <= q
  BY <1>1, <1>2, <1>3, <1>5, <1>7
<1>9. even \in SUBSET Int
  BY <1>2, <1>5
<1> HIDE DEF even
<1>10. Min(even) = r
  <2>1. \A x \in even : (\A y \in even : x <= y) <=> x = r
    BY <1>6, <1>8, <1>9
  <2> QED BY <1>6, <2>1 DEF Min
<1> QED BY <1>10 DEF r, even, most

(* Equal lots, and one more for each of the first few.                     *)
LEMMA EqualLots ==
    ASSUME NEW n \in Nat \ {0}, NEW lot \in Nat, NEW few \in 0 .. n,
           NEW f \in [1 .. n -> Nat],
           \A i \in 1 .. n : f[i] = lot + (IF i - 1 < few THEN 1 ELSE 0)
    PROVE  SumFunction(f) = n * lot + few
<1> DEFINE off == PrefixSums(f, n)
           T == {k \in 0 .. n : off[k] = k * lot + (IF k < few THEN k ELSE few)}
<1>1. /\ off \in [0 .. n -> Nat] /\ off[0] = 0
      /\ \A k \in 1 .. n : off[k] = off[k - 1] + f[k]
      /\ SumFunction(f) = off[n]
  BY RunningSums
<1> HIDE DEF off
<1>2. 0 \in T
  <2>1. 0 * lot = 0
    OBVIOUS
  <2> QED BY <1>1, <2>1
<1>3. ASSUME NEW k \in 1 .. n, k - 1 \in T PROVE k \in T
  <2>1. k * lot = (k - 1) * lot + lot /\ (k - 1) * lot \in Nat
    OBVIOUS
  <2> DEFINE before == (k - 1) * lot
             all == k * lot
  <2>2. off[k - 1] = before + (IF k - 1 < few THEN k - 1 ELSE few)
    BY <1>3
  <2>3. all = before + lot /\ before \in Nat
    BY <2>1
  <2> HIDE DEF before, all
  <2>4. off[k] = off[k - 1] + (lot + (IF k - 1 < few THEN 1 ELSE 0))
    BY <1>1
  <2>5. off[k] = all + (IF k < few THEN k ELSE few)
    BY <2>2, <2>3, <2>4
  <2> QED BY <2>5 DEF all
<1>4. n \in T
  <2> HIDE DEF T
  <2>1. \A k \in 0 .. n : k \in T
    BY <1>2, <1>3, CountsUp
  <2> QED BY <2>1
<1> QED BY <1>1, <1>4

(* What a parent order that can be sliced is.                              *)
LEMMA SliceableFacts ==
    ASSUME NEW p \in ParentOrder, Sliceable(p)
    PROVE  /\ p.total \in Nat \ {0} /\ p.span \in Nat \ {0}
           /\ Len(p.profile) \in Nat \ {0}
           /\ p.profile \in [1 .. Len(p.profile) -> Nat]
           /\ SumFunction(p.profile) \in Nat \ {0}
<1>1. p.total \in 1 .. MaxParent /\ p.profile \in BoundedSeq(Shares, MaxSlices) /\ p.span \in Spans
  BY DEF ParentOrder
<1> DEFINE f == p.profile
<1>a. Shares \subseteq Nat /\ Spans \subseteq Int /\ MaxParent \in Nat /\ MaxSlices \in Nat
  BY RulesAssumption
<1>2. PICK m \in Nat : f \in [1 .. m -> Shares]
  <2>1. f \in UNION {[1 .. m -> Shares] : m \in 0 .. MaxSlices}
    BY <1>1 DEF BoundedSeq, SeqOf
  <2> HIDE DEF f
  <2> QED BY <1>a, <2>1
<1>b. Len(f) > 0 /\ SumFunction(f) > 0 /\ p.span > 0
  BY DEF Sliceable
<1> HIDE DEF f
<1>3. f \in [1 .. m -> Nat]
  BY <1>2, <1>a
<1>4. Len(f) = m
  BY <1>2, <1>3
<1>5. f \in [1 .. m -> Int] /\ IsFiniteSet(1 .. m)
  BY <1>3, FS_Interval
<1>6. SumFunction(f) \in Int
  BY <1>5, TotalType
<1>7. Len(f) \in Nat \ {0} /\ f \in [1 .. Len(f) -> Nat] /\ SumFunction(f) \in Nat \ {0}
  BY <1>2, <1>3, <1>4, <1>6, <1>b
<1>8. p.total \in Nat \ {0} /\ p.span \in Nat \ {0}
  <2> DEFINE total == p.total  span == p.span
  <2>1. total \in 1 .. MaxParent /\ span \in Spans /\ span > 0
    BY <1>1, <1>b
  <2> HIDE DEF total, span
  <2>2. total \in Nat \ {0} /\ span \in Nat \ {0}
    BY <1>a, <2>1
  <2> QED BY <2>2 DEF total, span
<1> QED BY <1>7, <1>8 DEF f

(* The slices by time.                                                     *)
LEMMA TwapSlices ==
    ASSUME NEW p \in ParentOrder, Sliceable(p)
    PROVE  LET t == Twap(p) IN
           /\ SumFunction([i \in DOMAIN t |-> t[i].quantity]) = p.total
           /\ \A i, j \in DOMAIN t : t[i].quantity <= t[j].quantity + 1
           /\ \A i \in DOMAIN t : t[i].quantity >= 0 /\ t[i].time < p.span
<1> DEFINE n == Len(p.profile)
           total == p.total
           span == p.span
           lot == total \div n
           few == total % n
           stride == span \div n
           t == Twap(p)
           f == [i \in DOMAIN t |-> t[i].quantity]
<1>1. total \in Nat \ {0} /\ span \in Nat \ {0} /\ n \in Nat \ {0}
  BY SliceableFacts
<1>2. t = [i \in 1 .. n |-> [time |-> (i - 1) * stride,
                             quantity |-> lot + (IF i - 1 < few THEN 1 ELSE 0)]]
  BY DEF Twap
<1> HIDE DEF n, total, span, t
<1>3. total = n * lot + few /\ lot \in Nat /\ few \in Nat /\ few < n
  BY <1>1, Division
<1>4. span = n * stride + (span % n) /\ stride \in Nat /\ span % n \in Nat
  BY <1>1, Division
<1> HIDE DEF lot, few, stride
<1>5. DOMAIN t = 1 .. n /\ \A i \in 1 .. n : /\ t[i].quantity = lot + (IF i - 1 < few THEN 1 ELSE 0)
                                             /\ t[i].time = (i - 1) * stride
  BY <1>2
<1>6. f \in [1 .. n -> Nat] /\ \A i \in 1 .. n : f[i] = lot + (IF i - 1 < few THEN 1 ELSE 0)
  BY <1>1, <1>3, <1>5
<1> HIDE DEF f
<1>7. SumFunction(f) = total
  <2>1. few \in 0 .. n
    BY <1>1, <1>3
  <2>2. SumFunction(f) = n * lot + few
    BY <1>1, <1>3, <1>6, <2>1, EqualLots
  <2> QED BY <1>3, <2>2
<1>8. ASSUME NEW i \in 1 .. n PROVE (i - 1) * stride < span
  <2>1. CASE stride = 0
    BY <1>1, <2>1
  <2>2. CASE stride # 0
    <3>1. n * stride = (i - 1) * stride + (n - i + 1) * stride
      BY <1>1, <1>4
    <3>2. (n - i + 1) * stride >= stride
      <4>1. \A a \in Nat \ {0}, b \in Nat : a * b >= b
        OBVIOUS
      <4>2. n - i + 1 \in Nat \ {0}
        BY <1>1
      <4> QED BY <1>4, <4>1, <4>2
    <3>3. (i - 1) * stride \in Nat /\ (n - i + 1) * stride \in Int /\ n * stride \in Int
      BY <1>1, <1>4
    <3> DEFINE a == n * stride  b == (i - 1) * stride  c == (n - i + 1) * stride  rest == span % n
    <3>4. a = b + c /\ c >= stride /\ b \in Nat /\ c \in Int /\ span = a + rest /\ rest \in Nat
      BY <1>4, <3>1, <3>2, <3>3
    <3> HIDE DEF a, b, c, rest
    <3>5. b < span
      BY <1>1, <1>4, <2>2, <3>4
    <3> QED BY <3>5 DEF b
  <2> QED BY <2>1, <2>2
<1>9. \A i, j \in 1 .. n : t[i].quantity <= t[j].quantity + 1
  BY <1>3, <1>5
<1>10. \A i \in 1 .. n : t[i].quantity >= 0 /\ t[i].time < span
  BY <1>3, <1>5, <1>8
<1>11. /\ SumFunction(f) = total
       /\ \A i, j \in DOMAIN t : t[i].quantity <= t[j].quantity + 1
       /\ \A i \in DOMAIN t : t[i].quantity >= 0 /\ t[i].time < span
  BY <1>5, <1>7, <1>9, <1>10
<1> QED BY <1>11 DEF f, t, total, span

(* What a list with one more element sums to.                              *)
LEMMA AppendSums ==
    ASSUME NEW s \in Seq(Int), NEW x \in Int
    PROVE  SumFunction(Append(s, x)) = SumFunction(s) + x /\ SumFunction(s) \in Int
<1> DEFINE n == Len(s)  D == 1 .. (n + 1)  more == Append(s, x)
<1>1. n \in Nat /\ more \in [D -> Int] /\ n + 1 \in D /\ more[n + 1] = x /\ IsFiniteSet(D)
  <2>1. n \in Nat /\ more \in Seq(Int) /\ Len(more) = n + 1
    OBVIOUS
  <2>2. more[n + 1] = x
    OBVIOUS
  <2>3. IsFiniteSet(D)
    BY <2>1, FS_Interval
  <2>4. more \in [D -> Int]
    <3> HIDE DEF more
    <3> QED BY <2>1
  <2> QED BY <2>1, <2>2, <2>3, <2>4
<1>2. Without(more, n + 1) = s
  <2>1. DOMAIN more = D /\ D \ {n + 1} = 1 .. n
    OBVIOUS
  <2>2. s = [y \in 1 .. n |-> s[y]] /\ \A y \in 1 .. n : more[y] = s[y]
    OBVIOUS
  <2> HIDE DEF more, D, n
  <2> QED BY <2>1, <2>2 DEF Without
<1>3. s \in [1 .. n -> Int] /\ IsFiniteSet(1 .. n)
  BY <1>1, FS_Interval
<1>4. SumFunction(s) \in Int
  <2> HIDE DEF n
  <2> QED BY <1>3, TotalType
<1> HIDE DEF more, D
<1>5. SumFunction(more) = more[n + 1] + SumFunction(Without(more, n + 1))
  BY <1>1, TotalWithout
<1> QED BY <1>1, <1>2, <1>4, <1>5 DEF more

LEMMA EmptySums == SumFunction(<<>>) = 0
<1>1. Append(<<>>, 0) = <<0>> /\ <<>> \in Seq(Int)
  OBVIOUS
<1>2. PrefixSums(<<>>, 0)[0] = 0 /\ SumFunction(<<>>) = PrefixSums(<<>>, 0)[0]
  <2>1. <<>> \in [1 .. 0 -> Nat] /\ 0 \in Nat
    OBVIOUS
  <2> QED BY <2>1, RunningSums
<1> QED BY <1>2

(* A share is a number, and within half a lot of its part.                 *)
LEMMA ShareNear ==
    ASSUME NEW total \in Nat, NEW share \in Nat, NEW sum \in Nat \ {0}
    PROVE  /\ ShareOf(total, share, sum) \in Nat
           /\ \A v \in Nat : v <= ShareOf(total, share, sum) => v * sum - total * share < sum
<1> DEFINE part == total * share
           q == ShareOf(total, share, sum)
           a == 2 * total * share + sum
           b == 2 * sum
<1>1. part \in Nat /\ a = 2 * part + sum /\ a \in Nat /\ b \in Nat \ {0} /\ q = a \div b
  BY DEF ShareOf
<1> HIDE DEF part, a, q
<1>2. a = b * q + (a % b) /\ q \in Nat /\ a % b \in Nat
  <2> HIDE DEF b
  <2> QED BY <1>1, Division
<1>3. ASSUME NEW v \in Nat, v <= q PROVE v * sum - part < sum
  <2>1. \A x, y, z \in Nat : x <= y => x * z <= y * z
    OBVIOUS
  <2>2. v * sum <= q * sum /\ b * q = 2 * (q * sum) /\ v * sum \in Nat /\ q * sum \in Nat
    BY <1>2, <1>3, <2>1
  <2> DEFINE vs == v * sum  qs == q * sum  rest == a % b  bq == b * q
  <2>3. vs <= qs /\ bq = 2 * qs /\ a = bq + rest /\ rest \in Nat /\ vs \in Nat /\ qs \in Nat
    BY <1>2, <2>2
  <2> HIDE DEF vs, qs, rest, bq, b
  <2>4. vs - part < sum
    BY <1>1, <2>3
  <2> QED BY <2>4 DEF vs
<1> QED BY <1>2, <1>3 DEF q, part

(* g is the fold of the slicing by volume, prefix by prefix.               *)
SlicesBy(g, p, n) ==
    /\ g[{}] = <<>>
    /\ \A k \in 1 .. n :
           g[1 .. k] = Append(g[(1 .. k) \ {Max(1 .. k)}],
                              Amount(p, k, SumFunction(g[(1 .. k) \ {Max(1 .. k)}])))

LEMMA AmountType ==
    ASSUME NEW p \in ParentOrder, Sliceable(p), NEW k \in 1 .. Len(p.profile), NEW a \in Int
    PROVE  Amount(p, k, a) \in Int
<1> DEFINE n == Len(p.profile)  share == ShareOf(p.total, p.profile[k], SumFunction(p.profile))
           rest == p.total - a
<1>1. share \in Nat /\ rest \in Int
  <2>1. p.total \in Nat /\ p.profile[k] \in Nat /\ SumFunction(p.profile) \in Nat \ {0}
    BY SliceableFacts
  <2>2. share \in Nat
    BY <2>1, ShareNear
  <2> QED BY <2>1, <2>2
<1>2. Amount(p, k, a) = IF k = n THEN rest ELSE Min({share, rest})
  BY DEF Amount
<1> HIDE DEF share, rest, n
<1>3. Min({share, rest}) \in Int
  <2>1. \E x \in {share, rest} : \A y \in {share, rest} : x <= y
    BY <1>1
  <2>2. Min({share, rest}) \in {share, rest}
    BY <2>1 DEF Min
  <2> QED BY <1>1, <2>2
<1> QED BY <1>1, <1>2, <1>3

LEMMA VwapFolds ==
    ASSUME NEW p \in ParentOrder, Sliceable(p)
    PROVE  \E g : Vwap(p) = g[1 .. Len(p.profile)] /\ SlicesBy(g, p, Len(p.profile))
  <1> DEFINE A == Seq(Int)
             n == Len(p.profile)
             D == 1 .. n
             next(slices, i) == Append(slices, Amount(p, i, SumFunction(slices)))
             o == [ab \in A \X D |-> next(ab[1], ab[2])]
             list == [i \in DOMAIN p.profile |-> i]
             raw(f) == [t \in SUBSET D |-> IF t = {} THEN <<>>
                                           ELSE next(f[t \ {Max(t)}], list[Max(t)])]
             it == CHOOSE f : f = raw(f)
  <1>0. n \in Nat /\ DOMAIN p.profile = D /\ <<>> \in A
    BY SliceableFacts
  <1>9. list = [i \in D |-> i] /\ list \in [1 .. n -> D]
    BY <1>0
  <1>10. ASSUME NEW slices \in A, NEW i \in D PROVE next(slices, i) \in A
    <2>1. SumFunction(slices) \in Int
      BY AppendSums
    <2>2. Amount(p, i, SumFunction(slices)) \in Int
      BY <2>1, AmountType
    <2> QED BY <2>2
  <1> HIDE DEF n, A, next
  <1>1. o \in [A \X D -> A]
    BY <1>10
  <1> HIDE DEF o
  <1>a. PICK g \in [SUBSET (1 .. n) -> A] : FoldsBy(g, o, <<>>, list, n)
    <2>1. <<>> \in A /\ n \in Nat /\ list \in [1 .. n -> D] /\ o \in [A \X D -> A]
      BY <1>0, <1>9, <1>1 DEF A
    <2> HIDE DEF list, D
    <2> DEFINE none == <<>>
    <2>2. none \in A
      BY <2>1
    <2> HIDE DEF none
    <2>3. \E g \in [SUBSET (1 .. n) -> A] : FoldsBy(g, o, none, list, n)
      BY <2>1, <2>2, FoldExists
    <2> QED BY <2>3 DEF none
  <1>2. g \in [SUBSET D -> A] /\ \A t \in SUBSET D : g[t] = FoldStep(g, o, <<>>, list, t)
    BY <1>a DEF FoldsBy
  <1>3. ASSUME NEW t \in SUBSET D, t # {} PROVE Max(t) \in D /\ t \ {Max(t)} \in SUBSET D
    <2>1. IsFiniteSet(D) /\ D \in SUBSET Int
      BY <1>0, FS_Interval
    <2>2. IsFiniteSet(t) /\ t \in SUBSET Int
      <3> HIDE DEF D
      <3> QED BY <2>1, FS_Subset
    <2>3. \E m \in t : \A y \in t : m >= y
      BY <1>3, <2>2, GreatestElement
    <2> QED BY <2>3 DEF Max
  <1>4. g = raw(g)
    <2>1. ASSUME NEW t \in SUBSET D
          PROVE  g[t] = IF t = {} THEN <<>> ELSE next(g[t \ {Max(t)}], list[Max(t)])
      <3>1. CASE t = {}
        BY <1>2, <3>1 DEF FoldStep
      <3>2. CASE t # {}
        <4>1. Max(t) \in D /\ t \ {Max(t)} \in SUBSET D
          BY <1>3, <3>2
        <4>2. <<g[t \ {Max(t)}], list[Max(t)]>> \in A \X D
          BY <1>9, <4>1
        <4>3. o[<<g[t \ {Max(t)}], list[Max(t)]>>] = next(g[t \ {Max(t)}], list[Max(t)])
          BY <4>2 DEF o
        <4> QED BY <1>2, <3>2, <4>3 DEF FoldStep
      <3> QED BY <3>1, <3>2
    <2> QED BY <2>1
  <1>5. it = raw(it)
    <2>1. \E f : f = raw(f)
      BY <1>4
    <2> HIDE DEF raw
    <2> QED BY ONLY <2>1, Zenon DEF it
  <1>6. Vwap(p) = it[D]
    <2>1. DOMAIN list = D
      BY <1>9
    <2> QED BY <2>1, Zenon DEF Vwap, FoldLeft, MapThenFoldSet, next
  <1> HIDE DEF it
  <1>7. \A t \in SUBSET D : it[t] = IF t = {} THEN <<>> ELSE next(it[t \ {Max(t)}], list[Max(t)])
    BY <1>5
  <1>8. SlicesBy(it, p, n)
    <2>1. it[{}] = <<>>
      BY <1>7
    <2>2. ASSUME NEW k \in 1 .. n
          PROVE  it[1 .. k] = next(it[(1 .. k) \ {Max(1 .. k)}], k)
      <3>1. 1 .. k \in SUBSET D /\ 1 .. k # {}
        <4>1. 1 \in 1 .. k /\ \A x \in 1 .. k : x \in D
          BY <1>0
        <4> QED BY <4>1
      <3>2. Max(1 .. k) = k /\ list[k] = k
        BY <1>0, <1>9, LastOfFirst
      <3> QED BY <1>7, <3>1, <3>2
    <2> QED BY <2>1, <2>2 DEF SlicesBy, next
  <1> QED BY <1>6, <1>8 DEF n

(* The slices by volume.                                                   *)
LEMMA VwapSlices ==
    ASSUME NEW p \in ParentOrder, Sliceable(p)
    PROVE  LET v == Vwap(p) IN
           /\ SumFunction(v) = p.total
           /\ \A i \in DOMAIN v : v[i] >= 0
           /\ \A i \in 1 .. Len(v) - 1 : v[i] * SumFunction(p.profile) - p.total * p.profile[i]
                                             < SumFunction(p.profile)
<1> DEFINE n == Len(p.profile)
           sum == SumFunction(p.profile)
           total == p.total
           part(i) == ShareOf(total, p.profile[i], sum)
<1>1. PICK g : Vwap(p) = g[1 .. n] /\ SlicesBy(g, p, n)
  BY VwapFolds
<1>2. total \in Nat \ {0} /\ n \in Nat \ {0} /\ sum \in Nat \ {0} /\ \A i \in 1 .. n : p.profile[i] \in Nat
  BY SliceableFacts
<1> DEFINE h(k) == g[1 .. k]
           Ahead(k) == /\ h(k) \in Seq(Nat) /\ Len(h(k)) = k
                       /\ SumFunction(h(k)) \in Nat /\ SumFunction(h(k)) <= total
                       /\ k = n => SumFunction(h(k)) = total
                       /\ \A i \in 1 .. k : i < n => h(k)[i] <= part(i)
           T == {k \in 0 .. n : Ahead(k)}
<1> HIDE DEF n, sum, total
<1>3. 0 \in T
  <2>1. 1 .. 0 = {}
    OBVIOUS
  <2>2. h(0) = <<>>
    BY <1>1, <2>1 DEF SlicesBy
  <2>3. SumFunction(h(0)) = 0
    BY <2>2, EmptySums
  <2>4. h(0) \in Seq(Nat) /\ Len(h(0)) = 0
    BY <2>2
  <2>5. 0 \in 0 .. n /\ 0 # n /\ 0 <= total
    BY <1>2
  <2> HIDE DEF h, part
  <2> QED BY <2>1, <2>3, <2>4, <2>5
<1>4. ASSUME NEW k \in 1 .. n, k - 1 \in T PROVE k \in T
  <2>1. (1 .. k) \ {Max(1 .. k)} = 1 .. (k - 1)
    BY LastOfFirst
  <2> DEFINE s == h(k - 1)  done == SumFunction(s)  x == Amount(p, k, done)  q == part(k)
  <2>2. h(k) = Append(s, x)
    BY <1>1, <2>1 DEF SlicesBy
  <2>3. Ahead(k - 1)
    BY <1>4
  <2>4. /\ s \in Seq(Nat) /\ Len(s) = k - 1 /\ done \in Nat /\ done <= total
        /\ \A i \in 1 .. (k - 1) : i < n => s[i] <= part(i)
    BY <2>3
  <2>5. q \in Nat
    BY <1>2, ShareNear
  <2>6. x = IF k = n THEN total - done ELSE Min({q, total - done})
    BY DEF Amount, n, sum, total
  <2> HIDE DEF s, done, x, q, h, part
  <2>7. total - done \in Nat
    BY <1>2, <2>4
  <2>8. Min({q, total - done}) \in Nat /\ Min({q, total - done}) <= q /\ Min({q, total - done}) <= total - done
    <3> DEFINE rest == total - done
    <3>1. rest \in Nat
      BY <2>7
    <3> HIDE DEF rest
    <3>2. \E a \in {q, rest} : \A b \in {q, rest} : a <= b
      BY <2>5, <3>1
    <3>3. Min({q, rest}) \in {q, rest} /\ \A b \in {q, rest} : Min({q, rest}) <= b
      BY <3>2 DEF Min
    <3> QED BY <2>5, <3>1, <3>3 DEF rest
  <2>9. x \in Nat /\ x <= total - done /\ (k < n => x <= q) /\ (k = n => x = total - done)
    BY <1>2, <2>6, <2>7, <2>8
  <2>10. SumFunction(h(k)) = done + x
    <3>1. s \in Seq(Int) /\ x \in Int
      BY <2>4, <2>9
    <3> QED BY <2>2, <3>1, AppendSums DEF done
  <2>11. h(k) \in Seq(Nat) /\ Len(h(k)) = k /\ h(k)[k] = x /\ \A i \in 1 .. (k - 1) : h(k)[i] = s[i]
    BY <2>2, <2>4, <2>9
  <2>12. \A i \in 1 .. k : i < n => h(k)[i] <= part(i)
    <3>1. \A i \in 1 .. k : i = k \/ i \in 1 .. (k - 1)
      OBVIOUS
    <3> QED BY <2>4, <2>9, <2>11, <3>1 DEF q
  <2>13. SumFunction(h(k)) \in Nat /\ SumFunction(h(k)) <= total /\ (k = n => SumFunction(h(k)) = total)
    BY <1>2, <2>4, <2>9, <2>10
  <2>14. Ahead(k)
    BY ONLY <2>11, <2>12, <2>13
  <2>15. k \in 0 .. n
    BY <1>2
  <2> HIDE DEF Ahead
  <2> QED BY ONLY <2>14, <2>15
<1>5. n \in T
  <2> HIDE DEF T
  <2>1. \A k \in 0 .. n : k \in T
    BY <1>2, <1>3, <1>4, CountsUp
  <2> QED BY <1>2, <2>1
<1> DEFINE v == Vwap(p)
<1>6. v = h(n) /\ Ahead(n)
  BY <1>1, <1>5
<1> HIDE DEF h, v
<1>7. v \in Seq(Nat) /\ Len(v) = n /\ SumFunction(v) = total /\ \A i \in 1 .. n : i < n => v[i] <= part(i)
  BY <1>6
<1> HIDE DEF part
<1>8. \A i \in DOMAIN v : v[i] >= 0
  BY <1>7
<1>9. ASSUME NEW i \in 1 .. Len(v) - 1 PROVE v[i] * sum - total * p.profile[i] < sum
  <2>1. i \in 1 .. n /\ i < n /\ v[i] \in Nat
    BY <1>2, <1>7
  <2>2. v[i] <= part(i) /\ p.profile[i] \in Nat
    BY <1>2, <1>7, <2>1
  <2> QED BY <1>2, <2>1, <2>2, ShareNear DEF part
<1> QED BY <1>7, <1>8, <1>9 DEF v, sum, total

(***************************************************************************)
(* The price of an auction and the slices of a parent order, for any       *)
(* number of orders, any quantities and any profile: the price trades the  *)
(* most at the least imbalance, and the lowest of those; slices add up to  *)
(* the parent and none is negative (reopening_auction_price,               *)
(* twap_schedule, vwap_schedule).                                          *)
(***************************************************************************)
THEOREM AuctionsClearAndSlicesAddUp ==
    RulesInit /\ [][FALSE]_rulesVars => []TradingRulesHold
<1>1. RulesInit => RulesType
  <2>1. \A o \in BoundedSeq(AuctionOrder, AuctionSize) : o \in Seq(AuctionOrder)
    <3>1. ASSUME NEW m \in 0 .. AuctionSize, NEW s \in [1 .. m -> AuctionOrder]
          PROVE  s \in Seq(AuctionOrder)
      BY <3>1, RulesAssumption
    <3> QED BY <3>1 DEF BoundedSeq, SeqOf
  <2>2. <<>> \in Seq(AuctionOrder)
    OBVIOUS
  <2> QED BY <2>1, <2>2 DEF RulesInit, RulesType
<1>2. RulesType /\ [FALSE]_rulesVars => RulesType'
  BY DEF RulesType, rulesVars, Sliceable, AuctionOrder, ParentOrder
<1>3. RulesType => TradingRulesHold
  <2>1. ASSUME RulesType, parent # <<>> PROVE parent \in ParentOrder /\ Sliceable(parent)
    BY <2>1 DEF RulesType
  <2>2. ASSUME RulesType PROVE SlicesAddUp
    <3>1. CASE parent = <<>>
      BY <3>1 DEF SlicesAddUp
    <3>2. CASE parent # <<>>
      <4>1. parent \in ParentOrder /\ Sliceable(parent)
        BY <2>1, <2>2, <3>2
      <4> QED BY <4>1, TwapSlices, VwapSlices DEF SlicesAddUp
    <3> QED BY <3>1, <3>2
  <2> QED BY <2>2, PriceClears DEF TradingRulesHold
<1> QED BY <1>1, <1>2, <1>3, PTL
-----------------------------------------------------------------------------
(***************************************************************************)
(* The history of an index.  Its invariant: snapshots come in ascending    *)
(* order of their dates, there is one for each date that has a composition *)
(* and it holds the composition first accepted for it.                     *)
(***************************************************************************)

Snapshot == [date : Dates, composition : {1, 2}]

Recorded(list) ==
    /\ list \in Seq(Snapshot)
    /\ \A i \in DOMAIN list : frozen[list[i].date] = list[i].composition
    /\ \A d \in Dates : frozen[d] # 0 => \E i \in DOMAIN list : list[i].date = d

ByDates(list) == \A i, j \in DOMAIN list : i < j => list[i].date < list[j].date

HistoryInv ==
    /\ frozen \in [Dates -> 0 .. 2]
    /\ Recorded(snapshots) /\ ByDates(snapshots)

\* What a date answered is the composition of the latest date up to it, unless that one
\* was set late.
KnownInv ==
    /\ atItsDate \in [Dates -> 0 .. 2]
    /\ \A date \in Dates : (\A d \in Dates : d <= date => frozen[d] = 0) => atItsDate[date] = 0
    /\ \A date, m \in Dates :
           m <= date /\ frozen[m] # 0 /\ (\A d \in Dates : m < d /\ d <= date => frozen[d] = 0)
             => m \in late \/ atItsDate[date] = frozen[m]

LEMMA SnapshotFacts ==
    ASSUME NEW s \in Snapshot
    PROVE  s.date \in Dates /\ s.date \in Int /\ s.composition \in {1, 2}
<1>1. s.date \in Dates /\ s.composition \in {1, 2}
  BY DEF Snapshot
<1> QED BY <1>1, IndexAssumption

(* Snapshots of different dates can be sorted by date.                     *)
LEMMA ByDateSorts ==
    ASSUME NEW list \in Seq(Snapshot),
           \A i, j \in DOMAIN list : list[i].date = list[j].date => i = j
    PROVE  /\ ByDate(list) \in [DOMAIN list -> Range(list)] /\ ByDates(ByDate(list))
           /\ ByDate(list) \in Seq(Snapshot)
           /\ \A i \in DOMAIN list : \E j \in DOMAIN list : ByDate(list)[j] = list[i]
<1> DEFINE n == Len(list)
           D == 1 .. n
           at == [i \in D |-> list[i].date]
           S == {at[i] : i \in D}
           place == [d \in S |-> CHOOSE i \in D : at[i] = d]
<1>1. n \in Nat /\ DOMAIN list = D /\ IsFiniteSet(D) /\ Cardinality(D) = n
      /\ \A i \in D : list[i] \in Snapshot /\ at[i] = list[i].date /\ at[i] \in Int
  <2>1. n \in Nat /\ DOMAIN list = D /\ \A i \in D : list[i] \in Snapshot
    OBVIOUS
  <2>2. \A i \in D : at[i] \in Int
    BY <2>1, SnapshotFacts
  <2>3. IsFiniteSet(D) /\ Cardinality(D) = n
    <3> HIDE DEF n
    <3> QED BY <2>1, FS_Interval
  <2>4. \A i \in D : list[i] \in Snapshot /\ at[i] = list[i].date
    BY <2>1
  <2> HIDE DEF D, at, n
  <2> QED BY <2>1, <2>2, <2>3, <2>4
<1>2. \A i, j \in D : at[i] = at[j] => i = j
  BY <1>1
<1> HIDE DEF n, at
<1>3. S \in SUBSET Int /\ at \in Bijection(D, S)
  <2>1. at = [i \in D |-> at[i]]
    BY DEF at
  <2> QED BY <1>1, <1>2, <2>1 DEF Bijection, Injection, Surjection, IsInjective
<1>4. IsFiniteSet(S) /\ Cardinality(S) = n
  <2>1. ExistsBijection(D, S)
    BY <1>3 DEF ExistsBijection
  <2> HIDE DEF S, D
  <2> QED BY <1>1, <2>1, FS_Bijection
<1>5. PICK s \in [1 .. n -> S] : \A i, j \in 1 .. n : i < j => s[i] < s[j]
  <2> HIDE DEF S
  <2> QED BY <1>3, <1>4, AscendingList
<1>6. \A d \in S : place[d] \in D /\ at[place[d]] = d
  OBVIOUS
<1> DEFINE sorted == [i \in D |-> list[place[s[i]]]]
<1> HIDE DEF place, S
<1>7. sorted \in [DOMAIN list -> Range(list)] /\ \A i \in D : sorted[i].date = s[i]
  <2>1. \A i \in D : place[s[i]] \in D /\ at[place[s[i]]] = s[i]
    BY <1>5, <1>6
  <2> QED BY <1>1, <2>1 DEF Range
<1>8. \A i, j \in DOMAIN list : i < j => sorted[i].date < sorted[j].date
  BY <1>1, <1>5, <1>7
<1> HIDE DEF sorted
<1> DEFINE t == ByDate(list)
<1>9. t \in [DOMAIN list -> Range(list)] /\ \A i, j \in DOMAIN list : i < j => t[i].date < t[j].date
  BY <1>7, <1>8 DEF ByDate
<1> HIDE DEF t
<1>10. DOMAIN t = D /\ ByDates(t)
  BY <1>1, <1>9 DEF ByDates
<1>11. \A i \in D : t[i] \in Snapshot
  BY <1>1, <1>9, <1>10 DEF Range
<1>12. t \in Seq(Snapshot)
  BY <1>1, <1>10, <1>11, <1>9
<1>13. ASSUME NEW i \in D PROVE \E j \in D : t[j] = list[i]
  <2> DEFINE from == [j \in D |-> CHOOSE k \in D : list[k] = t[j]]
  <2>1. \A j \in D : from[j] \in D /\ list[from[j]] = t[j]
    <3>1. \A j \in D : \E k \in D : list[k] = t[j]
      BY <1>1, <1>9 DEF Range
    <3> QED BY <3>1
  <2>2. from \in [D -> D]
    BY <2>1
  <2> HIDE DEF from
  <2>3. \A j, k \in D : from[j] = from[k] => j = k
    <3>1. ASSUME NEW j \in D, NEW k \in D, from[j] = from[k] PROVE j = k
      <4>1. t[j] = t[k]
        BY <2>1, <3>1
      <4>2. t[j].date \in Int /\ ~(t[j].date < t[j].date)
        BY <1>11, SnapshotFacts
      <4>3. ~(j < k) /\ ~(k < j)
        BY <1>10, <4>1, <4>2 DEF ByDates
      <4> QED BY <1>1, <4>3
    <3> QED BY <3>1
  <2>4. from \in [1 .. Cardinality(D) -> D] /\ \A j, k \in 1 .. Cardinality(D) : from[j] = from[k] => j = k
    BY <1>1, <2>2, <2>3
  <2>5. \A x \in D : \E j \in 1 .. Cardinality(D) : from[j] = x
    <3> HIDE DEF D
    <3> QED BY <1>1, <2>4, ListsAll
  <2>6. PICK j \in D : from[j] = i
    BY <1>1, <2>5
  <2> QED BY <2>1, <2>6
<1> QED BY <1>1, <1>9, <1>10, <1>12, <1>13 DEF t

LEMMA HistoryStarts ==
    ASSUME NoHistory PROVE HistoryInv /\ KnownInv
<1>1. HistoryInv
  BY DEF NoHistory, HistoryInv, Recorded, ByDates
<1>2. \A d \in Dates : frozen[d] = 0 /\ atItsDate[d] = 0
  BY DEF NoHistory
<1>3. atItsDate \in [Dates -> 0 .. 2]
  BY DEF NoHistory
<1>4. KnownInv
  BY <1>2, <1>3 DEF KnownInv
<1> QED BY <1>1, <1>4

LEMMA HistoryRebalances ==
    ASSUME HistoryInv, NEW date \in Dates, NEW composition \in {1, 2}, Rebalance(date, composition)
    PROVE  HistoryInv'
<1> DEFINE new == [date |-> date, composition |-> composition]
           list == Append(snapshots, new)
           n == Len(snapshots)
<1>1. snapshots \in Seq(Snapshot) /\ n \in Nat /\ DOMAIN snapshots = 1 .. n /\ new \in Snapshot
      /\ frozen \in [Dates -> 0 .. 2]
  BY DEF HistoryInv, Recorded, Snapshot
<1>2. /\ \A i \in 1 .. n : snapshots[i].date # date
      /\ snapshots' = ByDate(list)
      /\ frozen' = [frozen EXCEPT ![date] = composition]
  BY <1>1 DEF Rebalance
<1> HIDE DEF new
<1>3. new.date = date /\ new.composition = composition
  BY DEF new
<1>4. list \in Seq(Snapshot) /\ DOMAIN list = 1 .. (n + 1)
      /\ list[n + 1] = new /\ \A i \in 1 .. n : list[i] = snapshots[i]
  BY <1>1
<1> HIDE DEF list
<1>5. ASSUME NEW i \in 1 .. n, NEW j \in 1 .. n, snapshots[i].date = snapshots[j].date PROVE i = j
  <2>1. snapshots[i].date \in Int /\ ~(snapshots[i].date < snapshots[i].date)
    BY <1>1, SnapshotFacts
  <2>2. ~(i < j) /\ ~(j < i)
    BY <1>1, <1>5, <2>1 DEF HistoryInv, ByDates
  <2> QED BY <1>1, <2>2
<1>6. \A i, j \in DOMAIN list : list[i].date = list[j].date => i = j
  <2>1. \A i \in DOMAIN list : i = n + 1 \/ i \in 1 .. n
    BY <1>1, <1>4
  <2> QED BY <1>2, <1>3, <1>4, <1>5, <2>1
<1>7. /\ snapshots' \in [DOMAIN list -> Range(list)] /\ ByDates(snapshots')
      /\ snapshots' \in Seq(Snapshot)
      /\ \A i \in DOMAIN list : \E j \in DOMAIN list : snapshots'[j] = list[i]
  <2>1. ByDate(list) \in [DOMAIN list -> Range(list)]
    BY <1>4, <1>6, ByDateSorts
  <2>2. ByDates(ByDate(list)) /\ ByDate(list) \in Seq(Snapshot)
    BY <1>4, <1>6, ByDateSorts
  <2>3. \A i \in DOMAIN list : \E j \in DOMAIN list : ByDate(list)[j] = list[i]
    BY <1>4, <1>6, ByDateSorts
  <2> QED BY <1>2, <2>1, <2>2, <2>3
<1>8. frozen' \in [Dates -> 0 .. 2]
  BY <1>1, <1>2
<1>9. \A i \in DOMAIN list : frozen'[list[i].date] = list[i].composition
  <2>1. ASSUME NEW i \in DOMAIN list PROVE frozen'[list[i].date] = list[i].composition
    <3>1. CASE i = n + 1
      BY <1>1, <1>2, <1>3, <1>4, <3>1
    <3>2. CASE i # n + 1
      <4>1. i \in 1 .. n /\ list[i] = snapshots[i]
        BY <1>1, <1>4, <3>2
      <4>2. frozen[list[i].date] = list[i].composition /\ list[i].date # date /\ list[i].date \in Dates
        <5>1. snapshots[i].date \in Dates
          BY <1>1, <4>1, SnapshotFacts
        <5>2. frozen[snapshots[i].date] = snapshots[i].composition
          BY <1>1, <4>1 DEF HistoryInv, Recorded
        <5> QED BY <1>2, <4>1, <5>1, <5>2
      <4> QED BY <1>1, <1>2, <4>2
    <3> QED BY <3>1, <3>2
  <2> QED BY <2>1
<1>10. \A i \in DOMAIN snapshots' : frozen'[snapshots'[i].date] = snapshots'[i].composition
  <2>1. DOMAIN snapshots' = DOMAIN list
    BY <1>7
  <2>2. ASSUME NEW i \in DOMAIN list PROVE \E j \in DOMAIN list : snapshots'[i] = list[j]
    BY <1>7 DEF Range
  <2> QED BY <1>9, <2>1, <2>2
<1>11. ASSUME NEW d \in Dates, frozen'[d] # 0 PROVE \E i \in DOMAIN snapshots' : snapshots'[i].date = d
  <2>1. PICK i \in DOMAIN list : list[i].date = d
    <3>1. CASE d = date
      BY <1>1, <1>3, <1>4, <3>1
    <3>2. CASE d # date
      <4>1. frozen[d] # 0
        BY <1>1, <1>2, <1>11, <3>2
      <4>2. PICK i \in 1 .. n : snapshots[i].date = d
        BY <1>1, <4>1 DEF HistoryInv, Recorded
      <4> QED BY <1>1, <1>4, <4>2
    <3> QED BY <3>1, <3>2
  <2>2. PICK j \in DOMAIN list : snapshots'[j] = list[i]
    BY <1>7
  <2> QED BY <1>7, <2>1, <2>2
<1>12. ByDates(snapshots)'
  BY <1>7 DEF ByDates
<1>13. Recorded(snapshots)'
  BY <1>7, <1>10, <1>11 DEF Recorded, Snapshot
<1> QED BY <1>8, <1>12, <1>13 DEF HistoryInv

\* A back-dated composition is remembered as late, and any other one as what its date and
\* the dates after it answer.
LEMMA KnownRebalances ==
    ASSUME HistoryInv, KnownInv, NEW date \in Dates, NEW composition \in {1, 2}, Rebalance(date, composition)
    PROVE  KnownInv'
<1> DEFINE backdated == \E i \in DOMAIN snapshots : date < snapshots[i].date
<1>1. /\ Dates \subseteq Int /\ frozen \in [Dates -> 0 .. 2] /\ atItsDate \in [Dates -> 0 .. 2]
      /\ frozen' = [frozen EXCEPT ![date] = composition]
      /\ atItsDate' = IF backdated THEN atItsDate ELSE [d \in Dates |-> IF d < date THEN atItsDate[d] ELSE composition]
      /\ late' = IF backdated THEN late \union {date} ELSE late
  <2>1. /\ frozen' = [frozen EXCEPT ![date] = composition]
        /\ atItsDate' = IF backdated THEN atItsDate ELSE [d \in Dates |-> IF d < date THEN atItsDate[d] ELSE composition]
        /\ late' = IF backdated THEN late \union {date} ELSE late
    BY Zenon DEF Rebalance
  <2>2. Dates \subseteq Int /\ frozen \in [Dates -> 0 .. 2] /\ atItsDate \in [Dates -> 0 .. 2]
    BY IndexAssumption DEF HistoryInv, KnownInv
  <2> QED BY <2>1, <2>2
<1>2. frozen[date] = 0
  BY DEF HistoryInv, Recorded, Rebalance
<1>3. ~backdated => \A d \in Dates : date < d => frozen[d] = 0
  BY DEF HistoryInv, Recorded
<1> HIDE DEF backdated
<1>4. atItsDate' \in [Dates -> 0 .. 2]
  BY <1>1
<1>5. /\ frozen'[date] = composition /\ composition # 0
      /\ \A d \in Dates : d # date => frozen'[d] = frozen[d]
  BY <1>1
<1>6. ASSUME NEW at \in Dates, \A d \in Dates : d <= at => frozen'[d] = 0 PROVE atItsDate'[at] = 0
  <2>1. at < date
    BY <1>1, <1>5, <1>6
  <2>2. \A d \in Dates : d <= at => frozen[d] = 0
    BY <1>2, <1>5, <1>6
  <2>3. atItsDate[at] = 0
    BY <2>2 DEF KnownInv
  <2> QED BY <1>1, <2>1, <2>3
<1>7. ASSUME NEW at \in Dates, NEW m \in Dates, m <= at, frozen'[m] # 0,
             \A d \in Dates : m < d /\ d <= at => frozen'[d] = 0
      PROVE  m \in late' \/ atItsDate'[at] = frozen'[m]
  <2>1. CASE m = date
    <3>1. CASE backdated
      BY <1>1, <2>1, <3>1
    <3>2. CASE ~backdated
      <4>1. atItsDate'[at] = composition
        BY <1>1, <1>7, <2>1, <3>2
      <4> QED BY <1>5, <2>1, <4>1
    <3> QED BY <3>1, <3>2
  <2>2. CASE m # date
    <3>1. frozen'[m] = frozen[m] /\ frozen[m] # 0
      BY <1>5, <1>7, <2>2
    <3>2. \A d \in Dates : m < d /\ d <= at => frozen[d] = 0
      BY <1>2, <1>5, <1>7
    <3>3. m \in late \/ atItsDate[at] = frozen[m]
      BY <1>7, <3>1, <3>2 DEF KnownInv
    <3>4. CASE backdated
      BY <1>1, <3>1, <3>3, <3>4
    <3>5. CASE ~backdated
      <4>1. m < date
        BY <1>1, <1>3, <2>2, <3>1, <3>5
      <4>2. at < date
        BY <1>1, <1>5, <1>7, <4>1
      <4>3. atItsDate'[at] = atItsDate[at] /\ late' = late
        BY <1>1, <3>5, <4>2
      <4> QED BY <3>1, <3>3, <4>3
    <3> QED BY <3>4, <3>5
  <2> QED BY <2>1, <2>2
<1> QED BY <1>4, <1>6, <1>7 DEF KnownInv

\* A date answers the composition of the latest date up to it, or none.
LEMMA LatestTells ==
    ASSUME HistoryInv, NEW date \in Dates,
           NEW set, set = {d \in Dates : d <= date /\ frozen[d] # 0}
    PROVE  \/ set = {} /\ CompositionAt(date) = 0
           \/ \E last \in set : (\A e \in set : e <= last) /\ CompositionAt(date) = frozen[last]
<1> DEFINE past == {i \in DOMAIN snapshots : snapshots[i].date <= date}
           n == Len(snapshots)
<1>1. /\ snapshots \in Seq(Snapshot) /\ n \in Nat /\ DOMAIN snapshots = 1 .. n
      /\ frozen \in [Dates -> 0 .. 2] /\ Dates \subseteq Int
      /\ \A i \in 1 .. n : /\ snapshots[i].date \in Dates /\ snapshots[i].composition # 0
                           /\ frozen[snapshots[i].date] = snapshots[i].composition
      /\ \A d \in Dates : frozen[d] # 0 => \E i \in 1 .. n : snapshots[i].date = d
      /\ \A i, j \in 1 .. n : i < j => snapshots[i].date < snapshots[j].date
  <2>1. snapshots \in Seq(Snapshot) /\ n \in Nat /\ DOMAIN snapshots = 1 .. n
    BY DEF HistoryInv, Recorded
  <2>2. \A i \in 1 .. n : snapshots[i].date \in Dates /\ snapshots[i].composition \in {1, 2}
    BY <2>1, SnapshotFacts
  <2>3. Dates \subseteq Int
    BY IndexAssumption
  <2>4. frozen \in [Dates -> 0 .. 2] /\ \A i \in 1 .. n : frozen[snapshots[i].date] = snapshots[i].composition
    BY <2>1 DEF HistoryInv, Recorded
  <2>5. /\ \A d \in Dates : frozen[d] # 0 => \E i \in 1 .. n : snapshots[i].date = d
        /\ \A i, j \in 1 .. n : i < j => snapshots[i].date < snapshots[j].date
    BY <2>1 DEF HistoryInv, Recorded, ByDates
  <2> QED BY <2>1, <2>2, <2>3, <2>4, <2>5
<1>2. CompositionAt(date) = IF past = {} THEN 0 ELSE snapshots[Max(past)].composition
  BY DEF CompositionAt
<1>3. \A i \in past : snapshots[i].date \in set
  BY <1>1
<1>4. \A d \in set : \E i \in past : snapshots[i].date = d
  BY <1>1
<1>5. CASE past = {}
  <2>1. set = {}
    BY <1>4, <1>5
  <2> QED BY <1>2, <1>5, <2>1
<1>6. CASE past # {}
  <2>1. past \in SUBSET Int /\ IsFiniteSet(past)
    <3>1. past \in SUBSET (1 .. n) /\ IsFiniteSet(1 .. n)
      BY <1>1, FS_Interval
    <3>2. 1 .. n \in SUBSET Int
      OBVIOUS
    <3> HIDE DEF past
    <3>3. IsFiniteSet(past)
      BY <3>1, FS_Subset
    <3> QED BY <3>1, <3>2, <3>3
  <2> DEFINE m == Max(past)  last == snapshots[m].date
  <2>2. m \in past /\ \A i \in past : m >= i
    <3> HIDE DEF past
    <3>1. \E x \in past : \A y \in past : x >= y
      BY <1>6, <2>1, GreatestElement
    <3> QED BY <3>1 DEF Max
  <2> HIDE DEF m
  <2>3. last \in set
    BY <1>3, <2>2
  <2>4. \A e \in set : e <= last
    <3>1. ASSUME NEW e \in set PROVE e <= last
      <4>1. PICK i \in past : snapshots[i].date = e
        BY <1>4
      <4>2. i \in 1 .. n /\ m \in 1 .. n /\ (i = m \/ i < m)
        BY <1>1, <2>1, <2>2
      <4>3. snapshots[m].date \in Int
        BY <1>1, <4>2
      <4> QED BY <1>1, <4>1, <4>2, <4>3
    <3> QED BY <3>1
  <2>5. frozen[last] = snapshots[m].composition
    BY <1>1, <2>2
  <2> HIDE DEF last, past
  <2> QED BY <1>2, <1>6, <2>3, <2>4, <2>5 DEF m
<1> QED BY <1>5, <1>6

LEMMA HistoryTells ==
    ASSUME HistoryInv PROVE HistoryIsFrozen
<1> SUFFICES ASSUME NEW date \in Dates
             PROVE  LET set == {d \in Dates : d <= date /\ frozen[d] # 0}
                    IN  CompositionAt(date)
                            = IF set = {} THEN 0 ELSE frozen[CHOOSE d \in set : \A e \in set : e <= d]
  BY DEF HistoryIsFrozen
<1> DEFINE set == {d \in Dates : d <= date /\ frozen[d] # 0}
<1>1. set \in SUBSET Int
  BY IndexAssumption
<1>2. \/ set = {} /\ CompositionAt(date) = 0
      \/ \E last \in set : (\A e \in set : e <= last) /\ CompositionAt(date) = frozen[last]
  BY LatestTells
<1> HIDE DEF set
<1>3. CASE set = {}
  BY <1>2, <1>3 DEF set
<1>4. CASE set # {}
  <2>1. PICK last \in set : (\A e \in set : e <= last) /\ CompositionAt(date) = frozen[last]
    BY <1>2, <1>4
  <2>2. \A d \in set : (\A e \in set : e <= d) <=> d = last
    BY <1>1, <2>1
  <2>3. (CHOOSE d \in set : \A e \in set : e <= d) = last
    BY <2>1, <2>2
  <2> QED BY <1>4, <2>1, <2>3 DEF set
<1> QED BY <1>3, <1>4

LEMMA PastKept ==
    ASSUME HistoryInv, KnownInv PROVE PastIsKept
<1> SUFFICES ASSUME NEW date \in Dates
             PROVE  CompositionAt(date) # atItsDate[date] =>
                        \E d \in late : d <= date /\ frozen[d] = CompositionAt(date)
  BY Zenon DEF PastIsKept
<1> DEFINE set == {d \in Dates : d <= date /\ frozen[d] # 0}
<1>1. \/ set = {} /\ CompositionAt(date) = 0
      \/ \E last \in set : (\A e \in set : e <= last) /\ CompositionAt(date) = frozen[last]
  BY LatestTells
<1>2. CASE set = {} /\ CompositionAt(date) = 0
  <2>1. \A d \in Dates : d <= date => frozen[d] = 0
    BY <1>2
  <2>2. atItsDate[date] = 0
    BY <2>1 DEF KnownInv
  <2> QED BY <1>2, <2>2
<1>3. CASE \E last \in set : (\A e \in set : e <= last) /\ CompositionAt(date) = frozen[last]
  <2>1. PICK last \in set : (\A e \in set : e <= last) /\ CompositionAt(date) = frozen[last]
    BY <1>3
  <2>2. last \in Dates /\ last <= date /\ frozen[last] # 0
    BY <2>1
  <2>3. ASSUME NEW d \in Dates, last < d, d <= date PROVE frozen[d] = 0
    <3>1. d \in Int /\ last \in Int /\ (d \in set => d <= last)
      BY <2>1, <2>2, IndexAssumption
    <3> QED BY <2>3, <3>1
  <2>4. last \in late \/ atItsDate[date] = frozen[last]
    BY <2>2, <2>3 DEF KnownInv
  <2> QED BY <2>1, <2>2, <2>4
<1> QED BY <1>1, <1>2, <1>3

(***************************************************************************)
(* For any dates, in whatever order they are set: the composition of a     *)
(* date is the first one accepted for the latest date up to it, and other  *)
(* than it was while no later date was set only by a composition that was  *)
(* set late (IndexHistory of packages/index-engine).                       *)
(***************************************************************************)
THEOREM CompositionsStayFrozen ==
    IndexInit /\ [][IndexNext]_indexVars => [](HistoryIsFrozen /\ PastIsKept)
<1>1. IndexInit => HistoryInv /\ KnownInv
  BY HistoryStarts DEF IndexInit
<1>2. HistoryInv /\ KnownInv /\ [IndexNext]_indexVars => HistoryInv' /\ KnownInv'
  <2>1. HistoryInv /\ KnownInv /\ IndexNext => HistoryInv' /\ KnownInv'
    BY HistoryRebalances, KnownRebalances DEF IndexNext
  <2>2. HistoryInv /\ UNCHANGED indexVars => HistoryInv'
    BY DEF HistoryInv, Recorded, ByDates, Snapshot, indexVars
  <2>3. KnownInv /\ UNCHANGED indexVars => KnownInv'
    BY DEF KnownInv, indexVars
  <2> QED BY <2>1, <2>2, <2>3
<1>3. HistoryInv /\ KnownInv => HistoryIsFrozen /\ PastIsKept
  BY HistoryTells, PastKept
<1> QED BY <1>1, <1>2, <1>3, PTL
-----------------------------------------------------------------------------
(***************************************************************************)
(* The buffer of an index.                                                 *)
(***************************************************************************)

(* What an id at the end of a list changes.                                *)
LEMMA JoinsOne ==
    ASSUME NEW E, NEW s \in Seq(E), NEW x \in E
    PROVE  /\ Append(s, x) \in Seq(E) /\ Len(Append(s, x)) = Len(s) + 1 /\ Len(s) \in Nat
           /\ \A i \in 1 .. Len(s) : Append(s, x)[i] = s[i]
           /\ ToSet(Append(s, x)) = ToSet(s) \union {x}
           /\ IsInjective(s) /\ x \notin ToSet(s) => IsInjective(Append(s, x))
<1> DEFINE n == Len(s)  t == Append(s, x)
<1>1. /\ n \in Nat /\ DOMAIN s = 1 .. n /\ t \in Seq(E) /\ Len(t) = n + 1 /\ DOMAIN t = 1 .. (n + 1)
      /\ t[n + 1] = x /\ \A i \in 1 .. n : t[i] = s[i]
  OBVIOUS
<1> HIDE DEF n, t
<1>2. \A i \in 1 .. (n + 1) : i = n + 1 \/ i \in 1 .. n
  BY <1>1
<1>3. 1 .. n \subseteq 1 .. (n + 1) /\ n + 1 \in 1 .. (n + 1)
  BY <1>1
<1>4. ToSet(t) = ToSet(s) \union {x}
  BY <1>1, <1>2, <1>3 DEF ToSet
<1>5. ASSUME IsInjective(s), x \notin ToSet(s) PROVE IsInjective(t)
  <2>1. \A i \in 1 .. n : s[i] # x
    BY <1>1, <1>5 DEF ToSet
  <2>2. \A i, j \in 1 .. n : s[i] = s[j] => i = j
    BY <1>1, <1>5 DEF IsInjective
  <2> QED BY <1>1, <1>2, <2>1, <2>2 DEF IsInjective
<1> QED BY <1>1, <1>4, <1>5 DEF n, t

(* A list without repetitions has as many elements as it is long.          *)
LEMMA LongAsItHas ==
    ASSUME NEW E, NEW s \in Seq(E), IsInjective(s)
    PROVE  IsFiniteSet(ToSet(s)) /\ Cardinality(ToSet(s)) = Len(s)
<1> DEFINE n == Len(s)  D == 1 .. n  S == ToSet(s)
<1>1. n \in Nat /\ DOMAIN s = D
  OBVIOUS
<1>2. IsFiniteSet(D) /\ Cardinality(D) = n
  <2> HIDE DEF n
  <2> QED BY <1>1, FS_Interval
<1>3. s \in Bijection(D, S)
  BY <1>1 DEF Bijection, Injection, Surjection, IsInjective, ToSet
<1>4. ExistsBijection(D, S)
  BY <1>3 DEF ExistsBijection
<1> HIDE DEF D, S, n
<1> QED BY <1>2, <1>4, FS_Bijection DEF S, n

(* g is a filter, prefix by prefix.                                        *)
Kept(kept, id, wanted) == IF id \in wanted THEN Append(kept, id) ELSE kept

FiltersBy(g, list, wanted, n) ==
    /\ g[{}] = <<>>
    /\ \A k \in 1 .. n : g[1 .. k] = Kept(g[(1 .. k) \ {Max(1 .. k)}], list[k], wanted)

LEMMA FilterFolds ==
    ASSUME NEW E, NEW n \in Nat, NEW list \in [1 .. n -> E], NEW wanted
    PROVE  \E g : Filter(list, wanted) = g[1 .. n] /\ FiltersBy(g, list, wanted, n)
  <1> DEFINE A == Seq(E)
             none == <<>>
             o == [ab \in A \X E |-> Kept(ab[1], ab[2], wanted)]
             D == 1 .. n
             raw(f) == [t \in SUBSET D |-> IF t = {} THEN none
                                           ELSE Kept(f[t \ {Max(t)}], list[Max(t)], wanted)]
             it == CHOOSE f : f = raw(f)
  <1>0. none \in A /\ list \in [1 .. n -> E] /\ DOMAIN list = D
    OBVIOUS
  <1>1. o \in [A \X E -> A]
    <2>1. \A a \in A, b \in E : Kept(a, b, wanted) \in A
      BY JoinsOne DEF Kept
    <2> HIDE DEF A
    <2> QED BY <2>1
  <1> HIDE DEF o, A, none
  <1>a. PICK g \in [SUBSET (1 .. n) -> A] : FoldsBy(g, o, none, list, n)
    BY <1>0, <1>1, FoldExists
  <1>2. g \in [SUBSET D -> A] /\ \A t \in SUBSET D : g[t] = FoldStep(g, o, none, list, t)
    BY <1>a DEF FoldsBy
  <1>3. ASSUME NEW t \in SUBSET D, t # {} PROVE Max(t) \in D /\ t \ {Max(t)} \in SUBSET D
    <2>1. IsFiniteSet(D) /\ D \in SUBSET Int
      BY FS_Interval
    <2>2. IsFiniteSet(t) /\ t \in SUBSET Int
      <3> HIDE DEF D
      <3> QED BY <2>1, FS_Subset
    <2>3. \E m \in t : \A y \in t : m >= y
      BY <1>3, <2>2, GreatestElement
    <2> QED BY <2>3 DEF Max
  <1>4. g = raw(g)
    <2>1. ASSUME NEW t \in SUBSET D
          PROVE  g[t] = IF t = {} THEN none ELSE Kept(g[t \ {Max(t)}], list[Max(t)], wanted)
      <3>1. CASE t = {}
        BY <1>2, <3>1 DEF FoldStep
      <3>2. CASE t # {}
        <4>1. Max(t) \in D /\ t \ {Max(t)} \in SUBSET D
          BY <1>3, <3>2
        <4>2. <<g[t \ {Max(t)}], list[Max(t)]>> \in A \X E
          BY <1>0, <1>2, <4>1
        <4>3. o[<<g[t \ {Max(t)}], list[Max(t)]>>] = Kept(g[t \ {Max(t)}], list[Max(t)], wanted)
          BY <4>2 DEF o
        <4> QED BY <1>2, <3>2, <4>3 DEF FoldStep
      <3> QED BY <3>1, <3>2
    <2> QED BY <1>2, <2>1
  <1>5. it = raw(it)
    <2>1. \E f : f = raw(f)
      BY <1>4
    <2> HIDE DEF raw
    <2> QED BY ONLY <2>1, Zenon DEF it
  <1>6. Filter(list, wanted) = it[D]
    BY <1>0, Zenon DEF Filter, FoldLeft, MapThenFoldSet, Kept, none
  <1> HIDE DEF it
  <1>7. \A t \in SUBSET D : it[t] = IF t = {} THEN none ELSE Kept(it[t \ {Max(t)}], list[Max(t)], wanted)
    BY <1>5
  <1>8. FiltersBy(it, list, wanted, n)
    <2>1. it[{}] = none
      BY <1>7
    <2>2. ASSUME NEW k \in 1 .. n
          PROVE  it[1 .. k] = Kept(it[(1 .. k) \ {Max(1 .. k)}], list[k], wanted)
      <3>1. 1 .. k \in SUBSET D /\ 1 .. k # {}
        <4>1. 1 \in 1 .. k /\ \A x \in 1 .. k : x \in D
          OBVIOUS
        <4> QED BY <4>1
      <3>2. Max(1 .. k) = k
        BY LastOfFirst
      <3> QED BY <1>7, <3>1, <3>2
    <2> QED BY <2>1, <2>2 DEF FiltersBy, none
  <1> QED BY <1>6, <1>8

(* A filter keeps what is wanted, once.                                    *)
LEMMA Filters ==
    ASSUME NEW E, NEW list \in Seq(E), IsInjective(list), NEW wanted \in SUBSET ToSet(list)
    PROVE  /\ Filter(list, wanted) \in Seq(E) /\ IsInjective(Filter(list, wanted))
           /\ ToSet(Filter(list, wanted)) = wanted
<1> DEFINE n == Len(list)
<1>1. n \in Nat /\ list \in [1 .. n -> E] /\ DOMAIN list = 1 .. n
  OBVIOUS
<1> HIDE DEF n
<1>2. PICK g : Filter(list, wanted) = g[1 .. n] /\ FiltersBy(g, list, wanted, n)
  BY <1>1, FilterFolds
<1> DEFINE h(k) == g[1 .. k]
           Ahead(k) == /\ h(k) \in Seq(E) /\ IsInjective(h(k))
                       /\ ToSet(h(k)) = {list[i] : i \in 1 .. k} \cap wanted
           T == {k \in 0 .. n : Ahead(k)}
<1>3. 0 \in T
  <2>1. 1 .. 0 = {}
    OBVIOUS
  <2>2. h(0) = <<>>
    BY <1>2, <2>1 DEF FiltersBy
  <2>3. <<>> \in Seq(E) /\ IsInjective(<<>>) /\ ToSet(<<>>) = {}
    BY DEF IsInjective, ToSet
  <2> HIDE DEF h
  <2>4. {list[i] : i \in 1 .. 0} = {}
    BY <2>1
  <2>5. Ahead(0)
    BY <2>2, <2>3, <2>4
  <2> HIDE DEF Ahead
  <2>6. 0 \in 0 .. n
    BY <1>1
  <2> QED BY <2>5, <2>6
<1>4. ASSUME NEW k \in 1 .. n, k - 1 \in T PROVE k \in T
  <2>1. (1 .. k) \ {Max(1 .. k)} = 1 .. (k - 1)
    BY LastOfFirst
  <2> DEFINE s == h(k - 1)  x == list[k]
  <2>2. h(k) = Kept(s, x, wanted)
    BY <1>2, <2>1 DEF FiltersBy
  <2>3. Ahead(k - 1)
    BY <1>4
  <2>4. s \in Seq(E) /\ IsInjective(s) /\ ToSet(s) = {list[i] : i \in 1 .. (k - 1)} \cap wanted /\ x \in E
    BY <1>1, <2>3
  <2>5. \A i \in 1 .. k : i = k \/ i \in 1 .. (k - 1)
    OBVIOUS
  <2>6. k \in 0 .. n /\ k \in 1 .. k /\ \A i \in 1 .. (k - 1) : i \in 1 .. k
    BY <1>1
  <2>7. {list[i] : i \in 1 .. k} = {list[i] : i \in 1 .. (k - 1)} \union {x}
    BY <2>5, <2>6
  <2>8. x \notin {list[i] : i \in 1 .. (k - 1)}
    <3>1. ASSUME NEW i \in 1 .. (k - 1), list[i] = list[k] PROVE FALSE
      <4>1. i \in 1 .. n /\ i # k
        BY <1>1
      <4> QED BY <1>1, <3>1, <4>1 DEF IsInjective
    <3> QED BY <3>1
  <2> HIDE DEF s, x, h
  <2>9. CASE x \in wanted
    <3>1. h(k) = Append(s, x) /\ x \notin ToSet(s)
      BY <2>2, <2>4, <2>8, <2>9 DEF Kept
    <3>2. Append(s, x) \in Seq(E) /\ ToSet(Append(s, x)) = ToSet(s) \union {x} /\ IsInjective(Append(s, x))
      BY <2>4, <3>1, JoinsOne
    <3>3. Ahead(k)
      BY <2>4, <2>7, <2>9, <3>1, <3>2
    <3> HIDE DEF Ahead
    <3> QED BY <2>6, <3>3
  <2>10. CASE x \notin wanted
    <3>1. h(k) = s
      BY <2>2, <2>10 DEF Kept
    <3>2. Ahead(k)
      BY <2>4, <2>7, <2>10, <3>1
    <3> HIDE DEF Ahead
    <3> QED BY <2>6, <3>2
  <2> QED BY <2>9, <2>10
<1>5. n \in T
  <2> HIDE DEF T
  <2>1. \A k \in 0 .. n : k \in T
    BY <1>1, <1>3, <1>4, CountsUp
  <2> QED BY <1>1, <2>1
<1>6. {list[i] : i \in 1 .. n} \cap wanted = wanted
  BY <1>1 DEF ToSet
<1>7. Ahead(n) /\ h(n) = Filter(list, wanted)
  BY <1>2, <1>5
<1> HIDE DEF h
<1> QED BY <1>6, <1>7

(* g fills what room is left, prefix by prefix.                            *)
Admitted(chosen, id, target) ==
    IF Len(chosen) < target /\ id \notin ToSet(chosen) THEN Append(chosen, id) ELSE chosen

FillsBy(g, base, target, n) ==
    /\ g[{}] = base
    /\ \A k \in 1 .. n : g[1 .. k] = Admitted(g[(1 .. k) \ {Max(1 .. k)}], Ranked[k], target)

LEMMA FillFolds ==
    ASSUME NEW E, NEW base \in Seq(E), NEW target \in Nat, NEW n \in Nat, Ranked \in [1 .. n -> E]
    PROVE  \E g : Filled(base, target) = g[1 .. n] /\ FillsBy(g, base, target, n)
  <1> DEFINE A == Seq(E)
             none == base
             o == [ab \in A \X E |-> Admitted(ab[1], ab[2], target)]
             D == 1 .. n
             raw(f) == [t \in SUBSET D |-> IF t = {} THEN none
                                           ELSE Admitted(f[t \ {Max(t)}], Ranked[Max(t)], target)]
             it == CHOOSE f : f = raw(f)
  <1>0. none \in A /\ Ranked \in [1 .. n -> E] /\ DOMAIN Ranked = D
    OBVIOUS
  <1>1. o \in [A \X E -> A]
    <2>1. \A a \in A, b \in E : Admitted(a, b, target) \in A
      BY JoinsOne DEF Admitted
    <2> HIDE DEF A
    <2> QED BY <2>1
  <1> HIDE DEF o, A, none
  <1>a. PICK g \in [SUBSET (1 .. n) -> A] : FoldsBy(g, o, none, Ranked, n)
    BY <1>0, <1>1, FoldExists
  <1>2. g \in [SUBSET D -> A] /\ \A t \in SUBSET D : g[t] = FoldStep(g, o, none, Ranked, t)
    BY <1>a DEF FoldsBy
  <1>3. ASSUME NEW t \in SUBSET D, t # {} PROVE Max(t) \in D /\ t \ {Max(t)} \in SUBSET D
    <2>1. IsFiniteSet(D) /\ D \in SUBSET Int
      BY FS_Interval
    <2>2. IsFiniteSet(t) /\ t \in SUBSET Int
      <3> HIDE DEF D
      <3> QED BY <2>1, FS_Subset
    <2>3. \E m \in t : \A y \in t : m >= y
      BY <1>3, <2>2, GreatestElement
    <2> QED BY <2>3 DEF Max
  <1>4. g = raw(g)
    <2>1. ASSUME NEW t \in SUBSET D
          PROVE  g[t] = IF t = {} THEN none ELSE Admitted(g[t \ {Max(t)}], Ranked[Max(t)], target)
      <3>1. CASE t = {}
        BY <1>2, <3>1 DEF FoldStep
      <3>2. CASE t # {}
        <4>1. Max(t) \in D /\ t \ {Max(t)} \in SUBSET D
          BY <1>3, <3>2
        <4>2. <<g[t \ {Max(t)}], Ranked[Max(t)]>> \in A \X E
          BY <1>0, <1>2, <4>1
        <4>3. o[<<g[t \ {Max(t)}], Ranked[Max(t)]>>] = Admitted(g[t \ {Max(t)}], Ranked[Max(t)], target)
          BY <4>2 DEF o
        <4> QED BY <1>2, <3>2, <4>3 DEF FoldStep
      <3> QED BY <3>1, <3>2
    <2> QED BY <1>2, <2>1
  <1>5. it = raw(it)
    <2>1. \E f : f = raw(f)
      BY <1>4
    <2> HIDE DEF raw
    <2> QED BY ONLY <2>1, Zenon DEF it
  <1>6. Filled(base, target) = it[D]
    BY <1>0, Zenon DEF Filled, FoldLeft, MapThenFoldSet, Admitted, none
  <1> HIDE DEF it
  <1>7. \A t \in SUBSET D : it[t] = IF t = {} THEN none ELSE Admitted(it[t \ {Max(t)}], Ranked[Max(t)], target)
    BY <1>5
  <1>8. FillsBy(it, base, target, n)
    <2>1. it[{}] = none
      BY <1>7
    <2>2. ASSUME NEW k \in 1 .. n
          PROVE  it[1 .. k] = Admitted(it[(1 .. k) \ {Max(1 .. k)}], Ranked[k], target)
      <3>1. 1 .. k \in SUBSET D /\ 1 .. k # {}
        <4>1. 1 \in 1 .. k /\ \A x \in 1 .. k : x \in D
          OBVIOUS
        <4> QED BY <4>1
      <3>2. Max(1 .. k) = k
        BY LastOfFirst
      <3> QED BY <1>7, <3>1, <3>2
    <2> QED BY <2>1, <2>2 DEF FillsBy, none
  <1> QED BY <1>6, <1>8

(* Whoever was chosen stays, the others come in while there is room.       *)
LEMMA Fills ==
    ASSUME NEW E, NEW base \in Seq(E), IsInjective(base), NEW target \in Nat, Len(base) <= target,
           Ranked \in Seq(E)
    PROVE  LET all == Filled(base, target)
           IN  /\ all \in Seq(E) /\ IsInjective(all)
               /\ Len(base) <= Len(all) /\ Len(all) <= target
               /\ \A i \in 1 .. Len(base) : all[i] = base[i]
               /\ ToSet(all) \subseteq ToSet(base) \union ToSet(Ranked)
               /\ Len(all) < target => ToSet(Ranked) \subseteq ToSet(all)
<1> DEFINE n == Len(Ranked)
<1>1. n \in Nat /\ Ranked \in [1 .. n -> E] /\ DOMAIN Ranked = 1 .. n /\ Len(base) \in Nat
  OBVIOUS
<1> HIDE DEF n
<1>2. PICK g : Filled(base, target) = g[1 .. n] /\ FillsBy(g, base, target, n)
  BY <1>1, FillFolds
<1> DEFINE h(k) == g[1 .. k]
           Ahead(k) == /\ h(k) \in Seq(E) /\ IsInjective(h(k))
                       /\ Len(base) <= Len(h(k)) /\ Len(h(k)) <= target
                       /\ \A i \in 1 .. Len(base) : h(k)[i] = base[i]
                       /\ ToSet(h(k)) \subseteq ToSet(base) \union ToSet(Ranked)
                       /\ Len(h(k)) < target => \A i \in 1 .. k : Ranked[i] \in ToSet(h(k))
           T == {k \in 0 .. n : Ahead(k)}
<1>3. 0 \in T
  <2>1. 1 .. 0 = {}
    OBVIOUS
  <2>2. h(0) = base
    BY <1>2, <2>1 DEF FillsBy
  <2> HIDE DEF h
  <2>3. Ahead(0)
    BY <1>1, <2>1, <2>2
  <2> HIDE DEF Ahead
  <2> QED BY <1>1, <2>3
<1>4. ASSUME NEW k \in 1 .. n, k - 1 \in T PROVE k \in T
  <2>1. (1 .. k) \ {Max(1 .. k)} = 1 .. (k - 1)
    BY LastOfFirst
  <2> DEFINE s == h(k - 1)  x == Ranked[k]
  <2>2. h(k) = Admitted(s, x, target)
    BY <1>2, <2>1 DEF FillsBy
  <2>3. Ahead(k - 1)
    BY <1>4
  <2>4. /\ s \in Seq(E) /\ IsInjective(s) /\ Len(base) <= Len(s) /\ Len(s) <= target /\ Len(s) \in Nat
        /\ \A i \in 1 .. Len(base) : s[i] = base[i]
        /\ ToSet(s) \subseteq ToSet(base) \union ToSet(Ranked)
        /\ Len(s) < target => \A i \in 1 .. (k - 1) : Ranked[i] \in ToSet(s)
        /\ x \in E /\ x \in ToSet(Ranked)
    <3>1. x \in E /\ x \in ToSet(Ranked)
      BY <1>1 DEF ToSet
    <3> HIDE DEF s, x, h
    <3>2. /\ s \in Seq(E) /\ IsInjective(s) /\ Len(base) <= Len(s) /\ Len(s) <= target
          /\ \A i \in 1 .. Len(base) : s[i] = base[i]
          /\ ToSet(s) \subseteq ToSet(base) \union ToSet(Ranked)
          /\ Len(s) < target => \A i \in 1 .. (k - 1) : Ranked[i] \in ToSet(s)
      BY <2>3 DEF s
    <3>3. Len(s) \in Nat
      BY <3>2
    <3> QED BY <3>1, <3>2, <3>3
  <2>5. \A i \in 1 .. k : i = k \/ i \in 1 .. (k - 1)
    OBVIOUS
  <2>6. k \in 0 .. n
    BY <1>1
  <2> HIDE DEF s, h
  <2>7. CASE Len(s) < target /\ x \notin ToSet(s)
    <3> DEFINE t == Append(s, x)
    <3>1. h(k) = t
      BY <2>2, <2>7 DEF Admitted
    <3>2. /\ t \in Seq(E) /\ Len(t) = Len(s) + 1 /\ ToSet(t) = ToSet(s) \union {x} /\ IsInjective(t)
          /\ \A i \in 1 .. Len(s) : t[i] = s[i]
      BY <2>4, <2>7, JoinsOne
    <3> HIDE DEF t
    <3>3. Len(base) <= Len(t) /\ Len(t) <= target /\ \A i \in 1 .. Len(base) : i \in 1 .. Len(s)
      BY <1>1, <2>4, <2>7, <3>2
    <3>4. \A i \in 1 .. Len(base) : t[i] = base[i]
      BY <2>4, <3>2, <3>3
    <3>5. \A i \in 1 .. k : Ranked[i] \in ToSet(t)
      BY <2>4, <2>5, <2>7, <3>2
    <3>6. ToSet(t) \subseteq ToSet(base) \union ToSet(Ranked)
      BY <2>4, <3>2
    <3>7. Ahead(k)
      BY ONLY <3>1, <3>2, <3>3, <3>4, <3>5, <3>6
    <3> HIDE DEF Ahead
    <3> QED BY <2>6, <3>7
  <2>8. CASE ~(Len(s) < target /\ x \notin ToSet(s))
    <3>1. h(k) = s
      BY <2>2, <2>8 DEF Admitted
    <3>2. Len(s) < target => \A i \in 1 .. k : Ranked[i] \in ToSet(s)
      BY <2>4, <2>5, <2>8
    <3>3. Ahead(k)
      BY ONLY <2>4, <3>1, <3>2
    <3> HIDE DEF Ahead
    <3> QED BY <2>6, <3>3
  <2> QED BY <2>7, <2>8
<1>5. n \in T
  <2> HIDE DEF T
  <2>1. \A k \in 0 .. n : k \in T
    BY <1>1, <1>3, <1>4, CountsUp
  <2> QED BY <1>1, <2>1
<1>6. Ahead(n) /\ h(n) = Filled(base, target)
  BY <1>2, <1>5
<1> HIDE DEF h
<1>7. Len(h(n)) < target => ToSet(Ranked) \subseteq ToSet(h(n))
  BY <1>1, <1>6 DEF ToSet
<1> QED BY <1>6, <1>7

(* A list without repetitions behind another that shares nothing with it.  *)
LEMMA OneBehindOther ==
    ASSUME NEW E, NEW x \in Seq(E), NEW y \in Seq(E), IsInjective(x), IsInjective(y),
           ToSet(x) \cap ToSet(y) = {}
    PROVE  /\ x \o y \in Seq(E) /\ IsInjective(x \o y) /\ ToSet(x \o y) = ToSet(x) \union ToSet(y)
           /\ Len(x \o y) = Len(x) + Len(y) /\ \A i \in 1 .. Len(x) : (x \o y)[i] = x[i]
<1> DEFINE a == Len(x)  b == Len(y)  z == x \o y
<1>1. a \in Nat /\ b \in Nat /\ DOMAIN x = 1 .. a /\ DOMAIN y = 1 .. b
  OBVIOUS
<1>2. z \in Seq(E) /\ Joins(z, x, y)
  BY Joined
<1> HIDE DEF z
<1>3. Len(z) = a + b /\ (\A i \in 1 .. a : z[i] = x[i]) /\ (\A i \in 1 .. b : z[a + i] = y[i])
  BY <1>2 DEF Joins
<1>4. DOMAIN z = 1 .. (a + b)
  BY <1>1, <1>2, <1>3
<1> HIDE DEF a, b
<1>5. \A i \in 1 .. (a + b) : i \in 1 .. a \/ \E j \in 1 .. b : i = a + j
  <2>1. ASSUME NEW i \in 1 .. (a + b), i \notin 1 .. a PROVE i - a \in 1 .. b /\ i = a + (i - a)
    BY <1>1, <2>1
  <2> QED BY <2>1
<1>6. \A i \in 1 .. a : i \in 1 .. (a + b)
  BY <1>1
<1>7. \A j \in 1 .. b : a + j \in 1 .. (a + b)
  BY <1>1
<1>8. ToSet(z) = ToSet(x) \union ToSet(y)
  <2>1. ASSUME NEW i \in DOMAIN z PROVE z[i] \in ToSet(x) \union ToSet(y)
    <3>1. CASE i \in 1 .. a
      <4>1. z[i] = x[i] /\ i \in DOMAIN x
        BY <1>1, <1>3, <3>1
      <4> QED BY <4>1 DEF ToSet
    <3>2. CASE i \notin 1 .. a
      <4>1. PICK j \in 1 .. b : i = a + j
        BY <1>4, <1>5, <2>1, <3>2
      <4>2. z[i] = y[j] /\ j \in DOMAIN y
        BY <1>1, <1>3, <4>1
      <4> QED BY <4>2 DEF ToSet
    <3> QED BY <3>1, <3>2
  <2>2. ASSUME NEW i \in DOMAIN x PROVE x[i] \in ToSet(z)
    <3>1. i \in DOMAIN z /\ z[i] = x[i]
      BY <1>1, <1>3, <1>4, <1>6, <2>2
    <3> QED BY <3>1 DEF ToSet
  <2>3. ASSUME NEW i \in DOMAIN y PROVE y[i] \in ToSet(z)
    <3>1. a + i \in DOMAIN z /\ z[a + i] = y[i]
      BY <1>1, <1>3, <1>4, <1>7, <2>3
    <3> QED BY <3>1 DEF ToSet
  <2> QED BY <2>1, <2>2, <2>3 DEF ToSet
<1>9. IsInjective(z)
  <2> SUFFICES ASSUME NEW i \in DOMAIN z, NEW j \in DOMAIN z, z[i] = z[j] PROVE i = j
    BY DEF IsInjective
  <2>1. \A k \in 1 .. a, l \in 1 .. b : x[k] # y[l]
    BY <1>1 DEF ToSet
  <2>2. (i \in 1 .. a \/ \E k \in 1 .. b : i = a + k) /\ (j \in 1 .. a \/ \E k \in 1 .. b : j = a + k)
    BY <1>4, <1>5
  <2>3. CASE i \in 1 .. a /\ j \in 1 .. a
    <3>1. x[i] = x[j]
      BY <1>3, <2>3
    <3> QED BY <1>1, <2>3, <3>1 DEF IsInjective
  <2>4. CASE i \in 1 .. a /\ \E k \in 1 .. b : j = a + k
    BY <1>3, <2>1, <2>4
  <2>5. CASE (\E k \in 1 .. b : i = a + k) /\ j \in 1 .. a
    BY <1>3, <2>1, <2>5
  <2>6. CASE (\E k \in 1 .. b : i = a + k) /\ \E k \in 1 .. b : j = a + k
    <3>1. PICK k \in 1 .. b, l \in 1 .. b : i = a + k /\ j = a + l
      BY <2>6
    <3>2. y[k] = y[l]
      BY <1>3, <3>1
    <3>3. k = l
      BY <1>1, <3>2 DEF IsInjective
    <3> QED BY <3>1, <3>3
  <2> QED BY <2>2, <2>3, <2>4, <2>5, <2>6
<1> QED BY <1>2, <1>3, <1>8, <1>9 DEF z, a, b

(* The buffer is fair.                                                     *)
LEMMA BufferFair ==
    ASSUME NEW s \in Selections
    PROVE  BufferIsFair(s)
<1> DEFINE E == ToSet(Ranked) \union {Unranked}
           existing == s.existing
           target == s.target
           kept == {id \in ToSet(existing) : Within(id, s.exit)}
           near == {id \in ToSet(Ranked) \ kept : Within(id, s.entry)}
           available == kept \union ToSet(Ranked)
           retained == Retained(existing, s.exit)
           entrants == Entrants(retained, s.entry)
           both == retained \o entrants
           m == IF Len(both) < target THEN Len(both) ELSE target
           first == SubSeq(both, 1, m)
           selected == BufferedSelection(existing, target, s.entry, s.exit)
           members == ToSet(selected)
<1>1. existing \in Seq(E) /\ IsInjective(existing) /\ target \in Nat
  <2>1. s.existing \in Incumbents /\ s.target \in 1 .. Len(Ranked) + 1
    BY DEF Selections
  <2>2. Len(Ranked) \in Nat /\ MaxIncumbents \in Nat
    BY IndexAssumption
  <2>3. existing \in BoundedSeq(E, MaxIncumbents) /\ IsInjective(existing)
    BY <2>1 DEF Incumbents
  <2> HIDE DEF E, existing
  <2>4. PICK k \in 0 .. MaxIncumbents : existing \in [1 .. k -> E]
    BY <2>3 DEF BoundedSeq, SeqOf
  <2>5. existing \in Seq(E)
    BY <2>2, <2>4
  <2> QED BY <2>1, <2>2, <2>3, <2>5
<1>2. Ranked \in Seq(E) /\ IsInjective(Ranked)
  <2>1. \A i \in DOMAIN Ranked : Ranked[i] \in E
    BY DEF ToSet
  <2> HIDE DEF E
  <2> QED BY <2>1, IndexAssumption
<1>3. retained \in Seq(E) /\ IsInjective(retained) /\ ToSet(retained) = kept
  <2>1. kept \in SUBSET ToSet(existing)
    OBVIOUS
  <2> HIDE DEF E, existing, kept
  <2>2. LET f == Filter(existing, kept) IN f \in Seq(E) /\ IsInjective(f) /\ ToSet(f) = kept
    BY <1>1, <2>1, Filters
  <2> QED BY <2>2 DEF Retained, kept
<1> HIDE DEF retained
<1>4. entrants \in Seq(E) /\ IsInjective(entrants) /\ ToSet(entrants) = near
  <2>1. near \in SUBSET ToSet(Ranked)
    OBVIOUS
  <2>2. entrants = Filter(Ranked, near)
    BY <1>3 DEF Entrants
  <2> HIDE DEF E, near, entrants
  <2> QED BY <1>2, <2>1, <2>2, Filters
<1>5. kept \cap near = {}
  OBVIOUS
<1> HIDE DEF E, entrants
<1>6. /\ both \in Seq(E) /\ IsInjective(both) /\ ToSet(both) = kept \union near
      /\ Len(both) = Len(retained) + Len(entrants)
      /\ \A i \in 1 .. Len(retained) : both[i] = retained[i]
  <2> HIDE DEF kept, near
  <2> QED BY <1>3, <1>4, <1>5, OneBehindOther
<1> HIDE DEF both
<1>7. Len(both) \in Nat /\ Len(retained) \in Nat /\ Len(entrants) \in Nat /\ DOMAIN both = 1 .. Len(both)
      /\ DOMAIN retained = 1 .. Len(retained)
  BY <1>3, <1>4, <1>6
<1> HIDE DEF target
<1>8. /\ m \in 0 .. Len(both) /\ m \in Nat /\ m <= Len(both) /\ m <= target
      /\ (m = Len(both) \/ m = target)
  <2> DEFINE l == Len(both)
  <2>1. l \in Nat /\ target \in Nat /\ m = IF l < target THEN l ELSE target
    BY <1>1, <1>7
  <2> HIDE DEF l, m
  <2>2. m \in 0 .. l /\ m \in Nat /\ m <= l /\ m <= target /\ (m = l \/ m = target)
    BY <2>1
  <2> QED BY <2>2 DEF l
<1> HIDE DEF m
<1>9. first \in Seq(E) /\ Len(first) = m /\ DOMAIN first = 1 .. m /\ \A i \in 1 .. m : first[i] = both[i]
  BY <1>6, <1>7, <1>8
<1> HIDE DEF first
<1>10. IsInjective(first) /\ ToSet(first) \subseteq kept \union near /\ (m = Len(both) => ToSet(first) = kept \union near)
  <2>1. \A i \in 1 .. m : i \in 1 .. Len(both)
    <3> DEFINE l == Len(both)
    <3>1. l \in Nat /\ m \in Nat /\ m <= l
      BY <1>7, <1>8
    <3> HIDE DEF l
    <3>2. \A i \in 1 .. m : i \in 1 .. l
      BY <3>1
    <3> QED BY <3>2 DEF l
  <2>2. IsInjective(first)
    BY <1>6, <1>7, <1>9, <2>1 DEF IsInjective
  <2>3. ToSet(first) \subseteq ToSet(both)
    BY <1>7, <1>9, <2>1 DEF ToSet
  <2>4. m = Len(both) => ToSet(first) = ToSet(both)
    BY <1>7, <1>9 DEF ToSet
  <2> QED BY <1>6, <2>2, <2>3, <2>4
<1>11. selected = Filled(first, target)
  BY DEF BufferedSelection, retained, entrants, both, m, first
<1>12. /\ selected \in Seq(E) /\ IsInjective(selected)
       /\ m <= Len(selected) /\ Len(selected) <= target
       /\ \A i \in 1 .. m : selected[i] = first[i]
       /\ members \subseteq ToSet(first) \union ToSet(Ranked)
       /\ Len(selected) < target => ToSet(Ranked) \subseteq members
  <2>1. Len(first) <= target
    BY <1>8, <1>9
  <2>2. LET all == Filled(first, target)
        IN  /\ all \in Seq(E) /\ IsInjective(all)
            /\ Len(first) <= Len(all) /\ Len(all) <= target
            /\ \A i \in 1 .. Len(first) : all[i] = first[i]
            /\ ToSet(all) \subseteq ToSet(first) \union ToSet(Ranked)
            /\ Len(all) < target => ToSet(Ranked) \subseteq ToSet(all)
    <3> HIDE DEF target
    <3> QED BY <1>1, <1>2, <1>9, <1>10, <2>1, Fills
  <2> HIDE DEF target, selected
  <2> QED BY <1>9, <1>11, <2>2
<1> HIDE DEF selected
<1>13. Len(selected) \in Nat /\ DOMAIN selected = 1 .. Len(selected)
       /\ IsFiniteSet(members) /\ Cardinality(members) = Len(selected)
  <2>1. Len(selected) \in Nat /\ DOMAIN selected = 1 .. Len(selected)
    BY <1>12
  <2>2. IsFiniteSet(ToSet(selected)) /\ Cardinality(ToSet(selected)) = Len(selected)
    BY <1>12, LongAsItHas
  <2> QED BY <2>1, <2>2
<1>14. ToSet(first) \subseteq members
  <2>1. \A i \in 1 .. m : i \in DOMAIN selected /\ selected[i] = first[i]
    BY <1>8, <1>12, <1>13
  <2> QED BY <1>9, <2>1 DEF ToSet
<1>15. Len(selected) = m => members = ToSet(first)
  BY <1>9, <1>12, <1>13 DEF ToSet
<1>16. \A id : Within(id, s.entry) => id \in ToSet(Ranked)
  BY DEF Within, ToSet
<1>17. members \subseteq available
  BY <1>10, <1>12
<1>18. Len(selected) < target => members = available
  <2>1. ASSUME Len(selected) < target PROVE available \subseteq members
    <3>1. m # target
      <4> DEFINE l == Len(selected)
      <4>1. l \in Nat /\ target \in Nat /\ m <= l /\ l < target
        BY <1>1, <1>12, <1>13, <2>1
      <4> HIDE DEF l
      <4> QED BY <1>8, <4>1
    <3>2. m = Len(both)
      BY <1>8, <3>1
    <3> QED BY <1>10, <1>12, <1>14, <2>1, <3>2
  <2> QED BY <1>17, <2>1
<1>19. Len(selected) = IF Cardinality(available) < target THEN Cardinality(available) ELSE target
  <2>1. IsFiniteSet(available)
    <3>1. IsFiniteSet(ToSet(Ranked)) /\ IsFiniteSet(ToSet(retained))
      BY <1>2, <1>3, LongAsItHas
    <3> HIDE DEF kept
    <3> QED BY <1>3, <3>1, FS_Union
  <2>2. Cardinality(available) \in Nat /\ Len(selected) <= Cardinality(available)
    <3> HIDE DEF available, members
    <3> QED BY <1>13, <1>17, <2>1, FS_CardinalityType, FS_Subset
  <2>3. Len(selected) < target => Len(selected) = Cardinality(available)
    BY <1>13, <1>18
  <2> DEFINE l == Len(selected)  c == Cardinality(available)
  <2>4. l \in Nat /\ target \in Nat /\ c \in Nat /\ l <= c /\ l <= target /\ (l < target => l = c)
    BY <1>1, <1>12, <1>13, <2>2, <2>3
  <2> HIDE DEF l, c
  <2>5. l = IF c < target THEN c ELSE target
    BY <2>4
  <2> QED BY <2>5 DEF l, c
<1>20. kept \subseteq members \/ members \subseteq kept
  <2>1. CASE Len(retained) <= m
    <3>1. \A i \in 1 .. Len(retained) : i \in 1 .. m /\ i \in 1 .. Len(both) /\ first[i] = retained[i]
      BY <1>6, <1>7, <1>8, <1>9, <2>1
    <3>2. ToSet(retained) \subseteq ToSet(first)
      BY <1>7, <1>9, <3>1 DEF ToSet
    <3> QED BY <1>3, <1>14, <3>2
  <2>2. CASE ~(Len(retained) <= m)
    <3>1. m = target
      BY <1>6, <1>7, <1>8, <2>2
    <3>2. Len(selected) = m
      BY <1>1, <1>8, <1>12, <1>13, <3>1
    <3>3. \A i \in 1 .. m : i \in 1 .. Len(retained) /\ first[i] = retained[i]
      BY <1>6, <1>7, <1>8, <1>9, <2>2
    <3>4. ToSet(first) \subseteq ToSet(retained)
      BY <1>7, <1>9, <3>3 DEF ToSet
    <3> QED BY <1>3, <1>15, <3>2, <3>4
  <2> QED BY <2>1, <2>2
<1>21. ASSUME NEW id \in members \ kept, ~Within(id, s.entry),
              NEW other \in available, other \in kept \/ Within(other, s.entry)
       PROVE  other \in members
  <2>1. id \notin ToSet(first)
    BY <1>10, <1>21
  <2>2. Len(selected) # m
    BY <1>15, <1>21, <2>1
  <2>3. m # target
    <3> DEFINE l == Len(selected)
    <3>1. l \in Nat /\ target \in Nat /\ m <= l /\ l <= target /\ l # m
      BY <1>1, <1>12, <1>13, <2>2
    <3> HIDE DEF l
    <3> QED BY <1>8, <3>1
  <2>4. ToSet(first) = kept \union near
    BY <1>8, <1>10, <2>3
  <2>5. other \in kept \union near
    BY <1>16, <1>21
  <2> QED BY <1>14, <2>4, <2>5
<1>22. BufferIsFair(s)
  BY <1>12, <1>17, <1>19, <1>20, <1>21 DEF BufferIsFair, selected, target
<1> QED BY <1>22

(***************************************************************************)
(* For any ranking, incumbents, target and ranks: an incumbent inside the  *)
(* exit rank leaves only for other such incumbents, a newcomer outside the *)
(* entry rank comes only when everyone with a better claim is in, and the  *)
(* index is as large as it can be (bufferedSelection of                    *)
(* packages/research-engine).                                              *)
(***************************************************************************)
THEOREM BuffersStayFair ==
    IndexInit /\ [][IndexNext]_indexVars => []BuffersAreFair
<1> DEFINE Inv == rule \in Rules
<1>1. IndexInit => Inv
  BY DEF IndexInit
<1>2. Inv /\ [IndexNext]_indexVars => Inv'
  BY DEF IndexNext, Rebalance, indexVars, Rules, Weighings, Selections, Incumbents, Methods
<1>3. Inv => BuffersAreFair
  <2>1. ASSUME Inv, rule.kind = "selection" PROVE rule \in Selections
    BY <2>1 DEF Rules, Weighings, Selections
  <2> QED BY <2>1, BufferFair DEF BuffersAreFair
<1> QED BY <1>1, <1>2, <1>3, PTL

(***************************************************************************)
(* Who is in an index, and what was in it on a date, follows the rules:    *)
(* both of the above.  A composition set late changes the past it is set   *)
(* for, and nothing else does.                                             *)
(***************************************************************************)
THEOREM CompositionsStayFair ==
    IndexInit /\ [][IndexNext]_indexVars => []CompositionsAreFair
<1>1. BuffersAreFair /\ HistoryIsFrozen /\ PastIsKept => CompositionsAreFair
  BY DEF CompositionsAreFair
<1> QED BY <1>1, CompositionsStayFrozen, BuffersStayFair, PTL
-----------------------------------------------------------------------------
(***************************************************************************)
(* The candles of the terminal.                                            *)
(***************************************************************************)

Point == [time : Nat, value : Int]
Candle == [time : Nat, open : Int, high : Int, low : Int, close : Int]

\* A list of points as it was observed.
Paced(list) == list \in Seq(Point) /\ \A i, j \in DOMAIN list : i <= j => list[i].time <= list[j].time

LEMMA PointFacts ==
    ASSUME NEW p \in Point
    PROVE  p.time \in Nat /\ p.value \in Int
BY DEF Point

LEMMA CandleFacts ==
    ASSUME NEW c \in Candle
    PROVE  c.time \in Nat /\ c.open \in Int /\ c.high \in Int /\ c.low \in Int /\ c.close \in Int
BY DEF Candle

(* Buckets come in the order of the points, and hold what is in their time. *)
LEMMA Multiples ==
    ASSUME NEW a \in Nat, NEW b \in Nat, NEW c \in Nat, a <= b
    PROVE  c * a \in Nat /\ c * b \in Nat /\ c * a <= c * b
<1> DEFINE d == b - a
<1>1. d \in Nat /\ b = a + d
  OBVIOUS
<1> HIDE DEF d
<1>2. c * b = c * a + c * d /\ c * d \in Nat /\ c * a \in Nat
  BY <1>1
<1> QED BY <1>2

LEMMA Buckets ==
    ASSUME NEW p \in Point, NEW q \in Point
    PROVE  /\ Bucket(p) \in Nat
           /\ p.time <= q.time => Bucket(p) <= Bucket(q)
           /\ q.time \in Bucket(p) .. Bucket(p) + BucketSeconds - 1 <=> Bucket(q) = Bucket(p)
<1> DEFINE s == BucketSeconds  x == p.time  y == q.time
           k == x \div s  l == y \div s
<1>1. s \in Nat \ {0} /\ x \in Nat /\ y \in Nat
  BY SeriesAssumption, PointFacts
<1>2. /\ k \in Nat /\ x % s \in Nat /\ x = s * k + (x % s) /\ x % s < s
      /\ l \in Nat /\ y % s \in Nat /\ y = s * l + (y % s) /\ y % s < s
  <2> HIDE DEF s, x, y
  <2> QED BY <1>1, Division
<1>3. Bucket(p) = s * k /\ Bucket(q) = s * l
  <2>1. Bucket(p) = k * s /\ Bucket(q) = l * s
    BY DEF Bucket
  <2> HIDE DEF s, k, l
  <2> QED BY <1>1, <1>2, <2>1
<1> DEFINE r == x % s  t == y % s
<1>4. r \in Nat /\ t \in Nat /\ x = s * k + r /\ y = s * l + t /\ r < s /\ t < s
  BY <1>2
<1>5. s * (k + 1) = s * k + s /\ s * (l + 1) = s * l + s
  <2> HIDE DEF k, l, s
  <2> QED BY <1>1, <1>2
<1> HIDE DEF r, t, k, l, s, x, y
<1> DEFINE b == s * k  c == s * l
<1>6. /\ b \in Nat /\ c \in Nat
      /\ k <= l => b <= c
      /\ k + 1 <= l => b + s <= c
      /\ l + 1 <= k => c + s <= b
  <2>1. b \in Nat /\ c \in Nat /\ (k <= l => b <= c)
    BY <1>1, <1>2, Multiples
  <2>2. k + 1 <= l => s * (k + 1) <= c
    BY <1>1, <1>2, Multiples
  <2>3. l + 1 <= k => s * (l + 1) <= b
    BY <1>1, <1>2, Multiples
  <2> QED BY <1>5, <2>1, <2>2, <2>3
<1>7. k <= l \/ l + 1 <= k
  BY <1>2
<1>8. l <= k \/ k + 1 <= l
  BY <1>2
<1>9. l = k => c = b
  OBVIOUS
<1>a. x = b + r /\ y = c + t
  BY <1>4
<1> HIDE DEF b, c
<1>10. x <= y => b <= c
  BY <1>1, <1>4, <1>6, <1>7, <1>a
<1>11. y \in b .. b + s - 1 <=> c = b
  <2>1. c = b => y \in b .. b + s - 1
    BY <1>1, <1>4, <1>6, <1>a
  <2>2. y \in b .. b + s - 1 => l = k
    BY <1>1, <1>2, <1>4, <1>6, <1>7, <1>8, <1>a
  <2> QED BY <1>9, <2>1, <2>2
<1> QED BY <1>3, <1>6, <1>10, <1>11 DEF b, c, s, x, y

(* What one point does to a list of candles.                               *)
LEMMA DrawnFacts ==
    ASSUME NEW cs \in Seq(Candle), NEW p \in Point
    PROVE  LET n == Len(cs)
               ds == Drawn(cs, p)
           IN  /\ ds \in Seq(Candle)
               /\ n > 0 /\ cs[n].time = Bucket(p) =>
                     /\ Len(ds) = n /\ \A i \in 1 .. n : i # n => ds[i] = cs[i]
                     /\ ds[n] = Taken(cs[n], p)
               /\ ~(n > 0 /\ cs[n].time = Bucket(p)) =>
                     /\ Len(ds) = n + 1 /\ \A i \in 1 .. n : ds[i] = cs[i]
                     /\ ds[n + 1] = Opened(p)
<1> DEFINE n == Len(cs)  ds == Drawn(cs, p)
<1>1. n \in Nat /\ DOMAIN cs = 1 .. n
  OBVIOUS
<1>2. Opened(p) \in Candle
  BY PointFacts, Buckets DEF Opened, Candle
<1>3. CASE n > 0 /\ cs[n].time = Bucket(p)
  <2>1. n \in 1 .. n /\ cs[n] \in Candle
    BY <1>1, <1>3
  <2>2. Taken(cs[n], p) \in Candle
    BY <2>1, PointFacts DEF Taken, Candle, AtLeast, AtBest
  <2>3. ds = [cs EXCEPT ![n] = Taken(cs[n], p)]
    BY <1>3 DEF Drawn
  <2> DEFINE t == Taken(cs[n], p)
  <2> HIDE DEF ds, t
  <2>a. cs \in [1 .. n -> Candle] /\ t \in Candle
    BY <1>1, <2>2 DEF t
  <2>b. ds = [cs EXCEPT ![n] = t]
    BY <2>3 DEF t
  <2> HIDE DEF n
  <2>c. ds \in [1 .. n -> Candle] /\ ds[n] = t /\ \A i \in 1 .. n : i # n => ds[i] = cs[i]
    BY <2>a, <2>b, <2>1
  <2>d. ds \in Seq(Candle) /\ Len(ds) = n
    BY <1>1, <2>c
  <2>4. ds \in Seq(Candle) /\ Len(ds) = n /\ ds[n] = t /\ \A i \in 1 .. n : i # n => ds[i] = cs[i]
    BY <2>c, <2>d
  <2> QED BY <1>3, <2>4 DEF ds, t, n
<1>4. CASE ~(n > 0 /\ cs[n].time = Bucket(p))
  <2>1. ds = Append(cs, Opened(p))
    BY <1>4 DEF Drawn
  <2> DEFINE o == Opened(p)
  <2> HIDE DEF ds, o
  <2>2. ds \in Seq(Candle) /\ Len(ds) = n + 1 /\ ds[n + 1] = o /\ \A i \in 1 .. n : ds[i] = cs[i]
    BY <1>1, <1>2, <2>1 DEF o
  <2> QED BY <1>4, <2>2 DEF ds, o
<1> QED BY <1>3, <1>4

(* g draws prefix by prefix.                                               *)
DrawsBy(g, list, n) ==
    /\ g[{}] = <<>>
    /\ \A k \in 1 .. n : g[1 .. k] = Drawn(g[(1 .. k) \ {Max(1 .. k)}], list[k])

LEMMA CandlesFold ==
    ASSUME NEW n \in Nat, NEW list \in [1 .. n -> Point]
    PROVE  \E g : Candles(list) = g[1 .. n] /\ DrawsBy(g, list, n)
  <1> DEFINE A == Seq(Candle)
             E == Point
             none == <<>>
             o == [ab \in A \X E |-> Drawn(ab[1], ab[2])]
             D == 1 .. n
             raw(f) == [t \in SUBSET D |-> IF t = {} THEN none
                                           ELSE Drawn(f[t \ {Max(t)}], list[Max(t)])]
             it == CHOOSE f : f = raw(f)
  <1>0. none \in A /\ list \in [1 .. n -> E] /\ DOMAIN list = D
    OBVIOUS
  <1>1. o \in [A \X E -> A]
    <2>1. \A a \in A, b \in E : Drawn(a, b) \in A
      BY DrawnFacts
    <2> HIDE DEF A, E
    <2> QED BY <2>1
  <1> HIDE DEF o, A, E, none
  <1>a. PICK g \in [SUBSET (1 .. n) -> A] : FoldsBy(g, o, none, list, n)
    BY <1>0, <1>1, FoldExists
  <1>2. g \in [SUBSET D -> A] /\ \A t \in SUBSET D : g[t] = FoldStep(g, o, none, list, t)
    BY <1>a DEF FoldsBy
  <1>3. ASSUME NEW t \in SUBSET D, t # {} PROVE Max(t) \in D /\ t \ {Max(t)} \in SUBSET D
    <2>1. IsFiniteSet(D) /\ D \in SUBSET Int
      BY FS_Interval
    <2>2. IsFiniteSet(t) /\ t \in SUBSET Int
      <3> HIDE DEF D
      <3> QED BY <2>1, FS_Subset
    <2>3. \E m \in t : \A y \in t : m >= y
      BY <1>3, <2>2, GreatestElement
    <2> QED BY <2>3 DEF Max
  <1>4. g = raw(g)
    <2>1. ASSUME NEW t \in SUBSET D
          PROVE  g[t] = IF t = {} THEN none ELSE Drawn(g[t \ {Max(t)}], list[Max(t)])
      <3>1. CASE t = {}
        BY <1>2, <3>1 DEF FoldStep
      <3>2. CASE t # {}
        <4>1. Max(t) \in D /\ t \ {Max(t)} \in SUBSET D
          BY <1>3, <3>2
        <4>2. <<g[t \ {Max(t)}], list[Max(t)]>> \in A \X E
          BY <1>0, <1>2, <4>1
        <4>3. o[<<g[t \ {Max(t)}], list[Max(t)]>>] = Drawn(g[t \ {Max(t)}], list[Max(t)])
          BY <4>2 DEF o
        <4> QED BY <1>2, <3>2, <4>3 DEF FoldStep
      <3> QED BY <3>1, <3>2
    <2> QED BY <1>2, <2>1
  <1>5. it = raw(it)
    <2>1. \E f : f = raw(f)
      BY <1>4
    <2> HIDE DEF raw
    <2> QED BY ONLY <2>1, Zenon DEF it
  <1>6. Candles(list) = it[D]
    BY <1>0, Zenon DEF Candles, FoldLeft, MapThenFoldSet, none
  <1> HIDE DEF it
  <1>7. \A t \in SUBSET D : it[t] = IF t = {} THEN none ELSE Drawn(it[t \ {Max(t)}], list[Max(t)])
    BY <1>5
  <1>8. DrawsBy(it, list, n)
    <2>1. it[{}] = none
      BY <1>7
    <2>2. ASSUME NEW k \in 1 .. n
          PROVE  it[1 .. k] = Drawn(it[(1 .. k) \ {Max(1 .. k)}], list[k])
      <3>1. 1 .. k \in SUBSET D /\ 1 .. k # {}
        <4>1. 1 \in 1 .. k /\ \A x \in 1 .. k : x \in D
          OBVIOUS
        <4> QED BY <4>1
      <3>2. Max(1 .. k) = k
        BY LastOfFirst
      <3> QED BY <1>7, <3>1, <3>2
    <2> QED BY <2>1, <2>2 DEF DrawsBy, none
  <1> QED BY <1>6, <1>8

-----------------------------------------------------------------------------
(* A candle tells of the first k points what lies between two of them.     *)
TellsOf(c, list, k, a, z) ==
    /\ a \in 1 .. k /\ z \in 1 .. k /\ a <= z
    /\ \A j \in 1 .. k : Bucket(list[j]) = c.time <=> a <= j /\ j <= z
    /\ list[a].value = c.open /\ list[z].value = c.close
    /\ \E j \in a .. z : list[j].value = c.low
    /\ \E j \in a .. z : list[j].value = c.high
    /\ \A j \in a .. z : c.low <= list[j].value /\ list[j].value <= c.high

Telling(c, list, k) == \E a, z \in Nat : TellsOf(c, list, k, a, z)

\* The candles of the first k points.
Told(cs, list, k) ==
    /\ cs \in Seq(Candle)
    /\ k = 0 => Len(cs) = 0
    /\ k > 0 => Len(cs) > 0 /\ cs[Len(cs)].time = Bucket(list[k])
    /\ \A i, j \in 1 .. Len(cs) : i < j => cs[i].time < cs[j].time
    /\ \A j \in 1 .. k : \E i \in 1 .. Len(cs) : cs[i].time = Bucket(list[j])
    /\ \A i \in 1 .. Len(cs) : Telling(cs[i], list, k)

(* A point of another bucket leaves what a candle tells.                   *)
LEMMA StaysTelling ==
    ASSUME NEW c, NEW list, NEW k \in Nat \ {0}, Telling(c, list, k - 1), Bucket(list[k]) # c.time
    PROVE  Telling(c, list, k)
<1>1. PICK a \in Nat, z \in Nat : TellsOf(c, list, k - 1, a, z)
  BY DEF Telling
<1>2. a \in 1 .. k /\ z \in 1 .. k /\ z <= k - 1
  BY <1>1 DEF TellsOf
<1>3. \A j \in 1 .. k : j = k \/ j \in 1 .. (k - 1)
  OBVIOUS
<1>4. \A j \in 1 .. k : Bucket(list[j]) = c.time <=> a <= j /\ j <= z
  <2>1. ASSUME NEW j \in 1 .. k PROVE Bucket(list[j]) = c.time <=> a <= j /\ j <= z
    <3>1. CASE j = k
      BY <1>2, <3>1
    <3>2. CASE j \in 1 .. (k - 1)
      BY <1>1, <3>2 DEF TellsOf
    <3> QED BY <1>3, <3>1, <3>2
  <2> QED BY <2>1
<1>5. TellsOf(c, list, k, a, z)
  BY <1>1, <1>2, <1>4 DEF TellsOf
<1> QED BY <1>5 DEF Telling

LEMMA TellsOn ==
    ASSUME NEW n \in Nat, NEW list \in [1 .. n -> Point],
           \A i, j \in 1 .. n : i <= j => list[i].time <= list[j].time,
           NEW k \in 1 .. n, NEW cs, Told(cs, list, k - 1)
    PROVE  Told(Drawn(cs, list[k]), list, k)
<1> DEFINE m == Len(cs)  p == list[k]  b == Bucket(p)  ds == Drawn(cs, p)
<1>1. cs \in Seq(Candle) /\ m \in Nat /\ p \in Point /\ b \in Nat
  <2>1. p \in Point
    OBVIOUS
  <2>2. b \in Nat
    BY <2>1, Buckets
  <2> QED BY <2>1, <2>2 DEF Told
<1>2. \A i \in 1 .. m : cs[i] \in Candle
  BY <1>1
<1>3. \A i \in 1 .. m : cs[i].time \in Nat
  BY <1>2, CandleFacts
<1>4. k - 1 > 0 => m > 0 /\ cs[m].time = Bucket(list[k - 1]) /\ cs[m].time <= b
  <2> SUFFICES ASSUME k - 1 > 0 PROVE m > 0 /\ cs[m].time = Bucket(list[k - 1]) /\ cs[m].time <= b
    OBVIOUS
  <2>1. m > 0 /\ cs[m].time = Bucket(list[k - 1])
    BY DEF Told
  <2>2. k - 1 \in 1 .. n /\ k \in 1 .. n /\ k - 1 <= k
    OBVIOUS
  <2>3. list[k - 1] \in Point /\ list[k - 1].time <= p.time
    BY <2>2
  <2>4. Bucket(list[k - 1]) <= b
    BY <1>1, <2>3, Buckets
  <2> QED BY <2>1, <2>4
<1>5. m > 0 => k - 1 > 0
  BY <1>1 DEF Told
<1>6. \A j \in 1 .. k : j = k \/ j \in 1 .. (k - 1)
  OBVIOUS
<1>7. \A i, j \in 1 .. m : i < j => cs[i].time < cs[j].time
  BY DEF Told
<1>8. \A i \in 1 .. m : Telling(cs[i], list, k - 1)
  BY DEF Told
<1>9. \A j \in 1 .. (k - 1) : \E i \in 1 .. m : cs[i].time = Bucket(list[j])
  BY DEF Told
<1>10. /\ ds \in Seq(Candle)
       /\ m > 0 /\ cs[m].time = b =>
             /\ Len(ds) = m /\ \A i \in 1 .. m : i # m => ds[i] = cs[i]
             /\ ds[m] = Taken(cs[m], p)
       /\ ~(m > 0 /\ cs[m].time = b) =>
             /\ Len(ds) = m + 1 /\ \A i \in 1 .. m : ds[i] = cs[i]
             /\ ds[m + 1] = Opened(p)
  BY <1>1, DrawnFacts
<1> HIDE DEF m, ds, b
<1>11. CASE m > 0 /\ cs[m].time = b
  <2> DEFINE c == cs[m]  d == Taken(c, p)
  <2>1. /\ Len(ds) = m /\ ds[m] = d /\ m \in 1 .. m
        /\ \A i \in 1 .. m : i # m => ds[i] = cs[i] /\ cs[i].time < b
    BY <1>1, <1>7, <1>10, <1>11
  <2>2. c \in Candle /\ d.time = c.time /\ d.open = c.open /\ d.close = p.value
        /\ d.high = AtLeast(c.high, p.value) /\ d.low = AtBest(c.low, p.value)
    <3>1. c \in Candle
      BY <1>2, <2>1
    <3> HIDE DEF c
    <3> QED BY <3>1 DEF Taken, Candle
  <2> HIDE DEF d
  <2>3. \A i \in 1 .. m : ds[i].time = cs[i].time
    BY <2>1, <2>2
  <2>4. \A i \in 1 .. m : i # m => Telling(ds[i], list, k)
    <3>1. ASSUME NEW i \in 1 .. m, i # m PROVE Telling(ds[i], list, k)
      <4>1. ds[i] = cs[i] /\ cs[i].time # b /\ Telling(cs[i], list, k - 1)
        BY <1>1, <1>3, <1>8, <2>1, <3>1
      <4>2. Telling(cs[i], list, k)
        BY <4>1, StaysTelling DEF b
      <4> QED BY <4>1, <4>2
    <3> QED BY <3>1
  <2>5. Telling(d, list, k)
    <3>1. PICK a \in Nat, z \in Nat : TellsOf(c, list, k - 1, a, z)
      BY <1>8, <2>1 DEF Telling
    <3>2. k - 1 \in 1 .. (k - 1) /\ Bucket(list[k - 1]) = c.time
      BY <1>4, <1>5, <1>11
    <3>3. a \in 1 .. k /\ a <= k - 1 /\ z = k - 1
      BY <3>1, <3>2 DEF TellsOf
    <3>4. \A j \in 1 .. k : Bucket(list[j]) = d.time <=> a <= j /\ j <= k
      <4>1. ASSUME NEW j \in 1 .. k PROVE Bucket(list[j]) = d.time <=> a <= j /\ j <= k
        <5>1. CASE j = k
          BY <1>11, <2>2, <3>3, <5>1 DEF b
        <5>2. CASE j \in 1 .. (k - 1)
          BY <2>2, <3>1, <3>3, <5>2 DEF TellsOf
        <5> QED BY <1>6, <5>1, <5>2
      <4> QED BY <4>1
    <3>5. \A j \in a .. k : j = k \/ j \in a .. z
      BY <3>3
    <3>6. a .. z \subseteq a .. k /\ k \in a .. k /\ a \in a .. z
      BY <3>3
    <3>7. /\ list[a].value = c.open
          /\ \E j \in a .. z : list[j].value = c.low
          /\ \E j \in a .. z : list[j].value = c.high
          /\ \A j \in a .. z : c.low <= list[j].value /\ list[j].value <= c.high
      BY <3>1 DEF TellsOf
    <3>8. c.low \in Int /\ c.high \in Int /\ p.value \in Int /\ \A j \in a .. z : list[j].value \in Int
      <4>1. ASSUME NEW j \in a .. z PROVE list[j].value \in Int
        <5>1. j \in 1 .. n
          BY <3>3
        <5> QED BY <5>1, PointFacts
      <4> QED BY <1>1, <2>2, <4>1, CandleFacts, PointFacts
    <3>9. d.low \in {c.low, p.value} /\ d.low <= c.low /\ d.low <= p.value
      BY <2>2, <3>8 DEF AtBest
    <3>10. d.high \in {c.high, p.value} /\ c.high <= d.high /\ p.value <= d.high
      BY <2>2, <3>8 DEF AtLeast
    <3>11. \E j \in a .. k : list[j].value = d.low
      BY <3>6, <3>7, <3>9
    <3>12. \E j \in a .. k : list[j].value = d.high
      BY <3>6, <3>7, <3>10
    <3>13. \A j \in a .. k : d.low <= list[j].value /\ list[j].value <= d.high
      <4>1. ASSUME NEW j \in a .. k PROVE d.low <= list[j].value /\ list[j].value <= d.high
        <5>1. CASE j = k
          BY <3>9, <3>10, <5>1
        <5>2. CASE j \in a .. z
          <6>1. c.low <= list[j].value /\ list[j].value <= c.high /\ list[j].value \in Int
            BY <3>7, <3>8, <5>2
          <6> QED BY <3>8, <3>9, <3>10, <6>1
        <5> QED BY <3>5, <5>1, <5>2
      <4> QED BY <4>1
    <3>14. TellsOf(d, list, k, a, k)
      <4>1. k \in 1 .. k /\ a <= k
        BY <3>3
      <4> QED BY <2>2, <3>3, <3>4, <3>7, <3>11, <3>12, <3>13, <4>1 DEF TellsOf
    <3> QED BY <3>14 DEF Telling
  <2>6. \A j \in 1 .. k : \E i \in 1 .. m : ds[i].time = Bucket(list[j])
    <3>1. ASSUME NEW j \in 1 .. k PROVE \E i \in 1 .. m : ds[i].time = Bucket(list[j])
      <4>1. CASE j = k
        BY <1>11, <2>1, <2>3, <4>1 DEF b
      <4>2. CASE j \in 1 .. (k - 1)
        BY <1>9, <2>3, <4>2
      <4> QED BY <1>6, <4>1, <4>2
    <3> QED BY <3>1
  <2>7. \A i \in 1 .. m : Telling(ds[i], list, k)
    BY <2>1, <2>4, <2>5
  <2>8. ds[m].time = Bucket(list[k])
    BY <1>11, <2>1, <2>3 DEF b
  <2>9. \A i, j \in 1 .. m : i < j => ds[i].time < ds[j].time
    BY <1>7, <2>3
  <2>10. Told(ds, list, k)
    BY <1>10, <1>11, <2>1, <2>6, <2>7, <2>8, <2>9 DEF Told
  <2> QED BY <2>10 DEF ds
<1>12. CASE ~(m > 0 /\ cs[m].time = b)
  <2> DEFINE o == Opened(p)
  <2>1. Len(ds) = m + 1 /\ ds[m + 1] = o /\ \A i \in 1 .. m : ds[i] = cs[i]
    BY <1>10, <1>12
  <2>2. o.time = b /\ o.open = p.value /\ o.high = p.value /\ o.low = p.value /\ o.close = p.value
    BY DEF Opened, b
  <2> HIDE DEF o
  <2>3. \A i \in 1 .. (m + 1) : i = m + 1 \/ i \in 1 .. m
    BY <1>1
  <2>4. \A i \in 1 .. m : cs[i].time < b
    <3>1. ASSUME NEW i \in 1 .. m PROVE cs[i].time < b
      <4>1. m > 0 /\ m \in 1 .. m /\ cs[m].time < b
        BY <1>1, <1>3, <1>4, <1>5, <1>12
      <4>2. cs[i].time <= cs[m].time
        BY <1>1, <1>3, <1>7, <4>1
      <4> QED BY <1>1, <1>3, <4>1, <4>2
    <3> QED BY <3>1
  <2>5. \A i \in 1 .. m : Telling(ds[i], list, k)
    <3>1. ASSUME NEW i \in 1 .. m PROVE Telling(ds[i], list, k)
      <4>1. ds[i] = cs[i] /\ cs[i].time # b /\ Telling(cs[i], list, k - 1)
        BY <1>1, <1>3, <1>8, <2>1, <2>4
      <4>2. Telling(cs[i], list, k)
        BY <4>1, StaysTelling DEF b
      <4> QED BY <4>1, <4>2
    <3> QED BY <3>1
  <2>6. Telling(o, list, k)
    <3>1. \A j \in 1 .. k : Bucket(list[j]) = o.time <=> k <= j /\ j <= k
      <4>1. ASSUME NEW j \in 1 .. k PROVE Bucket(list[j]) = o.time <=> k <= j /\ j <= k
        <5>1. CASE j = k
          BY <2>2, <5>1 DEF b
        <5>2. CASE j \in 1 .. (k - 1)
          <6>1. PICK i \in 1 .. m : cs[i].time = Bucket(list[j])
            BY <1>9, <5>2
          <6>2. Bucket(list[j]) # b
            BY <1>1, <1>3, <2>4, <6>1
          <6> QED BY <2>2, <5>2, <6>2
        <5> QED BY <1>6, <5>1, <5>2
      <4> QED BY <4>1
    <3>2. k .. k = {k} /\ k \in 1 .. k /\ k \in Nat
      OBVIOUS
    <3>3. p.value \in Int
      BY <1>1, PointFacts
    <3>4. TellsOf(o, list, k, k, k)
      BY <2>2, <3>1, <3>2, <3>3 DEF TellsOf
    <3> QED BY <3>2, <3>4 DEF Telling
  <2>7. \A j \in 1 .. k : \E i \in 1 .. (m + 1) : ds[i].time = Bucket(list[j])
    <3>1. ASSUME NEW j \in 1 .. k PROVE \E i \in 1 .. (m + 1) : ds[i].time = Bucket(list[j])
      <4>1. CASE j = k
        <5>1. m + 1 \in 1 .. (m + 1)
          BY <1>1
        <5> QED BY <2>1, <2>2, <4>1, <5>1 DEF b
      <4>2. CASE j \in 1 .. (k - 1)
        <5>1. PICK i \in 1 .. m : cs[i].time = Bucket(list[j])
          BY <1>9, <4>2
        <5>2. i \in 1 .. (m + 1)
          BY <1>1
        <5> QED BY <2>1, <5>1, <5>2
      <4> QED BY <1>6, <4>1, <4>2
    <3> QED BY <3>1
  <2>8. \A i \in 1 .. (m + 1) : Telling(ds[i], list, k)
    BY <2>1, <2>3, <2>5, <2>6
  <2>9. \A i, j \in 1 .. (m + 1) : i < j => ds[i].time < ds[j].time
    <3>1. ASSUME NEW i \in 1 .. (m + 1), NEW j \in 1 .. (m + 1), i < j PROVE ds[i].time < ds[j].time
      <4>1. i \in 1 .. m
        BY <1>1, <3>1
      <4>2. CASE j = m + 1
        BY <2>1, <2>2, <2>4, <4>1, <4>2
      <4>3. CASE j \in 1 .. m
        BY <1>7, <2>1, <3>1, <4>1, <4>3
      <4> QED BY <2>3, <4>2, <4>3
    <3> QED BY <3>1
  <2>10. Len(ds) > 0 /\ ds[Len(ds)].time = Bucket(list[k])
    BY <1>1, <2>1, <2>2 DEF b
  <2>11. Told(ds, list, k)
    BY <1>10, <2>1, <2>7, <2>8, <2>9, <2>10 DEF Told
  <2> QED BY <2>11 DEF ds
<1> QED BY <1>11, <1>12

(* The candles of a paced list, prefix by prefix.                          *)
LEMMA AllTold ==
    ASSUME NEW n \in Nat, NEW list \in [1 .. n -> Point],
           \A i, j \in 1 .. n : i <= j => list[i].time <= list[j].time,
           NEW g, DrawsBy(g, list, n)
    PROVE  \A k \in 0 .. n : Told(g[1 .. k], list, k)
<1> DEFINE T == {k \in 0 .. n : Told(g[1 .. k], list, k)}
<1>1. 0 \in T
  <2>1. 1 .. 0 = {}
    OBVIOUS
  <2>2. g[1 .. 0] = <<>>
    BY <2>1 DEF DrawsBy
  <2>3. Told(<<>>, list, 0)
    BY <2>1 DEF Told
  <2> QED BY <2>2, <2>3
<1>2. ASSUME NEW k \in 1 .. n, k - 1 \in T PROVE k \in T
  <2>1. (1 .. k) \ {Max(1 .. k)} = 1 .. (k - 1)
    BY LastOfFirst
  <2>2. g[1 .. k] = Drawn(g[1 .. (k - 1)], list[k])
    BY <2>1 DEF DrawsBy
  <2>3. Told(g[1 .. (k - 1)], list, k - 1)
    BY <1>2
  <2>4. Told(g[1 .. k], list, k)
    BY <2>2, <2>3, TellsOn
  <2> QED BY <2>4
<1> HIDE DEF T
<1>3. \A k \in 0 .. n : k \in T
  BY <1>1, <1>2, CountsUp
<1> QED BY <1>3 DEF T

\* The last candles of fs are those of cs, except that the first of them began earlier.
Alike(cs, fs) ==
    LET n == Len(cs)
        m == Len(fs)
    IN  /\ cs \in Seq(Candle) /\ fs \in Seq(Candle) /\ 1 <= n /\ n <= m
        /\ cs[1].time = fs[m - n + 1].time
        /\ \A i \in 2 .. n : cs[i] = fs[m - n + i]

LEMMA StaysAlike ==
    ASSUME NEW cs, NEW fs, Alike(cs, fs), NEW p \in Point
    PROVE  Alike(Drawn(cs, p), Drawn(fs, p))
<1> DEFINE n == Len(cs)  m == Len(fs)  ds == Drawn(cs, p)  es == Drawn(fs, p)  d == m - n
<1>1. /\ cs \in Seq(Candle) /\ fs \in Seq(Candle) /\ 1 <= n /\ n <= m /\ n \in Nat /\ m \in Nat
      /\ DOMAIN cs = 1 .. n /\ DOMAIN fs = 1 .. m
      /\ cs[1].time = fs[d + 1].time /\ \A i \in 2 .. n : cs[i] = fs[d + i]
  BY DEF Alike
<1>2. /\ ds \in Seq(Candle)
      /\ n > 0 /\ cs[n].time = Bucket(p) =>
            /\ Len(ds) = n /\ \A i \in 1 .. n : i # n => ds[i] = cs[i]
            /\ ds[n] = Taken(cs[n], p)
      /\ ~(n > 0 /\ cs[n].time = Bucket(p)) =>
            /\ Len(ds) = n + 1 /\ \A i \in 1 .. n : ds[i] = cs[i]
            /\ ds[n + 1] = Opened(p)
  BY <1>1, DrawnFacts
<1>3. /\ es \in Seq(Candle)
      /\ m > 0 /\ fs[m].time = Bucket(p) =>
            /\ Len(es) = m /\ \A i \in 1 .. m : i # m => es[i] = fs[i]
            /\ es[m] = Taken(fs[m], p)
      /\ ~(m > 0 /\ fs[m].time = Bucket(p)) =>
            /\ Len(es) = m + 1 /\ \A i \in 1 .. m : es[i] = fs[i]
            /\ es[m + 1] = Opened(p)
  BY <1>1, DrawnFacts
<1> HIDE DEF n, m, ds, es
<1>4. d \in Nat /\ m = d + n
  BY <1>1
<1> HIDE DEF d
<1>5. cs[n].time = fs[m].time
  <2>1. n = 1 \/ n \in 2 .. n
    BY <1>1
  <2> QED BY <1>1, <1>4, <2>1
<1>6. \A i \in 1 .. n : d + i \in 1 .. m /\ (d + i = m <=> i = n)
  BY <1>1, <1>4
<1>7. CASE cs[n].time = Bucket(p)
  <2>1. /\ Len(ds) = n /\ Len(es) = m /\ ds[n] = Taken(cs[n], p) /\ es[m] = Taken(fs[m], p)
        /\ \A i \in 1 .. n : i # n => ds[i] = cs[i] /\ es[d + i] = fs[d + i]
    <3>1. n > 0 /\ m > 0 /\ fs[m].time = Bucket(p)
      BY <1>1, <1>5, <1>7
    <3>2. /\ Len(ds) = n /\ ds[n] = Taken(cs[n], p)
          /\ \A i \in 1 .. n : i # n => ds[i] = cs[i]
      BY <1>2, <1>7, <3>1
    <3>3. /\ Len(es) = m /\ es[m] = Taken(fs[m], p)
          /\ \A i \in 1 .. m : i # m => es[i] = fs[i]
      BY <1>3, <3>1
    <3>4. \A i \in 1 .. n : i # n => es[d + i] = fs[d + i]
      BY <1>6, <3>3
    <3> QED BY <3>2, <3>3, <3>4
  <2>2. \A i \in 2 .. n : ds[i] = es[d + i]
    <3>1. ASSUME NEW i \in 2 .. n PROVE ds[i] = es[d + i]
      <4>1. CASE i = n
        <5>1. cs[n] = fs[m]
          BY <1>1, <1>4, <4>1
        <5> QED BY <1>4, <2>1, <4>1, <5>1
      <4>2. CASE i # n
        <5>1. i \in 1 .. n /\ cs[i] = fs[d + i]
          BY <1>1
        <5> QED BY <2>1, <4>2, <5>1
      <4> QED BY <4>1, <4>2
    <3> QED BY <3>1
  <2>3. ds[1].time = es[d + 1].time
    <3>1. CASE n = 1
      <4>0. 1 \in 1 .. n /\ m \in 1 .. m
        BY <1>1
      <4>1. cs[1] \in Candle /\ fs[m] \in Candle
        BY <1>1, <4>0
      <4>2. Taken(cs[1], p).time = cs[1].time /\ Taken(fs[m], p).time = fs[m].time
        <5>1. \A c \in Candle : Taken(c, p).time = c.time
          BY DEF Taken, Candle
        <5> QED BY <4>1, <5>1
      <4> QED BY <1>4, <1>5, <2>1, <3>1, <4>2
    <3>2. CASE n # 1
      <4>1. 1 \in 1 .. n
        BY <1>1
      <4> QED BY <1>1, <2>1, <3>2, <4>1
    <3> QED BY <3>1, <3>2
  <2>4. Len(es) - Len(ds) = d
    BY <1>1, <1>4, <2>1
  <2>5. Alike(ds, es)
    BY <1>1, <1>2, <1>3, <2>1, <2>2, <2>3, <2>4 DEF Alike
  <2> QED BY <2>5 DEF ds, es
<1>8. CASE cs[n].time # Bucket(p)
  <2>1. /\ Len(ds) = n + 1 /\ Len(es) = m + 1 /\ ds[n + 1] = Opened(p) /\ es[m + 1] = Opened(p)
        /\ \A i \in 1 .. n : ds[i] = cs[i] /\ es[d + i] = fs[d + i]
    BY <1>1, <1>2, <1>3, <1>5, <1>6, <1>8
  <2>2. \A i \in 2 .. n + 1 : ds[i] = es[d + i]
    <3>1. ASSUME NEW i \in 2 .. n + 1 PROVE ds[i] = es[d + i]
      <4>1. CASE i = n + 1
        <5>1. d + i = m + 1
          BY <1>1, <1>4, <4>1
        <5> QED BY <2>1, <4>1, <5>1
      <4>2. CASE i # n + 1
        <5>1. i \in 1 .. n /\ i \in 2 .. n
          BY <1>1, <4>2
        <5> QED BY <1>1, <2>1, <5>1
      <4> QED BY <4>1, <4>2
    <3> QED BY <3>1
  <2>3. ds[1].time = es[d + 1].time
    <3>1. 1 \in 1 .. n
      BY <1>1
    <3> QED BY <1>1, <2>1, <3>1
  <2>4. Len(es) - Len(ds) = d
    BY <1>1, <1>4, <2>1
  <2>5. 1 <= Len(ds) /\ Len(ds) <= Len(es)
    BY <1>1, <2>1
  <2>6. Alike(ds, es)
    BY <1>2, <1>3, <2>1, <2>2, <2>3, <2>4, <2>5 DEF Alike
  <2> QED BY <2>6 DEF ds, es
<1> QED BY <1>7, <1>8

(* What was dropped before changes the oldest candle only.                 *)
LEMMA DroppedOnce ==
    ASSUME NEW n \in Nat, NEW full \in [1 .. n -> Point],
           \A i, j \in 1 .. n : i <= j => full[i].time <= full[j].time,
           NEW m \in 1 .. n, NEW rest \in [1 .. m -> Point],
           \A i \in 1 .. m : rest[i] = full[n - m + i]
    PROVE  Alike(Candles(rest), Candles(full))
<1> DEFINE d == n - m
<1>1. d \in Nat /\ m \in Nat /\ n = d + m
  OBVIOUS
<1>2. PICK g : Candles(rest) = g[1 .. m] /\ DrawsBy(g, rest, m)
  BY <1>1, CandlesFold
<1>3. PICK f : Candles(full) = f[1 .. n] /\ DrawsBy(f, full, n)
  BY CandlesFold
<1>4. \A k \in 0 .. n : Told(f[1 .. k], full, k)
  BY <1>3, AllTold
<1> HIDE DEF d
<1> DEFINE Same(k) == k > 0 => Alike(g[1 .. k], f[1 .. (d + k)])
           T == {k \in 0 .. m : Same(k)}
<1>5. 0 \in T
  OBVIOUS
<1>6. ASSUME NEW k \in 1 .. m, k - 1 \in T PROVE k \in T
  <2>1. (1 .. k) \ {Max(1 .. k)} = 1 .. (k - 1)
    BY LastOfFirst
  <2>2. d + k \in 1 .. n /\ d + k \in Nat \ {0} /\ (d + k) - 1 = d + (k - 1) /\ d + (k - 1) \in 0 .. n
    BY <1>1
  <2>3. (1 .. (d + k)) \ {Max(1 .. (d + k))} = 1 .. ((d + k) - 1)
    <3>1. \A e \in Nat \ {0} : (1 .. e) \ {Max(1 .. e)} = 1 .. (e - 1)
      BY LastOfFirst
    <3> QED BY <2>2, <3>1, Zenon
  <2> DEFINE p == rest[k]  cs == g[1 .. (k - 1)]  fs == f[1 .. (d + (k - 1))]
  <2>4. p \in Point /\ p = full[d + k]
    BY DEF d
  <2>5. g[1 .. k] = Drawn(cs, p)
    BY <1>2, <2>1 DEF DrawsBy
  <2>6. f[1 .. (d + k)] = Drawn(fs, p)
    BY <1>3, <2>2, <2>3, <2>4 DEF DrawsBy
  <2>7. CASE k = 1
    <3>1. cs = <<>>
      <4>1. 1 .. (k - 1) = {}
        BY <2>7
      <4> QED BY <1>2, <4>1 DEF DrawsBy
    <3>2. Told(f[1 .. (d + k)], full, d + k)
      BY <1>4, <2>2
    <3> DEFINE ds == Drawn(cs, p)  es == f[1 .. (d + k)]  l == Len(es)
    <3>3. es \in Seq(Candle) /\ l > 0 /\ l \in Nat /\ es[l].time = Bucket(p)
      BY <2>2, <2>4, <3>2 DEF Told
    <3>4. cs \in Seq(Candle) /\ Len(cs) = 0
      BY <3>1
    <3>5. ds \in Seq(Candle) /\ Len(ds) = 1 /\ ds[1] = Opened(p)
      <4> DEFINE l0 == Len(cs)
      <4>1. l0 = 0 /\ cs \in Seq(Candle)
        BY <3>4
      <4> HIDE DEF cs, p
      <4>2. /\ Drawn(cs, p) \in Seq(Candle)
            /\ ~(l0 > 0 /\ cs[l0].time = Bucket(p)) =>
                  Len(Drawn(cs, p)) = l0 + 1 /\ Drawn(cs, p)[l0 + 1] = Opened(p)
        BY <2>4, <4>1, DrawnFacts
      <4> HIDE DEF l0
      <4> QED BY <4>1, <4>2
    <3>6. Opened(p).time = Bucket(p)
      BY DEF Opened
    <3> HIDE DEF ds, es, l
    <3>7. l - 1 + 1 = l /\ 1 <= l
      BY <3>3
    <3>8. Alike(ds, es)
      BY <3>3, <3>5, <3>6, <3>7 DEF Alike, l
    <3> QED BY <2>5, <3>8 DEF ds, es
  <2>8. CASE k # 1
    <3>1. k - 1 > 0
      BY <2>8
    <3>2. Alike(cs, fs)
      BY <1>6, <2>2, <3>1
    <3> HIDE DEF cs, fs, p
    <3>3. Alike(g[1 .. k], f[1 .. (d + k)])
      BY <2>4, <2>5, <2>6, <3>2, StaysAlike
    <3> QED BY <3>3
  <2> QED BY <2>7, <2>8
<1>7. m \in T
  <2> HIDE DEF T
  <2>1. \A k \in 0 .. m : k \in T
    BY <1>1, <1>5, <1>6, CountsUp
  <2> QED BY <1>1, <2>1
<1> QED BY <1>1, <1>2, <1>3, <1>7

-----------------------------------------------------------------------------
(* The invariant: the ticks came in order, and the history is their end.   *)
SeriesInv ==
    /\ Paced(ticks)
    /\ points \in Seq(Point) /\ Len(points) <= Len(ticks)
    /\ \A i \in DOMAIN points : points[i] = ticks[Len(ticks) - Len(points) + i]

LEMMA SeriesTicks ==
    ASSUME SeriesInv, NEW gap \in Gaps, NEW price \in TickPrices, Tick(gap, price)
    PROVE  SeriesInv'
<1> DEFINE n == Len(ticks)  m == Len(points)
           moment == IF ticks = <<>> THEN gap ELSE ticks[n].time + gap
           point == [time |-> moment, value |-> price]
           all == Append(points, point)
           more == Append(ticks, point)
<1>1. /\ ticks \in Seq(Point) /\ n \in Nat /\ DOMAIN ticks = 1 .. n
      /\ points \in Seq(Point) /\ m \in Nat /\ DOMAIN points = 1 .. m /\ m <= n
      /\ \A i \in 1 .. m : points[i] = ticks[n - m + i]
      /\ \A i, j \in 1 .. n : i <= j => ticks[i].time <= ticks[j].time
  BY DEF SeriesInv, Paced
<1>2. gap \in Nat /\ price \in Int
  BY SeriesAssumption
<1>3. \A i \in 1 .. n : ticks[i].time \in Nat
  BY <1>1, PointFacts
<1>4. moment \in Nat /\ \A i \in 1 .. n : ticks[i].time <= moment
  <2>1. CASE ticks = <<>>
    BY <1>1, <1>2, <2>1
  <2>2. CASE ticks # <<>>
    <3>1. n \in 1 .. n /\ moment = ticks[n].time + gap
      BY <1>1, <2>2
    <3> HIDE DEF n, moment
    <3>2. moment \in Nat /\ ticks[n].time <= moment
      BY <1>2, <1>3, <3>1
    <3>3. ASSUME NEW i \in 1 .. n PROVE ticks[i].time <= moment
      <4>1. ticks[i].time <= ticks[n].time
        BY <1>1, <3>1
      <4> QED BY <1>3, <3>1, <3>2, <4>1
    <3> QED BY <3>2, <3>3
  <2> QED BY <2>1, <2>2
<1>5. point \in Point /\ point.time = moment
  BY <1>2, <1>4 DEF Point
<1>6. ticks' = more /\ points' = IF Len(all) > MaxHistory THEN Tail(all) ELSE all
  BY DEF Tick
<1> HIDE DEF point, moment
<1>7. /\ more \in Seq(Point) /\ Len(more) = n + 1 /\ DOMAIN more = 1 .. (n + 1)
      /\ more[n + 1] = point /\ \A i \in 1 .. n : more[i] = ticks[i]
  BY <1>1, <1>5
<1>8. /\ all \in Seq(Point) /\ Len(all) = m + 1 /\ DOMAIN all = 1 .. (m + 1)
      /\ all[m + 1] = point /\ \A i \in 1 .. m : all[i] = points[i]
  BY <1>1, <1>5
<1>9. Tail(all) \in Seq(Point) /\ Len(Tail(all)) = m /\ DOMAIN Tail(all) = 1 .. m
      /\ \A i \in 1 .. m : Tail(all)[i] = all[i + 1]
  BY <1>1, <1>8
<1> HIDE DEF more, all, n, m
<1>10. \A i \in 1 .. (n + 1) : i = n + 1 \/ i \in 1 .. n
  BY <1>1
<1>11. \A i \in 1 .. (m + 1) : i = m + 1 \/ i \in 1 .. m
  BY <1>1
<1>12. Paced(more)
  <2>1. ASSUME NEW i \in 1 .. (n + 1), NEW j \in 1 .. (n + 1), i <= j
        PROVE  more[i].time <= more[j].time
    <3>1. CASE j = n + 1
      <4>1. CASE i = n + 1
        BY <1>4, <1>5, <1>7, <3>1, <4>1
      <4>2. CASE i \in 1 .. n
        BY <1>4, <1>5, <1>7, <3>1, <4>2
      <4> QED BY <1>10, <4>1, <4>2
    <3>2. CASE j \in 1 .. n
      <4>1. i \in 1 .. n
        BY <1>1, <2>1, <3>2
      <4> QED BY <1>1, <1>7, <2>1, <3>2, <4>1
    <3> QED BY <1>10, <3>1, <3>2
  <2> QED BY <1>7, <2>1 DEF Paced
<1>13. \A i \in 1 .. (m + 1) : all[i] = more[n - m + i]
  <2>1. ASSUME NEW i \in 1 .. (m + 1) PROVE all[i] = more[n - m + i]
    <3>1. CASE i = m + 1
      <4>1. n - m + i = n + 1
        BY <1>1, <3>1
      <4> QED BY <1>7, <1>8, <3>1, <4>1
    <3>2. CASE i \in 1 .. m
      <4>1. n - m + i \in 1 .. n
        BY <1>1, <3>2
      <4> QED BY <1>1, <1>7, <1>8, <3>2, <4>1
    <3> QED BY <1>11, <3>1, <3>2
  <2> QED BY <2>1
<1>14. CASE Len(all) > MaxHistory
  <2>1. points' = Tail(all)
    BY <1>6, <1>14
  <2>2. \A i \in 1 .. m : Tail(all)[i] = more[(n + 1) - m + i]
    <3>1. ASSUME NEW i \in 1 .. m PROVE Tail(all)[i] = more[(n + 1) - m + i]
      <4>1. i + 1 \in 1 .. (m + 1) /\ n - m + (i + 1) = (n + 1) - m + i
        BY <1>1
      <4> QED BY <1>9, <1>13, <4>1
    <3> QED BY <3>1
  <2>3. m <= n + 1
    BY <1>1
  <2> QED BY <1>6, <1>7, <1>9, <1>12, <2>1, <2>2, <2>3 DEF SeriesInv
<1>15. CASE ~(Len(all) > MaxHistory)
  <2>1. points' = all
    BY <1>6, <1>15
  <2>2. m + 1 <= n + 1 /\ (n + 1) - (m + 1) = n - m
    BY <1>1
  <2>3. \A i \in 1 .. (m + 1) : all[i] = more[(n + 1) - (m + 1) + i]
    BY <1>13, <2>2
  <2> QED BY <1>6, <1>7, <1>8, <1>12, <2>1, <2>2, <2>3 DEF SeriesInv
<1> QED BY <1>14, <1>15

(* A candle shows what was observed in its time.                           *)
LEMMA CandleShows ==
    ASSUME NEW list \in Seq(Point), NEW c, Telling(c, list, Len(list))
    PROVE  LET In == {k \in DOMAIN list : list[k].time \in c.time .. c.time + BucketSeconds - 1}
               values == {list[k].value : k \in In}
               ends == {k \in In : k - 1 \notin In \/ k + 1 \notin In}
           IN  /\ {c.low, c.high} \subseteq values /\ \A v \in values : v \in c.low .. c.high
               /\ \E first, last \in ends :
                      /\ \A k \in ends : first <= k /\ k <= last
                      /\ list[first].value = c.open /\ list[last].value = c.close
<1> DEFINE n == Len(list)
           In == {k \in DOMAIN list : list[k].time \in c.time .. c.time + BucketSeconds - 1}
           values == {list[k].value : k \in In}
           ends == {k \in In : k - 1 \notin In \/ k + 1 \notin In}
<1>1. n \in Nat /\ DOMAIN list = 1 .. n /\ \A k \in 1 .. n : list[k] \in Point
  OBVIOUS
<1>2. PICK a \in Nat, z \in Nat : TellsOf(c, list, n, a, z)
  BY DEF Telling
<1> HIDE DEF n
<1>3. /\ a \in 1 .. n /\ z \in 1 .. n /\ a <= z
      /\ \A j \in 1 .. n : Bucket(list[j]) = c.time <=> a <= j /\ j <= z
      /\ list[a].value = c.open /\ list[z].value = c.close
      /\ \E j \in a .. z : list[j].value = c.low
      /\ \E j \in a .. z : list[j].value = c.high
      /\ \A j \in a .. z : c.low <= list[j].value /\ list[j].value <= c.high
  BY <1>2 DEF TellsOf
<1>4. Bucket(list[a]) = c.time
  BY <1>3
<1>5. In = a .. z
  <2>1. ASSUME NEW k \in 1 .. n PROVE k \in In <=> k \in a .. z
    <3>1. list[k].time \in c.time .. c.time + BucketSeconds - 1 <=> Bucket(list[k]) = c.time
      <4>1. list[a] \in Point /\ list[k] \in Point
        BY <1>1, <1>3
      <4>2. list[k].time \in Bucket(list[a]) .. Bucket(list[a]) + BucketSeconds - 1
                <=> Bucket(list[k]) = Bucket(list[a])
        BY <4>1, Buckets
      <4> QED BY <1>4, <4>2
    <3>2. k \in In <=> list[k].time \in c.time .. c.time + BucketSeconds - 1
      BY <1>1
    <3> QED BY <1>3, <3>1, <3>2
  <2>2. In \subseteq 1 .. n
    BY <1>1
  <2>3. a .. z \subseteq 1 .. n
    BY <1>1, <1>3
  <2> HIDE DEF In
  <2> QED BY <2>1, <2>2, <2>3
<1>6. \A k \in a .. z : list[k].value \in Int
  <2>1. ASSUME NEW k \in a .. z PROVE list[k].value \in Int
    <3>1. k \in 1 .. n
      BY <1>1, <1>3
    <3> QED BY <1>1, <3>1, PointFacts
  <2> QED BY <2>1
<1> HIDE DEF In
<1>7. {c.low, c.high} \subseteq values /\ c.low \in Int /\ c.high \in Int
  BY <1>3, <1>5, <1>6
<1>8. \A v \in values : v \in c.low .. c.high
  <2>1. ASSUME NEW k \in a .. z PROVE list[k].value \in c.low .. c.high
    BY <1>3, <1>6, <1>7
  <2> QED BY <1>5, <2>1
<1>9. a \in ends /\ z \in ends /\ \A k \in ends : a <= k /\ k <= z
  <2>1. a \in a .. z /\ z \in a .. z /\ a - 1 \notin a .. z /\ z + 1 \notin a .. z
    BY <1>3
  <2>2. \A k \in a .. z : a <= k /\ k <= z
    BY <1>3
  <2> QED BY <1>5, <2>1, <2>2
<1> HIDE DEF values, ends
<1>10. \E first, last \in ends :
          /\ \A k \in ends : first <= k /\ k <= last
          /\ list[first].value = c.open /\ list[last].value = c.close
  BY <1>3, <1>9
<1> QED BY <1>7, <1>8, <1>10 DEF In, values, ends

LEMMA CandlesTell ==
    ASSUME SeriesInv
    PROVE  CandlesAreObserved
<1> DEFINE cs == Candles(points)  fs == Candles(ticks)  m == Len(points)  n == Len(ticks)
           In(i) == {k \in DOMAIN points : points[k].time \in cs[i].time .. cs[i].time + BucketSeconds - 1}
           dropped == Len(fs) - Len(cs)
<1>1. /\ ticks \in Seq(Point) /\ points \in Seq(Point) /\ m <= n /\ m \in Nat /\ n \in Nat
      /\ \A i \in 1 .. m : points[i] = ticks[n - m + i]
      /\ \A i, j \in 1 .. n : i <= j => ticks[i].time <= ticks[j].time
      /\ ticks \in [1 .. n -> Point] /\ points \in [1 .. m -> Point]
      /\ DOMAIN points = 1 .. m
  BY DEF SeriesInv, Paced
<1> HIDE DEF m, n
<1>2. \A i, j \in 1 .. m : i <= j => points[i].time <= points[j].time
  <2>1. ASSUME NEW i \in 1 .. m, NEW j \in 1 .. m, i <= j PROVE points[i].time <= points[j].time
    <3>1. n - m + i \in 1 .. n /\ n - m + j \in 1 .. n /\ n - m + i <= n - m + j
      BY <1>1, <2>1
    <3> QED BY <1>1, <3>1
  <2> QED BY <2>1
<1>3. Told(cs, points, m)
  <2>1. PICK g : cs = g[1 .. m] /\ DrawsBy(g, points, m)
    BY <1>1, CandlesFold
  <2>2. \A k \in 0 .. m : Told(g[1 .. k], points, k)
    BY <1>1, <1>2, <2>1, AllTold
  <2>3. m \in 0 .. m
    BY <1>1
  <2> QED BY <2>1, <2>2, <2>3
<1> DEFINE l == Len(cs)
<1>4. /\ cs \in Seq(Candle) /\ l \in Nat /\ DOMAIN cs = 1 .. l
      /\ m = 0 => l = 0
      /\ \A i, j \in 1 .. l : i < j => cs[i].time < cs[j].time
      /\ \A j \in 1 .. m : \E i \in 1 .. l : cs[i].time = Bucket(points[j])
      /\ \A i \in 1 .. l : Telling(cs[i], points, m)
  BY <1>3 DEF Told
<1>5. m > 0 => Alike(cs, fs)
  <2>1. m > 0 => m \in 1 .. n
    BY <1>1
  <2> QED BY <1>1, <2>1, DroppedOnce
<1> HIDE DEF cs, fs
<1>6. ASSUME NEW i \in 1 .. l, i > 1 PROVE cs[i - 1].time < cs[i].time /\ cs[i] = fs[i + dropped]
  <2>1. i - 1 \in 1 .. l /\ i - 1 < i /\ i \in 2 .. l
    BY <1>4, <1>6
  <2>2. cs[i - 1].time < cs[i].time
    BY <1>4, <2>1
  <2>3. m > 0
    BY <1>1, <1>4, <1>6
  <2> DEFINE k == Len(fs)
  <2>4. k \in Nat /\ cs[i] = fs[k - l + i]
    BY <1>5, <2>1, <2>3 DEF Alike
  <2> HIDE DEF k, l
  <2>5. k - l + i = i + (k - l)
    BY <1>4, <2>4
  <2> QED BY <2>2, <2>4, <2>5 DEF k, l
<1>7. DOMAIN points = UNION {In(i) : i \in DOMAIN cs}
  <2>1. ASSUME NEW k \in 1 .. m PROVE \E i \in DOMAIN cs : k \in In(i)
    <3>1. PICK i \in 1 .. l : cs[i].time = Bucket(points[k])
      BY <1>4
    <3>2. points[k] \in Point
      BY <1>1
    <3>3. points[k].time \in Bucket(points[k]) .. Bucket(points[k]) + BucketSeconds - 1
      BY <3>2, Buckets
    <3> QED BY <1>1, <1>4, <3>1, <3>3
  <2> QED BY <1>1, <2>1
<1>8. ASSUME NEW i \in DOMAIN cs
      PROVE  LET c == cs[i]
                 values == {points[k].value : k \in In(i)}
                 ends == {k \in In(i) : k - 1 \notin In(i) \/ k + 1 \notin In(i)}
             IN  /\ {c.low, c.high} \subseteq values /\ \A v \in values : v \in c.low .. c.high
                 /\ \E first, last \in ends :
                        /\ \A k \in ends : first <= k /\ k <= last
                        /\ points[first].value = c.open /\ points[last].value = c.close
                 /\ i > 1 => cs[i - 1].time < c.time
                 /\ i > 1 => c = fs[i + dropped]
  <2>1. Telling(cs[i], points, Len(points))
    BY <1>4 DEF m
  <2>2. i \in 1 .. l
    BY <1>4
  <2>3. i > 1 => cs[i - 1].time < cs[i].time /\ cs[i] = fs[i + dropped]
    BY <1>6, <2>2
  <2> DEFINE c == cs[i]
             values == {points[k].value : k \in In(i)}
             ends == {k \in In(i) : k - 1 \notin In(i) \/ k + 1 \notin In(i)}
  <2>4. /\ {c.low, c.high} \subseteq values /\ \A v \in values : v \in c.low .. c.high
        /\ \E first, last \in ends :
               /\ \A k \in ends : first <= k /\ k <= last
               /\ points[first].value = c.open /\ points[last].value = c.close
    BY <1>1, <2>1, CandleShows
  <2> HIDE DEF c, values, ends, dropped
  <2> QED BY <2>3, <2>4 DEF c, values, ends
<1> QED BY <1>7, <1>8 DEF CandlesAreObserved, cs, fs

(***************************************************************************)
(* For any ticks, prices and lengths of the history and of a bucket: every *)
(* candle has the open, the close and the extremes of what was observed in *)
(* its time, candles come in order and leave nothing out, and dropping the *)
(* oldest ticks redraws the oldest candle only (bucketCandles() and the    *)
(* store of apps/web/src/realtime).                                        *)
(***************************************************************************)
THEOREM CandlesStayObserved ==
    SeriesInit /\ [][SeriesNext]_seriesVars => []CandlesAreObserved
<1>1. SeriesInit => SeriesInv
  BY DEF SeriesInit, NoSeries, SeriesInv, Paced
<1>2. SeriesInv /\ [SeriesNext]_seriesVars => SeriesInv'
  <2>1. SeriesInv /\ SeriesNext => SeriesInv'
    BY SeriesTicks DEF SeriesNext
  <2>2. SeriesInv /\ UNCHANGED seriesVars => SeriesInv'
    BY DEF SeriesInv, Paced, seriesVars
  <2> QED BY <2>1, <2>2
<1>3. SeriesInv => CandlesAreObserved
  BY CandlesTell
<1> QED BY <1>1, <1>2, <1>3, PTL
=============================================================================
