---------------------- MODULE WorkerSupervisionProofs ----------------------
(***************************************************************************)
(* For every period, threshold, delay and number of faults: a write that   *)
(* reports success is in the database although two writers share one       *)
(* transaction, and HEALTHY is not shown through a long silence.           *)
(***************************************************************************)
EXTENDS WorkerSupervision, SequenceTheorems, FiniteSetTheorems, TLAPS

(* The writers that are writing wait in the queue, each of them once.      *)
Waiting ==
    \/ queue = <<>> /\ \A w \in Writers : ~ Writing(w)
    \/ \E w \in Writers : queue = <<w>> /\ Writing(w) /\ ~ Writing(Other(w))
    \/ \E w \in Writers : queue = <<w, Other(w)>> /\ Writing(w) /\ Writing(Other(w))

SessionTypes ==
    /\ job \in [Writers -> Nat] /\ \A w \in Writers : job[w] <= Rollback(w)
    /\ staged \in [Writers -> SUBSET Nat] /\ saved \in [Writers -> SUBSET Nat]
    /\ result \in [Writers -> {"none", "written", "failed"}]
    /\ spoiled \in [Writers -> BOOLEAN]
    /\ \A w \in Writers : staged[w] \subseteq Rows(w) /\ saved[w] \subseteq Rows(w)

LoopTypes ==
    /\ loop \in {"reading", "awaiting", "flushing", "backoff", "ended"}
    /\ socket \in {"none", "connecting", "open", "closing"}
    /\ loop = "awaiting" <=> socket # "none"
    /\ dead \in BOOLEAN /\ stopping \in BOOLEAN /\ window \in BOOLEAN
    /\ chained \in BOOLEAN /\ late \in BOOLEAN
    /\ attempt \in 0 .. MaxAttempt /\ retry \in 0 .. MaxBackoff /\ grace \in 0 .. CloseTimeout
    /\ state \in {"HEALTHY", "STALE", "DISCONNECTED"}
    /\ age \in {Never} \cup 0 .. MaxAge /\ tick \in 0 .. HealthPeriod /\ since \in Nat
    /\ loop = "ended" => stopping

(* A write whose rows nobody has spoiled has them staged or saved.         *)
RowsSoFar(w) ==
    job[w] \in 2 .. Commit(w) /\ ~ spoiled[w] =>
        txn # "aborted" /\ 2 .. job[w] - 1 \subseteq staged[w] \cup saved[w]

WrittenIsSaved(w) == result[w] = "written" /\ ~ spoiled[w] => saved[w] = Rows(w)

(* A writer about to roll back has spoiled the other one's write, or that  *)
(* one is still waiting to begin.                                          *)
RollsBackAlone(w) ==
    job[w] = Rollback(w) /\ Writing(Other(w)) /\ ~ spoiled[Other(w)] =>
        job[Other(w)] = Begin /\ queue = <<w, Other(w)>>

TxnInv ==
    /\ SessionTypes /\ Waiting /\ txn \in {"none", "open", "aborted"}
    /\ txn = "none" => staged = Discarded
    /\ \A w \in Writers : /\ job[w] \in {0, Begin} => staged[w] = {}
                          /\ RowsSoFar(w) /\ WrittenIsSaved(w) /\ RollsBackAlone(w)

(* The health timer finds its last write done.                             *)
HealthWrites == Writing("health") => tick = HealthPeriod

(* The silence and the time since the socket opened are bounded by what    *)
(* is left to the next health timer.                                       *)
HeardInv ==
    state = "HEALTHY" /\ ~ stopping =>
        \/ age = Never
        \/ age <= StaleAfter + (HealthPeriod - tick)
        \/ since <= HealthPeriod - tick

SupervisionInv == TxnInv /\ LoopTypes /\ HealthWrites /\ HeardInv

-----------------------------------------------------------------------------
(* The two writers, their statements and the client's queue.               *)

LEMMA TwoWriters ==
    /\ Writers = {"flush", "health"}
    /\ \A w \in Writers : /\ Other(w) \in Writers /\ Other(w) # w /\ Other(Other(w)) = w
                          /\ \A v \in Writers : v = w \/ v = Other(w)
BY DEF Writers, Other

LEMMA Statements ==
    \A w \in Writers :
        /\ Commit(w) \in Nat /\ Commit(w) >= 4 /\ Rollback(w) = Commit(w) + 1
        /\ Rows(w) = 2 .. Commit(w) - 1 /\ Rows(w) \subseteq Nat
<1>1. Cardinality(2 .. 4) = 3 /\ Cardinality(2 .. 3) = 2
  <2>1. 2 \in Int /\ 3 \in Int /\ 4 \in Int
    OBVIOUS
  <2>2. /\ Cardinality(2 .. 4) = IF 2 > 4 THEN 0 ELSE 4 - 2 + 1
        /\ Cardinality(2 .. 3) = IF 2 > 3 THEN 0 ELSE 3 - 2 + 1
    BY <2>1, FS_Interval, Zenon
  <2> QED BY <2>2
<1>2. Commit("flush") = 5 /\ Commit("health") = 4
  BY <1>1 DEF Commit, Rows
<1>3. Rows("flush") = 2 .. 4 /\ Rows("health") = 2 .. 3
  BY DEF Rows
<1>4. ASSUME NEW w \in Writers
      PROVE  Commit(w) \in Nat /\ Commit(w) >= 4 /\ Rows(w) = 2 .. Commit(w) - 1
  <2>1. /\ 5 \in Nat /\ 5 >= 4 /\ 2 .. 4 = 2 .. 5 - 1
        /\ 4 \in Nat /\ 4 >= 4 /\ 2 .. 3 = 2 .. 4 - 1
    OBVIOUS
  <2>2. w = "flush" \/ w = "health"
    BY DEF Writers
  <2> QED BY <1>2, <1>3, <2>1, <2>2, Zenon
<1>5. QED
  BY <1>4 DEF Rollback

LEMMA Queues ==
    ASSUME NEW a \in Writers, NEW b \in Writers
    PROVE  /\ Head(<<a>>) = a /\ Tail(<<a>>) = <<>> /\ Append(<<>>, a) = <<a>>
           /\ Head(<<a, b>>) = a /\ Tail(<<a, b>>) = <<b>> /\ Append(<<a>>, b) = <<a, b>>
           /\ <<a>> # <<>> /\ <<a, b>> # <<>> /\ Len(<<a>>) = 1 /\ Len(<<a, b>>) = 2
<1>1. /\ <<a, b>> \in Seq(Writers) /\ <<b>> \in Seq(Writers) /\ <<a>> \in Seq(Writers)
      /\ Len(<<a, b>>) = 2 /\ Len(<<b>>) = 1 /\ Len(<<a>>) = 1
      /\ <<a, b>>[1] = a /\ <<a, b>>[2] = b /\ <<b>>[1] = b /\ <<a>>[1] = a
  OBVIOUS
<1>2. Tail(<<a, b>>) = <<b>>
  <2>1. /\ Len(Tail(<<a, b>>)) = 1 /\ Tail(<<a, b>>)[1] = b
        /\ Tail(<<a, b>>) \in Seq(Writers)
    BY <1>1, HeadTailProperties
  <2> QED BY <1>1, <2>1, SeqEqual
<1>3. Append(<<a>>, b) = <<a, b>>
  <2>1. /\ Append(<<a>>, b) \in Seq(Writers) /\ Len(Append(<<a>>, b)) = 2
        /\ Append(<<a>>, b)[1] = a /\ Append(<<a>>, b)[2] = b
    BY <1>1, AppendProperties
  <2>2. \A i \in 1 .. 2 : Append(<<a>>, b)[i] = <<a, b>>[i]
    BY <1>1, <2>1
  <2> QED BY <1>1, <2>1, <2>2, SeqEqual
<1>4. Tail(<<a>>) = <<>> /\ Append(<<>>, a) = <<a>> /\ Head(<<a>>) = a /\ Head(<<a, b>>) = a
  OBVIOUS
<1>5. <<a>> # <<>> /\ <<a, b>> # <<>>
  OBVIOUS
<1>6. QED
  BY <1>1, <1>2, <1>3, <1>4, <1>5

(* The writer whose statement is answered.                                 *)
LEMMA AtHead ==
    ASSUME Waiting, queue # <<>>, NEW w, w = Head(queue)
    PROVE  /\ w \in Writers /\ Writing(w)
           /\ \/ /\ ~ Writing(Other(w)) /\ queue = <<w>>
                 /\ Tail(queue) = <<>> /\ Append(Tail(queue), w) = <<w>>
              \/ /\ Writing(Other(w)) /\ queue = <<w, Other(w)>>
                 /\ Tail(queue) = <<Other(w)>> /\ Append(Tail(queue), w) = <<Other(w), w>>
<1>1. CASE \E v \in Writers : queue = <<v>> /\ Writing(v) /\ ~ Writing(Other(v))
  <2>1. PICK v \in Writers : queue = <<v>> /\ Writing(v) /\ ~ Writing(Other(v))
    BY <1>1
  <2>2. w = v
    BY <2>1, Queues
  <2> QED BY <2>1, <2>2, Queues
<1>2. CASE \E v \in Writers : queue = <<v, Other(v)>> /\ Writing(v) /\ Writing(Other(v))
  <2>1. PICK v \in Writers : queue = <<v, Other(v)>> /\ Writing(v) /\ Writing(Other(v))
    BY <1>2
  <2>2. w = v
    BY <2>1, Queues, TwoWriters
  <2> QED BY <2>1, <2>2, Queues, TwoWriters
<1>3. QED
  BY <1>1, <1>2 DEF Waiting

LEMMA ContinueWaits ==
    ASSUME SessionTypes, Waiting, queue # <<>>, NEW w, w = Head(queue),
           NEW n \in Nat \ {0}, Continue(w, n)
    PROVE  /\ Waiting' /\ job'[w] = n /\ job'[Other(w)] = job[Other(w)]
           /\ job' \in [Writers -> Nat]
           /\ queue' = IF Writing(Other(w)) THEN <<Other(w), w>> ELSE <<w>>
<1>1. w \in Writers /\ Other(w) \in Writers /\ Other(w) # w /\ Other(Other(w)) = w
  BY AtHead, TwoWriters
<1>2. job'[w] = n /\ job'[Other(w)] = job[Other(w)] /\ job' \in [Writers -> Nat]
  BY <1>1 DEF Continue, SessionTypes
<1>3. queue' = IF Writing(Other(w)) THEN <<Other(w), w>> ELSE <<w>>
  BY AtHead DEF Continue
<1>4. Waiting'
  BY <1>1, <1>2, <1>3 DEF Waiting, Writing
<1>5. QED
  BY <1>2, <1>3, <1>4

LEMMA FinishWaits ==
    ASSUME SessionTypes, Waiting, queue # <<>>, NEW w, w = Head(queue), NEW how, Finish(w, how)
    PROVE  /\ Waiting' /\ job'[w] = 0 /\ job'[Other(w)] = job[Other(w)]
           /\ job' \in [Writers -> Nat]
           /\ queue' = IF Writing(Other(w)) THEN <<Other(w)>> ELSE <<>>
<1>1. w \in Writers /\ Other(w) \in Writers /\ Other(w) # w /\ Other(Other(w)) = w
  BY AtHead, TwoWriters
<1>2. job'[w] = 0 /\ job'[Other(w)] = job[Other(w)] /\ job' \in [Writers -> Nat]
  BY <1>1 DEF Finish, SessionTypes
<1>3. queue' = IF Writing(Other(w)) THEN <<Other(w)>> ELSE <<>>
  BY AtHead DEF Finish
<1>4. Waiting'
  <2>1. \A v \in Writers : v = w \/ v = Other(w)
    BY <1>1, TwoWriters
  <2> QED BY <1>1, <1>2, <1>3, <2>1 DEF Waiting, Writing
<1>5. QED
  BY <1>2, <1>3, <1>4

LEMMA StartWaits ==
    ASSUME SessionTypes, Waiting, NEW w \in Writers, ~ Writing(w), StartWrite(w)
    PROVE  /\ Waiting' /\ job'[w] = Begin /\ job'[Other(w)] = job[Other(w)]
           /\ job' \in [Writers -> Nat]
           /\ queue' = IF Writing(Other(w)) THEN <<Other(w), w>> ELSE <<w>>
<1>1. Other(w) \in Writers /\ Other(w) # w /\ Other(Other(w)) = w
      /\ \A v \in Writers : v = w \/ v = Other(w)
  BY TwoWriters
<1>2. job'[w] = Begin /\ job'[Other(w)] = job[Other(w)] /\ job' \in [Writers -> Nat]
  BY <1>1 DEF StartWrite, SessionTypes, Begin
<1>3. queue = IF Writing(Other(w)) THEN <<Other(w)>> ELSE <<>>
  <2>1. \A v \in Writers : Writing(v) => v = Other(w)
    BY <1>1
  <2> QED BY <1>1, <2>1, TwoWriters DEF Waiting
<1>4. queue' = IF Writing(Other(w)) THEN <<Other(w), w>> ELSE <<w>>
  BY <1>1, <1>3, Queues DEF StartWrite
<1>5. Waiting'
  BY <1>1, <1>2, <1>4 DEF Waiting, Writing, Begin
<1>6. QED
  BY <1>2, <1>4, <1>5

-----------------------------------------------------------------------------
(* The transaction the two writers share.                                  *)

LEMMA TxnOfBegin ==
    ASSUME TxnInv, queue # <<>>, NEW w, w = Head(queue), ExecuteBegin(w)
    PROVE  TxnInv'
<1> DEFINE v == Other(w)
<1>1. /\ w \in Writers /\ v \in Writers /\ v # w /\ Other(v) = w
      /\ \A u \in Writers : u = w \/ u = v
  BY AtHead, TwoWriters DEF TxnInv
<1>2. UNCHANGED <<staged, saved, spoiled>> /\ job[w] = Begin
  BY DEF ExecuteBegin
<1>3. Commit(w) \in Nat /\ Commit(w) >= 4 /\ Rollback(w) = Commit(w) + 1 /\ Rollback(v) \in Nat
  BY <1>1, Statements
<1>4. CASE txn = "aborted"
  <2>1. Finish(w, "failed") /\ txn' = txn
    BY <1>4 DEF ExecuteBegin
  <2>2. /\ Waiting' /\ job'[w] = 0 /\ job'[v] = job[v] /\ job' \in [Writers -> Nat]
        /\ queue' = IF Writing(v) THEN <<v>> ELSE <<>>
    BY <2>1, FinishWaits DEF TxnInv
  <2>3. result' = [result EXCEPT ![w] = "failed"]
    BY <2>1 DEF Finish
  <2>4. SessionTypes'
    <3>1. job'[w] <= Rollback(w)
      BY <1>3, <2>2
    <3>2. job'[v] <= Rollback(v)
      BY <1>1, <2>2 DEF TxnInv, SessionTypes
    <3>3. \A u \in Writers : job'[u] <= Rollback(u)
      BY <1>1, <3>1, <3>2
    <3> QED BY <1>1, <1>2, <2>2, <2>3, <3>3 DEF TxnInv, SessionTypes
  <2>5. RowsSoFar(w)' /\ WrittenIsSaved(w)' /\ RollsBackAlone(w)' /\ staged'[w] = {}
    BY <1>1, <1>2, <1>3, <2>2, <2>3, <2>4
    DEF TxnInv, RowsSoFar, WrittenIsSaved, RollsBackAlone, SessionTypes
  <2>6. /\ RowsSoFar(v)' /\ WrittenIsSaved(v)' /\ RollsBackAlone(v)'
        /\ job'[v] \in {0, Begin} => staged'[v] = {}
    BY <1>1, <1>2, <2>1, <2>2, <2>3, <2>4
    DEF TxnInv, RowsSoFar, WrittenIsSaved, RollsBackAlone, SessionTypes, Writing
  <2> QED BY <1>1, <1>2, <2>1, <2>2, <2>4, <2>5, <2>6 DEF TxnInv
<1>5. CASE txn # "aborted"
  <2>1. Continue(w, 2) /\ txn' = "open"
    BY <1>5 DEF ExecuteBegin, Begin
  <2>2. /\ Waiting' /\ job'[w] = 2 /\ job'[v] = job[v] /\ job' \in [Writers -> Nat]
        /\ queue' = IF Writing(v) THEN <<v, w>> ELSE <<w>>
    BY <2>1, ContinueWaits DEF TxnInv
  <2>3. result' = result
    BY <2>1 DEF Continue
  <2>4. SessionTypes'
    <3>1. job'[w] <= Rollback(w)
      BY <1>3, <2>2
    <3>2. job'[v] <= Rollback(v)
      BY <1>1, <2>2 DEF TxnInv, SessionTypes
    <3>3. \A u \in Writers : job'[u] <= Rollback(u)
      BY <1>1, <3>1, <3>2
    <3> QED BY <1>1, <1>2, <2>2, <2>3, <3>3 DEF TxnInv, SessionTypes
  <2>5. RowsSoFar(w)' /\ WrittenIsSaved(w)' /\ RollsBackAlone(w)' /\ job'[w] \notin {0, Begin}
    BY <1>1, <1>2, <1>3, <2>1, <2>2, <2>3
    DEF TxnInv, RowsSoFar, WrittenIsSaved, RollsBackAlone, Begin
  <2>6. /\ RowsSoFar(v)' /\ WrittenIsSaved(v)'
        /\ job'[v] \in {0, Begin} => staged'[v] = {}
    BY <1>1, <1>2, <2>1, <2>2, <2>3 DEF TxnInv, RowsSoFar, WrittenIsSaved
  <2>7. RollsBackAlone(v)'
    <3>1. job[v] = Rollback(v) /\ ~ spoiled[w] => queue = <<v, w>>
      BY <1>1, <1>2 DEF TxnInv, RollsBackAlone, Writing, Begin
    <3>2. queue # <<v, w>>
      BY <1>1, AtHead, Queues DEF TxnInv
    <3> QED BY <1>1, <1>2, <2>2, <3>1, <3>2 DEF RollsBackAlone
  <2> QED BY <1>1, <1>2, <2>1, <2>2, <2>4, <2>5, <2>6, <2>7 DEF TxnInv
<1>6. QED
  BY <1>4, <1>5

LEMMA TxnOfRow ==
    ASSUME TxnInv, queue # <<>>, NEW w, w = Head(queue), ExecuteRow(w)
    PROVE  TxnInv'
<1> DEFINE v == Other(w)
           k == job[w]
<1>1. /\ w \in Writers /\ v \in Writers /\ v # w /\ Other(v) = w /\ Writing(w)
      /\ \A u \in Writers : u = w \/ u = v
      /\ queue # <<v, w>>
  BY AtHead, TwoWriters, Queues DEF TxnInv
<1>2. /\ Commit(w) \in Nat /\ Commit(w) >= 4 /\ Rollback(w) = Commit(w) + 1 /\ Rollback(v) \in Nat
      /\ Rows(w) = 2 .. Commit(w) - 1
  BY <1>1, Statements
<1>3. /\ UNCHANGED <<txn, spoiled, result>> /\ k \in Nat /\ k >= 2 /\ k <= Commit(w) - 1
      /\ k \in Rows(w) /\ txn # "aborted" /\ Continue(w, k + 1)
  BY <1>2 DEF ExecuteRow, Continue
<1>4. /\ Waiting' /\ job'[w] = k + 1 /\ job'[v] = job[v] /\ job' \in [Writers -> Nat]
  BY <1>3, ContinueWaits DEF TxnInv
<1>5. /\ staged'[v] = staged[v] /\ saved'[v] = saved[v]
      /\ staged' \in [Writers -> SUBSET Nat] /\ saved' \in [Writers -> SUBSET Nat]
      /\ staged'[w] \cup saved'[w] = staged[w] \cup saved[w] \cup {k}
      /\ saved'[w] = saved[w] \/ saved'[w] = saved[w] \cup {k}
      /\ txn = "none" => staged' = staged
  <2>1. staged \in [Writers -> SUBSET Nat] /\ saved \in [Writers -> SUBSET Nat]
    BY DEF TxnInv, SessionTypes
  <2>2. CASE txn = "open"
    <3>1. saved' = saved /\ staged' = [staged EXCEPT ![w] = @ \cup {k}]
      BY <2>2 DEF ExecuteRow
    <3>2. staged'[w] = staged[w] \cup {k} /\ staged'[v] = staged[v]
      BY <1>1, <2>1, <3>1
    <3>3. staged' \in [Writers -> SUBSET Nat]
      BY <1>1, <1>3, <2>1, <3>1
    <3> QED BY <2>1, <2>2, <3>1, <3>2, <3>3
  <2>3. CASE txn # "open"
    <3>1. staged' = staged /\ saved' = [saved EXCEPT ![w] = @ \cup {k}]
      BY <2>3 DEF ExecuteRow
    <3>2. saved'[w] = saved[w] \cup {k} /\ saved'[v] = saved[v]
      BY <1>1, <2>1, <3>1
    <3>3. saved' \in [Writers -> SUBSET Nat]
      BY <1>1, <1>3, <2>1, <3>1
    <3> QED BY <2>1, <3>1, <3>2, <3>3
  <2> QED BY <2>2, <2>3
<1>6. SessionTypes'
  <2>1. job'[w] <= Rollback(w) /\ job'[v] <= Rollback(v)
    BY <1>1, <1>2, <1>3, <1>4 DEF TxnInv, SessionTypes
  <2>2. /\ staged'[w] \subseteq Rows(w) /\ saved'[w] \subseteq Rows(w)
        /\ staged'[v] \subseteq Rows(v) /\ saved'[v] \subseteq Rows(v)
    BY <1>1, <1>3, <1>5 DEF TxnInv, SessionTypes
  <2> QED BY <1>1, <1>3, <1>4, <1>5, <2>1, <2>2 DEF TxnInv, SessionTypes
<1>7. /\ RowsSoFar(w)' /\ WrittenIsSaved(w)' /\ RollsBackAlone(w)' /\ job'[w] \notin {0, Begin}
  <2>1. RowsSoFar(w)'
    <3>1. ASSUME ~ spoiled[w] PROVE 2 .. k \subseteq staged'[w] \cup saved'[w]
      <4>1. 2 .. k - 1 \subseteq staged[w] \cup saved[w]
        <5>1. k \in 2 .. Commit(w)
          BY <1>2, <1>3
        <5> QED BY <1>1, <3>1, <5>1 DEF TxnInv, RowsSoFar
      <4>2. \A i \in 2 .. k : i \in 2 .. k - 1 \/ i = k
        BY <1>3
      <4> QED BY <1>5, <4>1, <4>2
    <3>2. job'[w] - 1 = k
      BY <1>3, <1>4
    <3> QED BY <1>3, <3>1, <3>2 DEF RowsSoFar
  <2>2. WrittenIsSaved(w)'
    <3>1. WrittenIsSaved(w)
      BY <1>1 DEF TxnInv
    <3>2. saved[w] = Rows(w) => saved'[w] = Rows(w)
      BY <1>3, <1>5
    <3> QED BY <1>3, <3>1, <3>2 DEF WrittenIsSaved
  <2>3. RollsBackAlone(w)' /\ job'[w] \notin {0, Begin}
    BY <1>2, <1>3, <1>4 DEF RollsBackAlone, Begin
  <2> QED BY <2>1, <2>2, <2>3
<1>8. /\ RowsSoFar(v)' /\ WrittenIsSaved(v)' /\ RollsBackAlone(v)'
      /\ job'[v] \in {0, Begin} => staged'[v] = {}
  <2>1. ~ (job[v] = Rollback(v) /\ ~ spoiled[w])
    BY <1>1 DEF TxnInv, RollsBackAlone
  <2> QED BY <1>1, <1>3, <1>4, <1>5, <2>1 DEF TxnInv, RowsSoFar, WrittenIsSaved, RollsBackAlone
<1>9. QED
  BY <1>1, <1>3, <1>4, <1>5, <1>6, <1>7, <1>8 DEF TxnInv

LEMMA TxnOfFailRow ==
    ASSUME TxnInv, queue # <<>>, NEW w, w = Head(queue), FailRow(w)
    PROVE  TxnInv'
<1> DEFINE v == Other(w)
<1>1. /\ w \in Writers /\ v \in Writers /\ v # w /\ Other(v) = w /\ Writing(w)
      /\ \A u \in Writers : u = w \/ u = v
      /\ queue # <<v, w>>
  BY AtHead, TwoWriters, Queues DEF TxnInv
<1>2. /\ Commit(w) \in Nat /\ Commit(w) >= 4 /\ Rollback(w) = Commit(w) + 1
      /\ Rollback(v) \in Nat /\ Rollback(w) \in Nat \ {0}
      /\ Commit(v) \in Nat
  <2>1. /\ Commit(w) \in Nat /\ Commit(w) >= 4 /\ Rollback(w) = Commit(w) + 1
        /\ Commit(v) \in Nat /\ Rollback(v) = Commit(v) + 1
    BY <1>1, Statements
  <2> QED BY <2>1
<1>3. /\ UNCHANGED <<staged, saved, result>> /\ Continue(w, Rollback(w))
      /\ txn' = IF txn = "none" THEN "none" ELSE "aborted"
  BY DEF FailRow, Continue
<1>4. /\ Waiting' /\ job'[w] = Rollback(w) /\ job'[v] = job[v] /\ job' \in [Writers -> Nat]
  BY <1>2, <1>3, ContinueWaits DEF TxnInv
<1>5. /\ spoiled' \in [Writers -> BOOLEAN] /\ spoiled'[w] = spoiled[w]
      /\ spoiled[v] => spoiled'[v]
      /\ Writing(v) => spoiled'[v]
  BY <1>1 DEF FailRow, TxnInv, SessionTypes
<1>6. SessionTypes'
  <2>1. job'[w] <= Rollback(w) /\ job'[v] <= Rollback(v)
    BY <1>1, <1>2, <1>4 DEF TxnInv, SessionTypes
  <2>2. \A u \in Writers : job'[u] <= Rollback(u)
    BY <1>1, <2>1
  <2> QED BY <1>3, <1>4, <1>5, <2>2 DEF TxnInv, SessionTypes
<1>7. /\ RowsSoFar(w)' /\ WrittenIsSaved(w)' /\ RollsBackAlone(w)' /\ job'[w] \notin {0, Begin}
  <2>1. RowsSoFar(w)' /\ job'[w] \notin {0, Begin}
    BY <1>2, <1>4 DEF RowsSoFar, Begin
  <2>2. WrittenIsSaved(w)'
    BY <1>1, <1>3, <1>5 DEF TxnInv, WrittenIsSaved
  <2>3. RollsBackAlone(w)'
    BY <1>1, <1>4, <1>5 DEF RollsBackAlone, Writing
  <2> QED BY <2>1, <2>2, <2>3
<1>8. /\ RowsSoFar(v)' /\ WrittenIsSaved(v)' /\ RollsBackAlone(v)'
      /\ job'[v] \in {0, Begin} => staged'[v] = {}
  <2>1. ~ (job[v] = Rollback(v) /\ ~ spoiled[w])
    BY <1>1 DEF TxnInv, RollsBackAlone
  <2>2. RowsSoFar(v)'
    BY <1>2, <1>4, <1>5 DEF RowsSoFar, Writing
  <2> QED BY <1>1, <1>3, <1>4, <1>5, <2>1, <2>2 DEF TxnInv, WrittenIsSaved, RollsBackAlone
<1>9. QED
  BY <1>1, <1>3, <1>4, <1>6, <1>7, <1>8 DEF TxnInv

(* COMMIT and ROLLBACK end the transaction of both.                        *)
LEMMA TxnOfEnd ==
    ASSUME TxnInv, queue # <<>>, NEW w, w = Head(queue), ExecuteCommit(w) \/ ExecuteRollback(w)
    PROVE  TxnInv'
<1> DEFINE v == Other(w)
<1>1. /\ w \in Writers /\ v \in Writers /\ v # w /\ Other(v) = w /\ Writing(w)
      /\ \A u \in Writers : u = w \/ u = v
  BY AtHead, TwoWriters DEF TxnInv
<1>2. /\ Commit(w) \in Nat /\ Commit(w) >= 4 /\ Rollback(w) = Commit(w) + 1
      /\ Commit(v) \in Nat /\ Rollback(v) = Commit(v) + 1
      /\ Rows(w) = 2 .. Commit(w) - 1 /\ Rows(v) = 2 .. Commit(v) - 1
  BY <1>1, Statements
<1>3. /\ txn' = "none" /\ staged' = Discarded /\ spoiled' = spoiled
      /\ \E how \in {"written", "failed"} : Finish(w, how)
  BY DEF ExecuteCommit, ExecuteRollback
<1>4. /\ Waiting' /\ job'[w] = 0 /\ job'[v] = job[v] /\ job' \in [Writers -> Nat]
      /\ result' \in [Writers -> {"none", "written", "failed"}] /\ result'[v] = result[v]
  BY <1>1, <1>3, FinishWaits DEF TxnInv, SessionTypes, Finish
<1>5. staged'[w] = {} /\ staged'[v] = {} /\ staged' \in [Writers -> SUBSET Nat]
  BY <1>1, <1>3 DEF Discarded
<1>6. /\ saved' \in [Writers -> SUBSET Nat]
      /\ \A u \in Writers : /\ saved[u] \subseteq saved'[u]
                            /\ saved'[u] \subseteq saved[u] \cup staged[u]
                            /\ saved'[u] \subseteq Rows(u)
                            /\ ExecuteCommit(w) /\ txn = "open" => saved'[u] = saved[u] \cup staged[u]
  BY <1>1 DEF ExecuteCommit, ExecuteRollback, TxnInv, SessionTypes, Rollback
<1>7. SessionTypes'
  <2>1. job'[w] <= Rollback(w) /\ job'[v] <= Rollback(v)
    BY <1>1, <1>2, <1>4 DEF TxnInv, SessionTypes
  <2>2. \A u \in Writers : job'[u] <= Rollback(u)
    BY <1>1, <2>1
  <2>3. \A u \in Writers : staged'[u] \subseteq Rows(u)
    BY <1>1, <1>5
  <2> QED BY <1>3, <1>4, <1>5, <1>6, <2>2, <2>3 DEF TxnInv, SessionTypes
<1>8. RowsSoFar(w)' /\ RollsBackAlone(w)' /\ RollsBackAlone(v)'
  BY <1>1, <1>2, <1>4 DEF RowsSoFar, RollsBackAlone, Writing
<1>9. WrittenIsSaved(w)'
  <2>1. CASE ExecuteRollback(w)
    <3>1. result'[w] = "failed"
      BY <1>1, <2>1 DEF ExecuteRollback, Finish, TxnInv, SessionTypes
    <3> QED BY <3>1 DEF WrittenIsSaved
  <2>2. CASE ExecuteCommit(w) /\ ~ spoiled[w]
    <3>1. job[w] = Commit(w) /\ Commit(w) \in 2 .. Commit(w)
      BY <1>2, <2>2 DEF ExecuteCommit
    <3>2. txn # "aborted" /\ Rows(w) \subseteq staged[w] \cup saved[w]
      BY <1>1, <1>2, <2>2, <3>1 DEF TxnInv, RowsSoFar
    <3>3. txn = "none" => staged[w] = {}
      BY <1>1 DEF TxnInv, Discarded
    <3>4. Rows(w) \subseteq saved'[w]
      BY <1>1, <1>6, <2>2, <3>2, <3>3 DEF TxnInv
    <3> QED BY <1>1, <1>6, <3>4 DEF WrittenIsSaved
  <2> QED BY <1>3, <2>1, <2>2 DEF WrittenIsSaved
<1>10. WrittenIsSaved(v)'
  <2>1. WrittenIsSaved(v)
    BY <1>1 DEF TxnInv
  <2>2. saved[v] = Rows(v) => saved'[v] = Rows(v)
    <3>1. saved[v] \subseteq saved'[v] /\ saved'[v] \subseteq Rows(v)
      BY <1>1, <1>6
    <3> QED BY <3>1
  <2> QED BY <1>3, <1>4, <2>1, <2>2 DEF WrittenIsSaved
<1>11. RowsSoFar(v)'
  <2> SUFFICES ASSUME job[v] \in 2 .. Commit(v), ~ spoiled[v]
               PROVE  2 .. job[v] - 1 \subseteq saved'[v]
    BY <1>3, <1>4 DEF RowsSoFar
  <2>1. txn # "aborted" /\ 2 .. job[v] - 1 \subseteq staged[v] \cup saved[v]
    BY <1>1 DEF TxnInv, RowsSoFar
  <2>2. CASE ExecuteCommit(w)
    <3>1. txn = "none" => staged[v] = {}
      BY <1>1 DEF TxnInv, Discarded
    <3> QED BY <1>1, <1>6, <2>1, <2>2, <3>1 DEF TxnInv
  <2>3. ~ ExecuteRollback(w)
    <3>1. Writing(v) /\ job[v] # Begin
      BY <1>2 DEF Writing, Begin
    <3>2. job[w] # Rollback(w)
      BY <1>1, <3>1 DEF TxnInv, RollsBackAlone
    <3> QED BY <3>2 DEF ExecuteRollback
  <2> QED BY <2>2, <2>3
<1>12. \A u \in Writers : staged'[u] = {}
  BY <1>1, <1>5
<1>13. QED
  BY <1>1, <1>3, <1>4, <1>7, <1>8, <1>9, <1>10, <1>11, <1>12 DEF TxnInv

LEMMA TxnOfStart ==
    ASSUME TxnInv, NEW w \in Writers, ~ Writing(w), StartWrite(w)
    PROVE  TxnInv'
<1> DEFINE v == Other(w)
<1>1. /\ v \in Writers /\ v # w /\ Other(v) = w
      /\ \A u \in Writers : u = w \/ u = v
  BY TwoWriters
<1>2. /\ Commit(w) \in Nat /\ Commit(w) >= 4 /\ Rollback(w) = Commit(w) + 1
      /\ Commit(v) \in Nat /\ Rollback(v) = Commit(v) + 1 /\ Commit(v) >= 4
  BY <1>1, Statements
<1>3. /\ Waiting' /\ job'[w] = Begin /\ job'[v] = job[v] /\ job' \in [Writers -> Nat]
      /\ queue' = IF Writing(v) THEN <<v, w>> ELSE <<w>>
  BY StartWaits DEF TxnInv
<1>4. /\ staged'[w] = {} /\ staged'[v] = staged[v] /\ staged' \in [Writers -> SUBSET Nat]
      /\ saved'[w] = {} /\ saved'[v] = saved[v] /\ saved' \in [Writers -> SUBSET Nat]
      /\ result'[w] = "none" /\ result'[v] = result[v]
      /\ result' \in [Writers -> {"none", "written", "failed"}]
      /\ ~ spoiled'[w] /\ spoiled'[v] = spoiled[v] /\ spoiled' \in [Writers -> BOOLEAN]
      /\ txn' = txn
  BY <1>1 DEF StartWrite, TxnInv, SessionTypes
<1>5. SessionTypes'
  <2>1. job'[w] <= Rollback(w) /\ job'[v] <= Rollback(v)
    BY <1>1, <1>2, <1>3 DEF TxnInv, SessionTypes, Begin
  <2>2. \A u \in Writers : job'[u] <= Rollback(u)
    BY <1>1, <2>1
  <2>3. \A u \in Writers : staged'[u] \subseteq Rows(u) /\ saved'[u] \subseteq Rows(u)
    BY <1>1, <1>4 DEF TxnInv, SessionTypes
  <2> QED BY <1>3, <1>4, <2>2, <2>3 DEF SessionTypes
<1>6. txn' = "none" => staged' = Discarded
  <2> SUFFICES ASSUME txn = "none" PROVE staged' = Discarded
    BY <1>4
  <2>1. staged[v] = {}
    BY <1>1 DEF TxnInv, Discarded
  <2>2. \A u \in Writers : staged'[u] = {}
    BY <1>1, <1>4, <2>1
  <2> QED BY <1>4, <2>2 DEF Discarded
<1>7. RowsSoFar(w)' /\ WrittenIsSaved(w)' /\ RollsBackAlone(w)'
  BY <1>2, <1>3, <1>4 DEF RowsSoFar, WrittenIsSaved, RollsBackAlone, Begin
<1>8. /\ RowsSoFar(v)' /\ WrittenIsSaved(v)'
      /\ job'[v] \in {0, Begin} => staged'[v] = {}
  BY <1>1, <1>3, <1>4 DEF TxnInv, RowsSoFar, WrittenIsSaved
<1>9. RollsBackAlone(v)'
  BY <1>1, <1>2, <1>3 DEF RollsBackAlone, Writing, Begin
<1>10. \A u \in Writers : /\ job'[u] \in {0, Begin} => staged'[u] = {}
                          /\ RowsSoFar(u)' /\ WrittenIsSaved(u)' /\ RollsBackAlone(u)'
  BY <1>1, <1>4, <1>7, <1>8, <1>9 DEF TxnInv, RowsSoFar, WrittenIsSaved
<1>11. QED
  BY <1>3, <1>4, <1>5, <1>6, <1>10 DEF TxnInv

LEMMA TxnUntouched ==
    ASSUME TxnInv, UNCHANGED <<sessionVars, writerVars>>
    PROVE  TxnInv'
<1>1. UNCHANGED <<queue, txn, staged, saved, job, result, spoiled>>
  BY DEF sessionVars, writerVars
<1>2. SessionTypes' /\ Waiting'
  BY <1>1 DEF TxnInv, SessionTypes, Waiting, Writing
<1>3. \A w \in Writers : RowsSoFar(w)' /\ WrittenIsSaved(w)' /\ RollsBackAlone(w)'
  BY <1>1 DEF TxnInv, RowsSoFar, WrittenIsSaved, RollsBackAlone, Writing
<1>4. QED
  BY <1>1, <1>2, <1>3 DEF TxnInv

-----------------------------------------------------------------------------
(* The loop, the socket and the timers.                                    *)

LEMMA Delays == \A n \in 0 .. MaxAttempt : Delay(n) \in 0 .. MaxBackoff
<1>1. /\ 2 ^ 0 = 1 /\ 2 ^ 1 = 2 /\ 2 ^ 2 = 4 /\ 2 ^ 3 = 8 /\ 2 ^ 4 = 16 /\ 2 ^ 5 = 32
  OBVIOUS
<1>2. /\ 2 ^ 0 \in Nat /\ 2 ^ 1 \in Nat /\ 2 ^ 2 \in Nat
      /\ 2 ^ 3 \in Nat /\ 2 ^ 4 \in Nat /\ 2 ^ 5 \in Nat
  BY <1>1
<1>3. ASSUME NEW n \in 0 .. MaxAttempt PROVE 2 ^ n \in Nat
  <2>1. n = 0 \/ n = 1 \/ n = 2 \/ n = 3 \/ n = 4 \/ n = 5
    BY DEF MaxAttempt
  <2> QED BY <1>2, <2>1, Zenon
<1>4. \A s \in Nat : (IF s < MaxBackoff THEN s ELSE MaxBackoff) \in 0 .. MaxBackoff
  BY SupervisionAssumption
<1>5. QED
  BY <1>3, <1>4 DEF Delay

LEMMA LeaveTypes ==
    ASSUME LoopTypes, Leave
    PROVE  /\ loop' \in {"ended", "backoff"} /\ (loop' = "ended" => stopping)
           /\ attempt' \in 0 .. MaxAttempt /\ retry' \in 0 .. MaxBackoff
<1>1. CASE stopping
  BY <1>1 DEF Leave, LoopTypes
<1>2. CASE ~ stopping
  <2>1. attempt \in 0 .. MaxAttempt /\ Delay(attempt) \in 0 .. MaxBackoff
    BY Delays DEF LoopTypes
  <2> QED BY <1>2, <2>1 DEF Leave, MaxAttempt
<1>3. QED
  BY <1>1, <1>2

LEMMA SupervisionOfExecute ==
    ASSUME SupervisionInv, Execute
    PROVE  SupervisionInv'
<1> DEFINE w == Head(queue)
<1>1. queue # <<>> /\ TxnInv /\ w \in Writers /\ Writing(w)
  BY AtHead DEF Execute, SupervisionInv, TxnInv
<1>2. TxnInv'
  BY <1>1, TxnOfBegin, TxnOfRow, TxnOfFailRow, TxnOfEnd DEF Execute
<1>3. UNCHANGED <<socket, dead, grace, since, late, state, age, tick, stopping>>
  BY DEF Execute, socketVars, healthVars, loopVars
<1>4. \/ UNCHANGED <<loop, attempt, retry>>
      \/ loop = "flushing" /\ Leave
  BY DEF Execute, loopVars
<1>5. window' \in BOOLEAN /\ chained' \in BOOLEAN
  BY DEF Execute, SupervisionInv, LoopTypes
<1>6. LoopTypes'
  <2>1. CASE UNCHANGED <<loop, attempt, retry>>
    BY <1>3, <1>5, <2>1 DEF SupervisionInv, LoopTypes, MaxAge
  <2>2. CASE loop = "flushing" /\ Leave
    <3>1. /\ loop' \in {"ended", "backoff"} /\ (loop' = "ended" => stopping)
          /\ attempt' \in 0 .. MaxAttempt /\ retry' \in 0 .. MaxBackoff
      BY <2>2, LeaveTypes DEF SupervisionInv
    <3> QED BY <1>3, <1>5, <2>2, <3>1 DEF SupervisionInv, LoopTypes, MaxAge
  <2> QED BY <1>4, <2>1, <2>2
<1>7. HealthWrites'
  <2>1. job'["health"] # 0 => job["health"] # 0
    <3>1. \A v \in Writers \ {w} : job'[v] = job[v]
      BY <1>1 DEF Execute, ExecuteBegin, ExecuteRow, FailRow, ExecuteCommit, ExecuteRollback,
            Continue, Finish, TxnInv, SessionTypes
    <3> QED BY <1>1, <3>1 DEF Writing, Writers
  <2> QED BY <1>3, <2>1 DEF SupervisionInv, HealthWrites, Writing
<1>8. HeardInv'
  BY <1>3 DEF SupervisionInv, HeardInv
<1>9. QED
  BY <1>2, <1>6, <1>7, <1>8 DEF SupervisionInv

(* Steps that start no write.                                              *)
LEMMA SupervisionOfLoop ==
    ASSUME SupervisionInv, Connect \/ Open \/ Wake \/ Shutdown \/ Dies \/ Drops \/ UNCHANGED vars
    PROVE  SupervisionInv'
<1>1. TxnInv' /\ job' = job
  <2>1. UNCHANGED <<sessionVars, writerVars>>
    BY DEF Connect, Open, Wake, Shutdown, Dies, Drops, NoWrite, vars
  <2> QED BY <2>1, TxnUntouched DEF SupervisionInv, writerVars
<1>2. tick' = tick /\ HealthWrites'
  BY <1>1 DEF Connect, Open, Wake, Shutdown, Dies, Drops, vars, healthVars,
         SupervisionInv, HealthWrites, Writing
<1>3. LoopTypes'
  <2> USE DEF SupervisionInv, LoopTypes, MaxAge
  <2>1. CASE Connect
    BY <2>1 DEF Connect, healthVars
  <2>2. CASE Open
    BY <2>2 DEF Open, MaxAttempt
  <2>3. CASE Wake
    BY <2>3 DEF Wake, socketVars, healthVars
  <2>4. CASE Shutdown
    BY <2>4, SupervisionAssumption DEF Shutdown, healthVars
  <2>5. CASE Dies
    BY <2>5 DEF Dies, loopVars, healthVars
  <2>6. CASE Drops
    BY <2>6, SupervisionAssumption DEF Drops, loopVars, healthVars
  <2>7. CASE UNCHANGED vars
    BY <2>7 DEF vars, loopVars, socketVars, healthVars
  <2> QED BY <2>1, <2>2, <2>3, <2>4, <2>5, <2>6, <2>7
<1>4. HeardInv'
  <2>1. CASE Open
    <3>1. since' = 0 /\ tick' = tick /\ tick \in 0 .. HealthPeriod
      BY <2>1 DEF Open, SupervisionInv, LoopTypes
    <3>2. since' <= HealthPeriod - tick'
      BY <3>1, SupervisionAssumption
    <3> QED BY <3>2 DEF HeardInv
  <2>2. CASE Connect \/ Wake \/ Shutdown \/ Dies \/ Drops \/ UNCHANGED vars
    <3>1. UNCHANGED <<state, age, tick, since>> /\ (stopping => stopping')
      BY <2>2 DEF Connect, Wake, Shutdown, Dies, Drops, vars, loopVars, healthVars, socketVars
    <3> QED BY <3>1 DEF SupervisionInv, HeardInv
  <2> QED BY <2>1, <2>2
<1>5. QED
  BY <1>1, <1>2, <1>3, <1>4 DEF SupervisionInv

(* Steps that may start one.                                               *)
LEMMA TxnOfWriter ==
    ASSUME TxnInv, NEW w \in Writers,
           \/ NoWrite
           \/ ~ Writing(w) /\ StartWrite(w)
    PROVE  TxnInv' /\ \A v \in Writers \ {w} : job'[v] = job[v]
<1>1. CASE NoWrite
  <2>1. UNCHANGED <<sessionVars, writerVars>> /\ job' = job
    BY <1>1 DEF NoWrite, writerVars
  <2> QED BY <2>1, TxnUntouched
<1>2. CASE ~ Writing(w) /\ StartWrite(w)
  <2>1. TxnInv'
    BY <1>2, TxnOfStart
  <2>2. \A v \in Writers \ {w} : job'[v] = job[v]
    BY <1>2 DEF StartWrite, TxnInv, SessionTypes
  <2> QED BY <2>1, <2>2
<1>3. QED
  BY <1>1, <1>2

LEMMA SupervisionOfDocuments ==
    ASSUME SupervisionInv, Document \/ Closed
    PROVE  SupervisionInv'
<1>1. "flush" \in Writers /\ "health" \in Writers \ {"flush"}
  BY DEF Writers
<1>2. NoWrite \/ (~ Writing("flush") /\ StartWrite("flush"))
  BY DEF Document, Closed
<1>3. TxnInv' /\ job'["health"] = job["health"]
  BY <1>1, <1>2, TxnOfWriter DEF SupervisionInv
<1>4. tick' = tick /\ HealthWrites'
  BY <1>3 DEF Document, Closed, SupervisionInv, HealthWrites, Writing
<1>5. LoopTypes'
  <2>1. CASE Document
    <3>1. age' \in {Never} \cup 0 .. MaxAge
      BY <2>1, SupervisionAssumption DEF Document, MaxAge
    <3>2. window' \in BOOLEAN /\ chained' \in BOOLEAN
      BY <2>1 DEF Document, SupervisionInv, LoopTypes
    <3> QED BY <2>1, <3>1, <3>2 DEF Document, loopVars, socketVars, SupervisionInv, LoopTypes
  <2>2. CASE Closed
    <3>1. loop = "awaiting" /\ socket' = "none"
      BY <2>2 DEF Closed, SupervisionInv, LoopTypes
    <3>2. /\ loop' \in {"flushing", "ended", "backoff"} /\ (loop' = "ended" => stopping)
          /\ attempt' \in 0 .. MaxAttempt /\ retry' \in 0 .. MaxBackoff
      <4>1. CASE loop' = "flushing" /\ UNCHANGED <<attempt, retry>>
        BY <4>1 DEF SupervisionInv, LoopTypes
      <4>2. CASE Leave
        BY <4>2, LeaveTypes DEF SupervisionInv
      <4> QED BY <2>2, <4>1, <4>2 DEF Closed
    <3>3. window' \in BOOLEAN
      BY <2>2 DEF Closed, SupervisionInv, LoopTypes
    <3> QED BY <2>2, <3>1, <3>2, <3>3 DEF Closed, SupervisionInv, LoopTypes, MaxAge
  <2> QED BY <2>1, <2>2
<1>6. HeardInv'
  <2>1. CASE Document
    <3>1. age' = 0 /\ tick' \in 0 .. HealthPeriod
      BY <1>4, <2>1 DEF Document, SupervisionInv, LoopTypes
    <3>2. age' <= StaleAfter + (HealthPeriod - tick')
      BY <3>1, SupervisionAssumption
    <3> QED BY <3>2 DEF HeardInv
  <2>2. CASE Closed
    BY <2>2 DEF Closed, HeardInv
  <2> QED BY <2>1, <2>2
<1>7. QED
  BY <1>3, <1>4, <1>5, <1>6 DEF SupervisionInv

LEMMA SupervisionOfTimer ==
    ASSUME SupervisionInv, HealthTimer
    PROVE  SupervisionInv'
<1>1. /\ tick = 0 /\ tick' = HealthPeriod /\ HealthPeriod \in Nat \ {0} /\ StaleAfter \in Nat
      /\ UNCHANGED <<loop, attempt, retry, stopping, dead, since, late, age, window, chained>>
      /\ IF Silent THEN state' = "STALE" ELSE state' = state
  BY SupervisionAssumption DEF HealthTimer, loopVars
<1>2. ~ Writing("health") /\ "health" \in Writers
  BY <1>1 DEF SupervisionInv, HealthWrites, Writers
<1>3. TxnInv' /\ HealthWrites'
  <2>1. NoWrite \/ StartWrite("health")
    BY DEF HealthTimer
  <2> QED BY <1>1, <1>2, <2>1, TxnOfWriter DEF SupervisionInv, HealthWrites
<1>4. LoopTypes'
  <2>1. \/ UNCHANGED <<socket, grace>>
        \/ socket # "none" /\ socket' = "closing" /\ grace' = 0
    BY DEF HealthTimer, Terminate
  <2>2. grace' \in 0 .. CloseTimeout
    BY <2>1, SupervisionAssumption DEF SupervisionInv, LoopTypes
  <2>3. tick' \in 0 .. HealthPeriod
    BY <1>1
  <2> QED BY <1>1, <2>1, <2>2, <2>3 DEF SupervisionInv, LoopTypes, MaxAge
<1>5. HeardInv'
  <2> SUFFICES ASSUME state' = "HEALTHY" PROVE age' = Never \/ age' <= StaleAfter + (HealthPeriod - tick')
    BY DEF HeardInv
  <2>1. age = Never \/ ~ (age > StaleAfter)
    BY <1>1 DEF Silent
  <2>2. age = Never \/ age \in Nat
    BY DEF SupervisionInv, LoopTypes
  <2> QED BY <1>1, <2>1, <2>2
<1>6. QED
  BY <1>3, <1>4, <1>5 DEF SupervisionInv

LEMMA SupervisionOfSecond ==
    ASSUME SupervisionInv, Second
    PROVE  SupervisionInv'
<1>1. /\ UNCHANGED <<loop, attempt, stopping, socket, dead, late, state, window, chained>>
      /\ age' = IF age = Never \/ age = MaxAge THEN age ELSE age + 1
      /\ since' = IF since <= HealthPeriod THEN since + 1 ELSE since
      /\ tick' = Down(tick) /\ retry' = Down(retry) /\ grace' = Down(grace)
      /\ queue = <<>> /\ (tick # 0 \/ stopping)
  BY DEF Second, Due
<1>2. TxnInv' /\ job' = job
  <2>1. UNCHANGED <<sessionVars, writerVars>>
    BY DEF Second, NoWrite
  <2> QED BY <2>1, TxnUntouched DEF SupervisionInv, writerVars
<1>3. HealthWrites'
  <2>1. ~ Writing("health")
    <3>1. "health" \in Writers
      BY DEF Writers
    <3> QED BY <1>1, <3>1, Queues, TwoWriters DEF SupervisionInv, TxnInv, Waiting
  <2> QED BY <1>2, <2>1 DEF HealthWrites, Writing
<1>4. /\ tick \in 0 .. HealthPeriod /\ age \in {Never} \cup 0 .. MaxAge /\ since \in Nat
      /\ retry \in 0 .. MaxBackoff /\ grace \in 0 .. CloseTimeout
      /\ HealthPeriod \in Nat /\ StaleAfter \in Nat /\ MaxBackoff \in Nat /\ CloseTimeout \in Nat
      /\ MaxAge = StaleAfter + HealthPeriod + 1 /\ Never = -1
  BY SupervisionAssumption DEF SupervisionInv, LoopTypes, MaxAge, Never
<1>5. LoopTypes'
  <2>1. tick' \in 0 .. HealthPeriod /\ retry' \in 0 .. MaxBackoff /\ grace' \in 0 .. CloseTimeout
    BY <1>1, <1>4 DEF Down
  <2>2. age' \in {Never} \cup 0 .. MaxAge /\ since' \in Nat
    BY <1>1, <1>4
  <2> QED BY <1>1, <2>1, <2>2 DEF SupervisionInv, LoopTypes
<1>6. HeardInv'
  <2> SUFFICES ASSUME state = "HEALTHY", ~ stopping
               PROVE  \/ age' = Never
                      \/ age' <= StaleAfter + (HealthPeriod - tick')
                      \/ since' <= HealthPeriod - tick'
    BY <1>1 DEF HeardInv
  <2>1. tick' = tick - 1 /\ tick >= 1
    BY <1>1, <1>4 DEF Down
  <2>2. \/ age = Never
        \/ age <= StaleAfter + (HealthPeriod - tick)
        \/ since <= HealthPeriod - tick
    BY DEF SupervisionInv, HeardInv
  <2> QED BY <1>1, <1>4, <2>1, <2>2
<1>7. QED
  BY <1>2, <1>3, <1>5, <1>6 DEF SupervisionInv

LEMMA SupervisionInit == Init => SupervisionInv
<1> SUFFICES ASSUME Init PROVE SupervisionInv
  OBVIOUS
<1>1. \A w \in Writers : job[w] = 0 /\ result[w] = "none" /\ staged[w] = {} /\ saved[w] = {}
  BY DEF Init, Discarded
<1>2. SessionTypes
  <2>1. job \in [Writers -> Nat] /\ \A w \in Writers : job[w] <= Rollback(w)
    BY <1>1, Statements DEF Init
  <2>2. staged \in [Writers -> SUBSET Nat] /\ saved \in [Writers -> SUBSET Nat]
    BY DEF Init, Discarded
  <2> QED BY <1>1, <2>1, <2>2 DEF Init, SessionTypes
<1>3. \A w \in Writers : RowsSoFar(w) /\ WrittenIsSaved(w) /\ RollsBackAlone(w)
  <2>1. \A w \in Writers : Rollback(w) # 0
    BY Statements
  <2> QED BY <1>1, <2>1, TwoWriters DEF RowsSoFar, WrittenIsSaved, RollsBackAlone
<1>4. TxnInv
  BY <1>1, <1>2, <1>3 DEF Init, TxnInv, Waiting, Writing
<1>5. LoopTypes
  <2>1. 0 \in 0 .. MaxAttempt /\ 0 \in 0 .. MaxBackoff /\ 0 \in 0 .. CloseTimeout
        /\ HealthPeriod \in 0 .. HealthPeriod /\ 0 \in Nat
    BY SupervisionAssumption DEF MaxAttempt
  <2>2. /\ attempt \in 0 .. MaxAttempt /\ retry \in 0 .. MaxBackoff
        /\ grace \in 0 .. CloseTimeout /\ tick \in 0 .. HealthPeriod /\ since \in Nat
    BY <2>1 DEF Init
  <2>3. /\ loop = "reading" /\ socket = "none" /\ state = "DISCONNECTED" /\ age = Never
        /\ dead = FALSE /\ stopping = FALSE /\ window = FALSE /\ chained = FALSE /\ late = FALSE
    BY DEF Init
  <2> QED BY <2>2, <2>3 DEF LoopTypes
<1>6. HealthWrites /\ HeardInv
  BY DEF Init, HealthWrites, HeardInv
<1>7. QED
  BY <1>4, <1>5, <1>6 DEF SupervisionInv

LEMMA SupervisionStep == SupervisionInv /\ [Next]_vars => SupervisionInv'
BY SupervisionOfExecute, SupervisionOfLoop, SupervisionOfDocuments, SupervisionOfTimer,
   SupervisionOfSecond DEF Next, Progress

LEMMA SupervisionAlways == Spec => []SupervisionInv
BY SupervisionInit, SupervisionStep, PTL DEF Spec

LEMMA QueueCounts ==
    ASSUME TxnInv
    PROVE  /\ Len(queue) = Cardinality({w \in Writers : Writing(w)})
           /\ \A w \in Writers : Writing(w) => \E i \in DOMAIN queue : queue[i] = w
<1> DEFINE W == {w \in Writers : Writing(w)}
<1>1. CASE queue = <<>> /\ \A w \in Writers : ~ Writing(w)
  <2>1. W = {} /\ Len(queue) = 0
    BY <1>1
  <2> QED BY <1>1, <2>1, FS_EmptySet
<1>2. CASE \E w \in Writers : queue = <<w>> /\ Writing(w) /\ ~ Writing(Other(w))
  <2>1. PICK w \in Writers : queue = <<w>> /\ Writing(w) /\ ~ Writing(Other(w))
    BY <1>2
  <2>2. W = {w}
    BY <2>1, TwoWriters
  <2>3. Len(queue) = 1 /\ 1 \in DOMAIN queue /\ queue[1] = w
    BY <2>1
  <2> QED BY <2>2, <2>3, FS_Singleton
<1>3. CASE \E w \in Writers : queue = <<w, Other(w)>> /\ Writing(w) /\ Writing(Other(w))
  <2>1. PICK w \in Writers : queue = <<w, Other(w)>> /\ Writing(w) /\ Writing(Other(w))
    BY <1>3
  <2>2. W = {w} \cup {Other(w)} /\ Other(w) \notin {w}
    BY <2>1, TwoWriters
  <2>3. /\ Len(queue) = 2 /\ 1 \in DOMAIN queue /\ 2 \in DOMAIN queue
        /\ queue[1] = w /\ queue[2] = Other(w)
    BY <2>1
  <2>4. IsFiniteSet({w}) /\ Cardinality({w}) = 1
    BY FS_Singleton
  <2>5. Cardinality(W) = 2
    BY <2>2, <2>4, FS_AddElement
  <2>6. \A v \in Writers : v = w \/ v = Other(w)
    BY TwoWriters
  <2> QED BY <2>3, <2>5, <2>6
<1>4. QED
  BY <1>1, <1>2, <1>3 DEF TxnInv, Waiting

(***************************************************************************)
(* A write that write() reports as done has all its rows in the database,  *)
(* unless a statement of the other writer failed while it ran: whatever    *)
(* BEGIN, COMMIT and ROLLBACK of the two do to the transaction they share. *)
(***************************************************************************)
THEOREM ReportedStaysDurable == Spec => []ReportedIsDurable
<1>1. SupervisionInv => ReportedIsDurable
  <2> SUFFICES ASSUME SupervisionInv PROVE ReportedIsDurable
    OBVIOUS
  <2>1. {dead, stopping, window, chained, late} \subseteq BOOLEAN
    BY Zenon DEF SupervisionInv, LoopTypes
  <2>2. \A w \in Writers : job[w] \in 0 .. Rollback(w)
    <3>1. \A w \in Writers : job[w] \in Nat /\ job[w] <= Rollback(w) /\ Rollback(w) \in Nat
      <4>1. \A w \in Writers : Commit(w) \in Nat /\ Rollback(w) = Commit(w) + 1
        BY Statements
      <4> QED BY <4>1 DEF SupervisionInv, TxnInv, SessionTypes
    <3> QED BY <3>1
  <2>3. TypeOK
    BY <2>1, <2>2, QueueCounts DEF SupervisionInv, TxnInv, LoopTypes, TypeOK
  <2> QED BY <2>3 DEF SupervisionInv, TxnInv, WrittenIsSaved, ReportedIsDurable
<1>2. QED
  BY <1>1, SupervisionAlways, PTL

(***************************************************************************)
(* HEALTHY is never shown for longer than a silence of StaleAfter and one  *)
(* period of the health timer, or one period after the socket opened.      *)
(***************************************************************************)
THEOREM HealthyMeansHeard == Spec => []HealthyIsHeard
<1>1. SupervisionInv => HealthyIsHeard
  <2> SUFFICES ASSUME SupervisionInv, state = "HEALTHY", ~ stopping, age # Never
               PROVE  age <= StaleAfter + HealthPeriod \/ since <= HealthPeriod
    BY DEF HealthyIsHeard
  <2>1. age <= StaleAfter + (HealthPeriod - tick) \/ since <= HealthPeriod - tick
    BY DEF SupervisionInv, HeardInv
  <2>2. /\ tick \in 0 .. HealthPeriod /\ age \in Nat /\ since \in Nat
        /\ HealthPeriod \in Nat /\ StaleAfter \in Nat
    BY SupervisionAssumption DEF SupervisionInv, LoopTypes
  <2> QED BY <2>1, <2>2
<1>2. QED
  BY <1>1, SupervisionAlways, PTL
=============================================================================
