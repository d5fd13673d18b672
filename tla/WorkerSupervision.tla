------------------------- MODULE WorkerSupervision -------------------------
(***************************************************************************)
(* How the ingestion worker keeps its connection (apps/worker/src/main.ts: *)
(* live(), the health timer, shutdown()), and the one PostgreSQL client    *)
(* its writers share (sink.ts: PostgresAggregateSink.write()).             *)
(*                                                                         *)
(* Time is explicit: Second advances the timers, and only when nothing     *)
(* that takes less than a second is due.  A connection may die without a   *)
(* word: from then on it delivers nothing, answers no handshake and no     *)
(* close frame.  What the documents are, and where they are lost, is in    *)
(* Ingestion; here a document only matters for being heard.                *)
(*                                                                         *)
(* The client sends one statement at a time, in the order they were asked  *)
(* for; each writer asks for its next when the last one has returned.      *)
(***************************************************************************)
EXTENDS Integers, Sequences, FiniteSets

CONSTANTS
    HealthPeriod,   \* seconds between two runs of the health timer
    StaleAfter,     \* the 120 seconds of silence that make a source STALE
    MaxBackoff,     \* the longest reconnect delay
    CloseTimeout,   \* how long ws waits for the answer to a close frame
    MaxFaults       \* bound: dead or dropped connections and failed statements

ASSUME SupervisionAssumption ==
    /\ {HealthPeriod, StaleAfter, MaxBackoff, CloseTimeout} \subseteq Nat \ {0}
    /\ MaxFaults \in Nat

Never == -1                      \* lastReceiveTimestampMs is null
MaxAttempt == 5                  \* further attempts have the same delay
MaxAge == StaleAfter + HealthPeriod + 1

VARIABLES
    loop,      \* where live() is: "reading", "awaiting", "flushing", "backoff", "ended"
    socket,    \* activeSocket: "none", "connecting", "open", "closing"
    dead,      \* the connection has died without a word
    grace,     \* seconds until a closing socket emits its close event
    attempt,   \* live()'s attempt
    retry,     \* seconds to the end of the backoff
    stopping,  \* shutdown() was called
    state,     \* health.state
    age,       \* seconds since lastReceiveTimestampMs, or Never
    tick,      \* seconds to the health timer
    window,    \* the aggregator has an open window
    job,       \* writer -> its next statement, 0 when it is not writing
    queue,     \* the client's queue: the writers whose statements wait
    txn,       \* the session: "none", "open", "aborted"
    staged,    \* writer -> rows of its write in the open transaction
    saved,     \* writer -> rows of its write that are durable
    result,    \* writer -> how its last write ended: "none", "written", "failed"
    chained,   \* the flush belongs to a message, which is added to the window after it
    since,     \* history: seconds since the socket opened
    spoiled,   \* history: writer -> a statement of the other one failed during its write
    late,      \* history: a socket was made after the shutdown
    faults     \* history: the number of faults

loopVars == <<loop, attempt, retry, stopping>>
socketVars == <<socket, dead, grace, since, late>>
healthVars == <<state, age, tick>>
sessionVars == <<queue, txn, staged, saved>>
writerVars == <<job, result, spoiled>>
vars == <<loopVars, socketVars, healthVars, sessionVars, writerVars, window, chained, faults>>

-----------------------------------------------------------------------------
(* PostgresAggregateSink.write(): BEGIN, the rows, COMMIT, or ROLLBACK.    *)

Writers == {"flush", "health"}
Other(w) == IF w = "flush" THEN "health" ELSE "flush"

\* A window's write has its observations, the watermark and the snapshot; a
\* health-only one has no observations.
Rows(w) == IF w = "flush" THEN 2 .. 4 ELSE 2 .. 3
Begin == 1
Commit(w) == Cardinality(Rows(w)) + 2
Rollback(w) == Commit(w) + 1
Writing(w) == job[w] # 0

\* w starts a write: its BEGIN joins the client's queue.
StartWrite(w) ==
    /\ job' = [job EXCEPT ![w] = Begin]
    /\ queue' = Append(queue, w)
    /\ staged' = [staged EXCEPT ![w] = {}]
    /\ saved' = [saved EXCEPT ![w] = {}]
    /\ result' = [result EXCEPT ![w] = "none"]
    /\ spoiled' = [spoiled EXCEPT ![w] = FALSE]
    /\ UNCHANGED txn

NoWrite == UNCHANGED <<sessionVars, writerVars>>

\* The next statement of w waits in the queue.
Continue(w, step) ==
    /\ job' = [job EXCEPT ![w] = step]
    /\ queue' = Append(Tail(queue), w)
    /\ UNCHANGED result

Finish(w, how) ==
    /\ job' = [job EXCEPT ![w] = 0]
    /\ queue' = Tail(queue)
    /\ result' = [result EXCEPT ![w] = how]

Discarded == [v \in Writers |-> {}]

\* A BEGIN inside a transaction is only a warning; in an aborted one it fails,
\* and write() throws without a ROLLBACK of its own.
ExecuteBegin(w) ==
    /\ job[w] = Begin
    /\ IF txn = "aborted"
       THEN Finish(w, "failed") /\ UNCHANGED txn
       ELSE Continue(w, Begin + 1) /\ txn' = "open"
    /\ UNCHANGED <<staged, saved, spoiled, faults>>

\* Outside a transaction a row is durable at once.
ExecuteRow(w) ==
    /\ job[w] \in Rows(w) /\ txn # "aborted"
    /\ Continue(w, job[w] + 1)
    /\ IF txn = "open"
       THEN staged' = [staged EXCEPT ![w] = @ \cup {job[w]}] /\ UNCHANGED saved
       ELSE saved' = [saved EXCEPT ![w] = @ \cup {job[w]}] /\ UNCHANGED staged
    /\ UNCHANGED <<txn, spoiled, faults>>

\* Mutant: a failed row is swallowed and the write commits what there is.
FailRowSwallowed(w) ==
    /\ job[w] \in Rows(w)
    /\ \/ txn = "aborted" /\ UNCHANGED faults
       \/ txn # "aborted" /\ faults < MaxFaults /\ faults' = faults + 1
    /\ txn' = IF txn = "none" THEN "none" ELSE "aborted"
    /\ spoiled' = [spoiled EXCEPT ![Other(w)] = @ \/ Writing(Other(w))]
    /\ Continue(w, Commit(w))
    /\ UNCHANGED <<staged, saved>>

\* A row is refused, by the database or because the transaction is aborted;
\* in a transaction, whoever began it, that aborts it.
FailRow(w) ==
    /\ job[w] \in Rows(w)
    /\ \/ txn = "aborted" /\ UNCHANGED faults
       \/ txn # "aborted" /\ faults < MaxFaults /\ faults' = faults + 1
    /\ txn' = IF txn = "none" THEN "none" ELSE "aborted"
    /\ spoiled' = [spoiled EXCEPT ![Other(w)] = @ \/ Writing(Other(w))]
    /\ Continue(w, Rollback(w))
    /\ UNCHANGED <<staged, saved>>

\* COMMIT ends the transaction of both writers; of an aborted one nothing
\* stays, and the statement succeeds all the same.
ExecuteCommit(w) ==
    /\ job[w] = Commit(w)
    /\ saved' = [v \in Writers |-> saved[v] \cup (IF txn = "open" THEN staged[v] ELSE {})]
    /\ staged' = Discarded
    /\ txn' = "none"
    /\ Finish(w, "written")
    /\ UNCHANGED <<spoiled, faults>>

ExecuteRollback(w) ==
    /\ job[w] = Rollback(w)
    /\ staged' = Discarded
    /\ txn' = "none"
    /\ Finish(w, "failed")
    /\ UNCHANGED <<saved, spoiled, faults>>

-----------------------------------------------------------------------------
(* live().                                                                 *)

Delay(n) == LET s == 2 ^ n IN IF s < MaxBackoff THEN s ELSE MaxBackoff

\* After the flush of the finally block.
Leave ==
    IF stopping
    THEN /\ loop' = "ended" /\ UNCHANGED <<attempt, retry>>
    ELSE /\ loop' = "backoff"
         /\ retry' = Delay(attempt)
         /\ attempt' = IF attempt < MaxAttempt THEN attempt + 1 ELSE attempt

\* A statement is answered.  When it ends a flush, the message that waited
\* for it is added to the new window, or the finally block goes on.  When live()
\* has ended, sink.close() has destroyed the client.
Execute ==
    /\ queue # <<>> /\ loop # "ended"
    /\ LET w == Head(queue)
       IN /\ \/ ExecuteBegin(w)
             \/ ExecuteRow(w)
             \/ FailRow(w)
             \/ ExecuteCommit(w)
             \/ ExecuteRollback(w)
          /\ IF w = "flush" /\ job'[w] = 0
             THEN /\ chained' = FALSE
                  /\ window' = (window \/ chained)
                  /\ IF loop = "flushing" THEN Leave /\ UNCHANGED stopping ELSE UNCHANGED loopVars
             ELSE UNCHANGED <<window, chained, loopVars>>
    /\ UNCHANGED <<socketVars, healthVars>>

\* readFile() returns and the socket is made, whatever happened meanwhile.
Connect ==
    /\ loop = "reading"
    /\ loop' = "awaiting"
    /\ socket' = "connecting" /\ dead' = FALSE
    /\ late' = (late \/ stopping)
    /\ NoWrite
    /\ UNCHANGED <<attempt, retry, stopping, grace, since, healthVars, window, chained, faults>>

Open ==
    /\ socket = "connecting" /\ ~dead
    /\ socket' = "open" /\ since' = 0
    /\ state' = "HEALTHY"
    /\ attempt' = 0
    /\ NoWrite
    /\ UNCHANGED <<loop, retry, stopping, dead, grace, late, age, tick, window, chained, faults>>

\* processMessage(): a document of the open minute, of none, or of the next
\* one, which first flushes.
Document ==
    /\ socket = "open" /\ ~dead /\ age # 0 /\ ~Writing("flush")
    /\ age' = 0
    /\ \/ UNCHANGED <<window, chained>> /\ NoWrite
       \/ window' = TRUE /\ UNCHANGED chained /\ NoWrite
       \/ window /\ window' = FALSE /\ chained' = TRUE /\ StartWrite("flush")
    /\ UNCHANGED <<loopVars, socketVars, state, tick, faults>>

\* The close event: the finally block and its flush.
Closed ==
    /\ socket = "closing" /\ grace = 0
    /\ socket' = "none" /\ dead' = FALSE
    /\ state' = "DISCONNECTED"
    /\ IF window /\ ~Writing("flush")
       THEN /\ StartWrite("flush") /\ window' = FALSE
            /\ loop' = "flushing" /\ UNCHANGED <<attempt, retry>>
       ELSE NoWrite /\ Leave /\ UNCHANGED window
    /\ UNCHANGED <<stopping, grace, since, late, age, tick, chained, faults>>

Wake ==
    /\ loop = "backoff" /\ retry = 0
    /\ loop' = IF stopping THEN "ended" ELSE "reading"
    /\ NoWrite
    /\ UNCHANGED <<attempt, retry, stopping, socketVars, healthVars, window, chained, faults>>

-----------------------------------------------------------------------------
(* The health timer and shutdown().                                        *)

\* terminate() destroys the socket, which emits its close event.
Terminate ==
    IF socket \in {"connecting", "open"}
    THEN socket' = "closing" /\ grace' = 0
    ELSE UNCHANGED <<socket, grace>>

Silent == age # Never /\ age > StaleAfter

\* Mutant: STALE is reported, and the socket left as it is.
HealthTimerReports ==
    /\ tick = 0 /\ ~stopping
    /\ tick' = HealthPeriod
    /\ IF Silent THEN state' = "STALE" ELSE UNCHANGED state
    /\ IF state' = "STALE" /\ state # "STALE" THEN StartWrite("health") ELSE NoWrite
    /\ UNCHANGED <<loopVars, socketVars, age, window, chained, faults>>

\* Mutant: the timer compares with twice the threshold.
HealthTimerLate ==
    /\ tick = 0 /\ ~stopping
    /\ tick' = HealthPeriod
    /\ IF age > 2 * StaleAfter THEN state' = "STALE" ELSE UNCHANGED state
    /\ IF state' = "STALE" /\ state # "STALE"
       THEN StartWrite("health") /\ Terminate
       ELSE NoWrite /\ UNCHANGED <<socket, grace>>
    /\ UNCHANGED <<loopVars, dead, since, late, age, window, chained, faults>>

\* The edge to STALE writes a health-only snapshot and terminates the socket.
HealthTimer ==
    /\ tick = 0 /\ ~stopping
    /\ tick' = HealthPeriod
    /\ IF Silent THEN state' = "STALE" ELSE UNCHANGED state
    /\ IF state' = "STALE" /\ state # "STALE"
       THEN StartWrite("health") /\ Terminate
       ELSE NoWrite /\ UNCHANGED <<socket, grace>>
    /\ UNCHANGED <<loopVars, dead, since, late, age, window, chained, faults>>

\* Mutant: shutdown() leaves the socket to live().
ShutdownLeavesSocket ==
    /\ ~stopping /\ loop # "ended"
    /\ stopping' = TRUE
    /\ NoWrite
    /\ UNCHANGED <<loop, attempt, retry, socketVars, healthVars, window, chained, faults>>

\* The timers are cleared; a socket, if there is one, is asked to close.
Shutdown ==
    /\ ~stopping /\ loop # "ended"
    /\ stopping' = TRUE
    /\ IF socket \in {"connecting", "open"}
       THEN socket' = "closing" /\ grace' = (IF dead /\ socket = "open" THEN CloseTimeout ELSE 0)
       ELSE UNCHANGED <<socket, grace>>
    /\ NoWrite
    /\ UNCHANGED <<loop, attempt, retry, dead, since, late, healthVars, window, chained, faults>>

-----------------------------------------------------------------------------
(* The network and the clock.                                              *)

Dies ==
    /\ socket \in {"connecting", "open"} /\ ~dead /\ faults < MaxFaults
    /\ dead' = TRUE /\ faults' = faults + 1
    /\ NoWrite
    /\ UNCHANGED <<loopVars, socket, grace, since, late, healthVars, window, chained>>

\* An error or a close that reaches the worker.
Drops ==
    /\ socket \in {"connecting", "open"} /\ faults < MaxFaults
    /\ socket' = "closing" /\ grace' = 0 /\ faults' = faults + 1
    /\ NoWrite
    /\ UNCHANGED <<loopVars, dead, since, late, healthVars, window, chained>>

Due ==
    \/ loop = "reading"
    \/ loop = "backoff" /\ retry = 0
    \/ socket = "connecting" /\ ~dead
    \/ socket = "open" /\ ~dead /\ age # 0
    \/ socket = "closing" /\ grace = 0
    \/ queue # <<>>
    \/ tick = 0 /\ ~stopping

Down(n) == IF n > 0 THEN n - 1 ELSE n

Second ==
    /\ ~Due /\ loop # "ended"
    /\ age' = IF age = Never \/ age = MaxAge THEN age ELSE age + 1
    /\ since' = IF since <= HealthPeriod THEN since + 1 ELSE since
    /\ tick' = Down(tick) /\ retry' = Down(retry) /\ grace' = Down(grace)
    /\ NoWrite
    /\ UNCHANGED <<loop, attempt, stopping, socket, dead, late, state, window, chained, faults>>

Init ==
    /\ loop = "reading" /\ attempt = 0 /\ retry = 0 /\ stopping = FALSE
    /\ socket = "none" /\ dead = FALSE /\ grace = 0 /\ since = 0 /\ late = FALSE
    /\ state = "DISCONNECTED" /\ age = Never /\ tick = HealthPeriod
    /\ window = FALSE /\ chained = FALSE
    /\ job = [w \in Writers |-> 0] /\ result = [w \in Writers |-> "none"]
    /\ queue = <<>> /\ txn = "none" /\ staged = Discarded /\ saved = Discarded
    /\ spoiled = [w \in Writers |-> FALSE]
    /\ faults = 0

Progress ==
    Execute \/ Connect \/ Open \/ Document \/ Closed \/ Wake \/ HealthTimer \/ Second

Next == Progress \/ Shutdown \/ Dies \/ Drops

\* Node runs what is due, the database answers, and the clock goes on.
Fairness == WF_vars(Progress)

Spec == Init /\ [][Next]_vars /\ Fairness

-----------------------------------------------------------------------------
(* Properties.                                                             *)

\* The variables of the loop, the socket, the timers and the session have
\* their types, and exactly the writers that are writing wait in the queue.
TypeOK ==
    /\ loop \in {"reading", "awaiting", "flushing", "backoff", "ended"}
    /\ socket \in {"none", "connecting", "open", "closing"}
    /\ loop = "awaiting" <=> socket # "none"
    /\ {dead, stopping, window, chained, late} \subseteq BOOLEAN
    /\ attempt \in 0 .. MaxAttempt /\ retry \in 0 .. MaxBackoff /\ grace \in 0 .. CloseTimeout
    /\ state \in {"HEALTHY", "STALE", "DISCONNECTED"}
    /\ age \in {Never} \cup 0 .. MaxAge /\ tick \in 0 .. HealthPeriod
    /\ txn \in {"none", "open", "aborted"}
    /\ Len(queue) = Cardinality({w \in Writers : Writing(w)})
    /\ \A w \in Writers :
         /\ job[w] \in 0 .. Rollback(w)
         /\ Writing(w) => \E i \in DOMAIN queue : queue[i] = w

\* write(): a write that reports success has all its rows in the database,
\* although another write may commit or roll back the transaction they share;
\* only a failed statement of that other write can take rows away unnoticed.
\* The variables keep their types, and writers wait in the queue exactly once.
ReportedIsDurable ==
    /\ TypeOK
    /\ \A w \in Writers : result[w] = "written" /\ ~spoiled[w] => saved[w] = Rows(w)

\* write(): a flush that failed leaves none of its rows in the database.
NoHalfWindow == result["flush"] = "failed" => saved["flush"] = {}

\* The health timer: HEALTHY is never shown for longer than a silence of
\* StaleAfter and a period, or a period after the socket opened, if a document
\* has ever been received.
HealthyIsHeard ==
    state = "HEALTHY" /\ ~stopping =>
        age = Never \/ age <= StaleAfter + HealthPeriod \/ since <= HealthPeriod

\* The two connections the health timer does not watch: one that died before
\* the first document ever, and a handshake that hangs while the state is
\* already STALE, which is not an edge.
Unwatched == dead /\ (age = Never \/ (state = "STALE" /\ socket = "connecting"))

\* live() and the health timer: whatever dies or drops, the worker ends up
\* connected and HEALTHY again, unless the connection is an unwatched one.
Recovers == <>[](stopping \/ (state = "HEALTHY" /\ ~dead) \/ Unwatched)

\* shutdown(): live() ends, unless the shutdown came while it was reading the
\* checkpoint: nothing closes the socket it opens then.
ShutdownExits == stopping ~> (loop = "ended" \/ late)
=============================================================================
