----------------------------- MODULE Ingestion -----------------------------
(***************************************************************************)
(* The ingestion worker (apps/worker/src: main.ts, aggregator.ts, sink.ts, *)
(* the deduplicator of parser.ts).                                         *)
(*                                                                         *)
(* One Node process runs several asynchronous tasks that interleave at     *)
(* every await: the reconnect loop of live(), which flushes in its finally *)
(* block, and one promise chain per socket, which outlives its socket.     *)
(* They share one MinuteAggregator, one deduplicator, the sinks and the    *)
(* checkpoint file.  An action is what runs between two awaits.            *)
(*                                                                         *)
(* Jetstream sends documents in cursor order and a document's minute comes *)
(* from its cursor (eventAtMs is time_us / 1000).  A document here is its  *)
(* cursor; all are eligible.  A crash loses what is in memory.             *)
(***************************************************************************)
EXTENDS Integers, Sequences, FiniteSets, FiniteSetsExt, SequencesExt

CONSTANTS
    MinuteOf,      \* sequence: the minute of each document, by cursor
    Rewind,        \* how far a connection rewinds the checkpoint
    MaxSockets,    \* bound: sockets ever opened
    MaxCrashes,    \* bound: crashes
    MaxFailures    \* bound: batches and tape writes that meet a failure

ASSUME StreamAssumption ==
    /\ MinuteOf \in Seq(Nat)
    /\ \A c, e \in DOMAIN MinuteOf : c <= e => MinuteOf[c] <= MinuteOf[e]
    /\ Rewind \in Nat /\ MaxSockets \in Nat /\ MaxCrashes \in Nat /\ MaxFailures \in Nat

Documents == DOMAIN MinuteOf
Minutes == {MinuteOf[c] : c \in Documents}
Sockets == 1 .. MaxSockets
Loop == 0
Tasks == Sockets \cup {Loop}
Unreadable == -1       \* the checkpoint file is missing or torn

(***************************************************************************)
(* What a task holds across an await: the document of processMessage(),    *)
(* the batch of flush(), and whether PostgreSQL refused that batch.        *)
(***************************************************************************)
Stages == {"postgres", "replay", "truncate", "content"}
Hand == [at : {"idle", "recording"} \cup Stages, doc : Documents \cup {0},
         batch : Seq(Documents), refused : 0 .. 1]
Free == [at |-> "idle", doc |-> 0, batch |-> <<>>, refused |-> 0]

VARIABLES
    loop,        \* where live() is: "waiting", "connected", "flushing", "ended"
    current,     \* the socket live() awaits
    stopping,    \* shutdown() was called
    receiving,   \* socket -> whether messages may still arrive on it
    rejected,    \* socket -> whether its chain has rejected live()'s promise
    next,        \* socket -> the next document Jetstream sends on it
    chain,       \* socket -> received messages its promise chain has not reached
    hand,        \* task -> what it holds across an await
    seen,        \* EventDeduplicator.ids
    window,      \* MinuteAggregator: the documents of the open window, as added
    database,    \* minute -> the documents its rows count
    replay,      \* the batches of the replay file
    checkpoint,  \* the cursor in the checkpoint file
    delivered,   \* history: documents that have reached the worker
    forfeited,   \* history: documents the code gives up (see Forfeit)
    born,        \* history: Len(replay) when this process started
    crashes, failures   \* counters for the bounds

socketVars == <<receiving, rejected, next, chain, delivered>>
loopVars == <<loop, current, stopping>>
storeVars == <<database, replay, checkpoint>>
boundVars == <<born, crashes, failures>>
vars == <<loopVars, socketVars, hand, seen, window, storeVars, forfeited, boundVars>>

Cursor(batch) == Max({0} \cup Range(batch))
Minute(batch) == MinuteOf[batch[1]]

TypeOK ==
    /\ loop \in {"waiting", "connected", "flushing", "ended"}
    /\ current \in Sockets \cup {0} /\ stopping \in BOOLEAN
    /\ receiving \in [Sockets -> BOOLEAN] /\ rejected \in [Sockets -> BOOLEAN]
    /\ next \in [Sockets -> Nat] /\ chain \in [Sockets -> Seq(Documents)]
    /\ hand \in [Tasks -> Hand]
    /\ seen \subseteq Documents /\ delivered \subseteq Documents /\ forfeited \subseteq Documents
    /\ window \in Seq(Documents)
    /\ database \in [Minutes -> Seq(Documents)]
    /\ replay \in Seq(Seq(Documents))
    /\ checkpoint \in Documents \cup {0, Unreadable}
    /\ born \in 0 .. Len(replay) /\ crashes \in Nat /\ failures \in Nat

Init ==
    /\ loop = "waiting" /\ current = 0 /\ stopping = FALSE
    /\ receiving = [s \in Sockets |-> FALSE]
    /\ rejected = [s \in Sockets |-> FALSE]
    /\ next = [s \in Sockets |-> 0]
    /\ chain = [s \in Sockets |-> <<>>]
    /\ hand = [t \in Tasks |-> Free]
    /\ seen = {} /\ window = <<>>
    /\ database = [m \in Minutes |-> <<>>] /\ replay = <<>>
    /\ checkpoint = 0
    /\ delivered = {} /\ forfeited = {} /\ born = 0 /\ crashes = 0 /\ failures = 0

-----------------------------------------------------------------------------
(* What is in memory, and what is given up.                                *)

HeldBy(tasks) == (UNION {{hand[t].doc} \cup Range(hand[t].batch) : t \in tasks}) \ {0}
InMemory == Range(window) \cup HeldBy(Tasks) \cup UNION {Range(chain[s]) : s \in Sockets}

(***************************************************************************)
(* Documents the code gives up: an error after the deduplicator has marked *)
(* a document, a checkpoint that moves past documents still only in the    *)
(* memory of the process, rows that replace the only copy of earlier ones, *)
(* or a connection made while there is no checkpoint to read.              *)
(***************************************************************************)
Forfeit(docs) == forfeited' = forfeited \cup docs

-----------------------------------------------------------------------------
(* Sockets.                                                                *)

(***************************************************************************)
(* live() opens a socket.  With a readable checkpoint Jetstream resumes a  *)
(* little before it; without one it starts at the live head of the stream, *)
(* which is past everything it has sent so far: what the process does not  *)
(* hold of the stream before it will not come again.                       *)
(***************************************************************************)
ResumeAt(cursor) == IF cursor > Rewind THEN cursor - Rewind ELSE 1
Resumes == IF checkpoint = Unreadable
           THEN {c \in 1 .. Len(MinuteOf) + 1 : \A d \in delivered : d < c}
           ELSE {ResumeAt(checkpoint)}

Connect ==
    /\ loop = "waiting" /\ ~stopping /\ current < MaxSockets
    /\ loop' = "connected"
    /\ current' = current + 1
    /\ receiving' = [receiving EXCEPT ![current + 1] = TRUE]
    /\ \E c \in Resumes :
         /\ next' = [next EXCEPT ![current + 1] = c]
         /\ Forfeit(IF checkpoint = Unreadable THEN (1 .. c - 1) \ InMemory ELSE {})
    /\ UNCHANGED <<stopping, rejected, chain, delivered, hand, seen, window, storeVars, boundVars>>

(* The "message" handler: the message joins the promise chain of its socket. *)
Receive(s) ==
    /\ receiving[s] /\ next[s] \in Documents
    /\ chain' = [chain EXCEPT ![s] = Append(@, next[s])]
    /\ delivered' = delivered \cup {next[s]}
    /\ next' = [next EXCEPT ![s] = @ + 1]
    /\ UNCHANGED <<loopVars, receiving, rejected, hand, seen, window, storeVars,
                   forfeited, boundVars>>

(* The socket closes, for whatever reason; its chain goes on.              *)
SocketCloses(s) ==
    /\ receiving[s]
    /\ receiving' = [receiving EXCEPT ![s] = FALSE]
    /\ UNCHANGED <<loopVars, rejected, next, chain, delivered, hand, seen, window, storeVars,
                   forfeited, boundVars>>

-----------------------------------------------------------------------------
(* processMessage() and flush().                                           *)

(* flush(), up to its first await: the open window becomes a batch.        *)
Flushing(doc) == [at |-> "postgres", doc |-> doc, batch |-> window, refused |-> 0]

(* processMessage(), up to its first await: the tape is to be written.     *)
Recording(doc) == [at |-> "recording", doc |-> doc, batch |-> <<>>, refused |-> 0]

(* Mutant: the deduplicator looks a document up and never marks it.        *)
ParseUnmarked(s) ==
    /\ hand[s].at = "idle" /\ chain[s] # <<>>
    /\ chain' = [chain EXCEPT ![s] = Tail(@)]
    /\ LET doc == Head(chain[s])
       IN  hand' = IF doc \in seen THEN hand
                   ELSE [hand EXCEPT ![s] = Recording(doc)]
    /\ UNCHANGED <<loopVars, receiving, rejected, next, delivered, seen, window, storeVars,
                   forfeited, boundVars>>

(***************************************************************************)
(* The next message of a chain is parsed.  A document the deduplicator     *)
(* knows is dropped; a new one is marked, and its behavior events go to    *)
(* the tape before anything else happens to it.                            *)
(***************************************************************************)
Parse(s) ==
    /\ hand[s].at = "idle" /\ chain[s] # <<>>
    /\ chain' = [chain EXCEPT ![s] = Tail(@)]
    /\ LET doc == Head(chain[s])
       IN  /\ seen' = seen \cup {doc}
           /\ hand' = IF doc \in seen THEN hand
                      ELSE [hand EXCEPT ![s] = Recording(doc)]
    /\ UNCHANGED <<loopVars, receiving, rejected, next, delivered, window, storeVars,
                   forfeited, boundVars>>

(* Mutant: the minute of a document is not compared with the window's.      *)
FitsAnywhere(doc) == doc \in Documents

(* The open window takes doc: it is empty or of the same minute.           *)
Fits(doc) == window = <<>> \/ Minute(window) = MinuteOf[doc]

(* The tape is written.  The document joins the window, or closes it first. *)
Recorded(s) ==
    /\ hand[s].at = "recording"
    /\ IF Fits(hand[s].doc)
       THEN /\ window' = Append(window, hand[s].doc)
            /\ hand' = [hand EXCEPT ![s] = Free]
       ELSE /\ window' = <<>>
            /\ hand' = [hand EXCEPT ![s] = Flushing(hand[s].doc)]
    /\ UNCHANGED <<loopVars, socketVars, seen, storeVars, forfeited, boundVars>>

Overtaken(t) ==
    {d \in InMemory \ Range(hand[t].batch) : d <= Cursor(hand[t].batch)}

(* A rejected chain entry ends its document; live() sees a rejection.      *)
Throw(t) ==
    /\ hand' = [hand EXCEPT ![t] = Free]
    /\ rejected' = [rejected EXCEPT ![t] = TRUE]
    /\ UNCHANGED <<receiving, next, chain, delivered>>

RecordingFails(s) ==
    /\ hand[s].at = "recording" /\ failures < MaxFailures
    /\ failures' = failures + 1
    /\ Throw(s)
    /\ Forfeit({hand[s].doc})
    /\ UNCHANGED <<loopVars, seen, window, storeVars, born, crashes>>

(***************************************************************************)
(* CompositeSink.write(): every sink is tried; PostgreSQL replaces the     *)
(* rows of the window, the replay file gets one more line.  Once shutdown  *)
(* has ended the client every PostgreSQL write fails.                      *)
(***************************************************************************)
Replayed == UNION {Range(replay[i]) : i \in DOMAIN replay}
StorePostgres(t) ==
    /\ hand[t].at = "postgres"
    /\ \/ /\ loop # "ended"
          /\ database' = [database EXCEPT ![Minute(hand[t].batch)] = hand[t].batch]
          /\ hand' = [hand EXCEPT ![t].at = "replay"]
          /\ Forfeit(Range(database[Minute(hand[t].batch)])
                         \ (Replayed \cup Range(hand[t].batch)))
          /\ UNCHANGED failures
       \/ /\ loop = "ended" \/ failures < MaxFailures
          /\ failures' = IF loop = "ended" THEN failures ELSE failures + 1
          /\ hand' = [hand EXCEPT ![t].at = "replay", ![t].refused = 1]
          /\ UNCHANGED <<database, forfeited>>
    /\ UNCHANGED <<loopVars, socketVars, seen, window, replay, checkpoint, born, crashes>>

StoreReplay(t) ==
    /\ hand[t].at = "replay"
    /\ replay' = Append(replay, hand[t].batch)
    /\ hand' = [hand EXCEPT ![t].at = "truncate"]
    /\ UNCHANGED <<loopVars, socketVars, seen, window, database, checkpoint, forfeited, boundVars>>

(* One sink has the batch: the flush goes on to the checkpoint.            *)
ReplayFails(t) ==
    /\ hand[t].at = "replay" /\ failures < MaxFailures /\ hand[t].refused = 0
    /\ failures' = failures + 1
    /\ hand' = [hand EXCEPT ![t].at = "truncate", ![t].refused = 1]
    /\ UNCHANGED <<loopVars, socketVars, seen, window, storeVars, forfeited, born, crashes>>

(* Mutant: write() never throws, whatever its sinks did.                    *)
AllSinksFailSilently(s) ==
    /\ s \in Sockets /\ hand[s].at = "replay" /\ hand[s].refused = 1
    /\ hand' = [hand EXCEPT ![s].at = "truncate"]
    /\ UNCHANGED <<loopVars, socketVars, seen, window, storeVars, forfeited, boundVars>>

(* Every sink refused the batch: it is gone, and so is the document at hand. *)
AllSinksFail(s) ==
    /\ s \in Sockets /\ hand[s].at = "replay" /\ hand[s].refused = 1
    /\ Throw(s)
    /\ Forfeit(HeldBy({s}))
    /\ UNCHANGED <<loopVars, seen, window, storeVars, boundVars>>

(* writeFile() truncates the checkpoint, then writes it.                   *)
TruncateCheckpoint(t) ==
    /\ hand[t].at = "truncate"
    /\ checkpoint' = Unreadable
    /\ hand' = [hand EXCEPT ![t].at = "content"]
    /\ UNCHANGED <<loopVars, socketVars, seen, window, database, replay, forfeited, boundVars>>

(***************************************************************************)
(* The checkpoint is written and flush() returns.  In a chain, add() then  *)
(* runs; it throws when another task has meanwhile opened a window of a    *)
(* different minute.  In live(), the loop goes on or ends.                 *)
(***************************************************************************)
CheckpointAndAdd(s) ==
    /\ s \in Sockets /\ hand[s].at = "content"
    /\ checkpoint' = Cursor(hand[s].batch)
    /\ IF Fits(hand[s].doc)
       THEN /\ window' = Append(window, hand[s].doc)
            /\ hand' = [hand EXCEPT ![s] = Free]
            /\ Forfeit(Overtaken(s))
            /\ UNCHANGED socketVars
       ELSE /\ Throw(s)
            /\ Forfeit(Overtaken(s) \cup {hand[s].doc})
            /\ UNCHANGED window
    /\ UNCHANGED <<loopVars, seen, database, replay, boundVars>>

CheckpointAndLoop ==
    /\ hand[Loop].at = "content"
    /\ checkpoint' = Cursor(hand[Loop].batch)
    /\ hand' = [hand EXCEPT ![Loop] = Free]
    /\ loop' = IF stopping THEN "ended" ELSE "waiting"
    /\ Forfeit(Overtaken(Loop))
    /\ UNCHANGED <<current, stopping, socketVars, seen, window, database, replay, boundVars>>

-----------------------------------------------------------------------------
(* live(), shutdown() and crashes.                                         *)

(* The awaited promise settles; finally flushes the open window, if any.   *)
Leave ==
    /\ loop = "connected"
    /\ ~receiving[current] \/ rejected[current]
    /\ IF window = <<>>
       THEN /\ loop' = IF stopping THEN "ended" ELSE "waiting"
            /\ UNCHANGED <<hand, window>>
       ELSE /\ loop' = "flushing"
            /\ hand' = [hand EXCEPT ![Loop] = Flushing(0)]
            /\ window' = <<>>
    /\ UNCHANGED <<current, stopping, socketVars, seen, storeVars, forfeited, boundVars>>

(* A signal: shutdown() stops the loop and closes the active socket.       *)
Shutdown ==
    /\ ~stopping /\ stopping' = TRUE
    /\ loop' = IF loop = "waiting" THEN "ended" ELSE loop
    /\ UNCHANGED <<current, socketVars, hand, seen, window, storeVars, forfeited, boundVars>>

(***************************************************************************)
(* The process dies and starts again: by a kill, by the error event of the *)
(* database client, or because the flush of the loop threw.                *)
(***************************************************************************)
Die ==
    /\ loop' = "waiting" /\ stopping' = FALSE
    /\ receiving' = [s \in Sockets |-> FALSE]
    /\ rejected' = [s \in Sockets |-> FALSE]
    /\ chain' = [s \in Sockets |-> <<>>]
    /\ hand' = [t \in Tasks |-> Free]
    /\ seen' = {} /\ window' = <<>>
    /\ born' = Len(replay)
    /\ UNCHANGED <<current, next, delivered, storeVars, forfeited>>

Crash ==
    /\ crashes < MaxCrashes /\ crashes' = crashes + 1
    /\ Die
    /\ UNCHANGED failures

AllSinksFailInLoop ==
    /\ hand[Loop].at = "replay" /\ hand[Loop].refused = 1
    /\ Die
    /\ UNCHANGED <<crashes, failures>>

Next ==
    \/ Connect
    \/ \E s \in Sockets : \/ Receive(s) \/ SocketCloses(s)
                          \/ Parse(s) \/ Recorded(s) \/ RecordingFails(s)
                          \/ AllSinksFail(s) \/ CheckpointAndAdd(s)
    \/ \E t \in Tasks : StorePostgres(t) \/ StoreReplay(t) \/ ReplayFails(t) \/ TruncateCheckpoint(t)
    \/ CheckpointAndLoop \/ Leave \/ Shutdown
    \/ Crash \/ AllSinksFailInLoop

Spec == Init /\ [][Next]_vars

-----------------------------------------------------------------------------
(* Properties.                                                             *)

(***************************************************************************)
(* A batch holds documents of one minute, whichever tasks added to the     *)
(* window while others were flushing it: rows and replay lines never mix   *)
(* minutes, and the variables keep their types.                            *)
(***************************************************************************)
OneMinute(batch) == \A i, j \in DOMAIN batch : MinuteOf[batch[i]] = MinuteOf[batch[j]]
OneMinutePerBatch ==
    /\ TypeOK
    /\ OneMinute(window)
    /\ \A t \in Tasks : OneMinute(hand[t].batch)
    /\ \A i \in DOMAIN replay : OneMinute(replay[i])
    /\ \A m \in Minutes : \A i \in DOMAIN database[m] : MinuteOf[database[m][i]] = m

(***************************************************************************)
(* However often Jetstream sends a document on however many sockets, one   *)
(* process counts it at most once: in the open window, the batches its     *)
(* tasks are still to store and the batches it has written, no document    *)
(* has two places.                                                         *)
(***************************************************************************)
Pending == {t \in Tasks : hand[t].at \in {"postgres", "replay"}}
Own == born + 1 .. Len(replay)
CountedOnce ==
    /\ IsInjective(window)
    /\ \A t \in Pending :
          /\ IsInjective(hand[t].batch)
          /\ Range(hand[t].batch) \cap Range(window) = {}
          /\ \A u \in Pending \ {t} : Range(hand[t].batch) \cap Range(hand[u].batch) = {}
    /\ \A i \in Own :
          /\ IsInjective(replay[i])
          /\ Range(replay[i]) \cap Range(window) = {}
          /\ \A t \in Pending : Range(replay[i]) \cap Range(hand[t].batch) = {}
          /\ \A j \in Own \ {i} : Range(replay[i]) \cap Range(replay[j]) = {}

(***************************************************************************)
(* Duplicates rather than gaps: a document that no sink has stored is one  *)
(* the code has given up, or is at or past the place where a connection    *)
(* would resume now.  Were the process to die at this very moment,         *)
(* Jetstream would send it again.                                          *)
(***************************************************************************)
Stored == Replayed \cup UNION {Range(database[m]) : m \in Minutes}
NoGap ==
    checkpoint # Unreadable =>
        \A d \in Documents \ (Stored \cup forfeited) : d >= ResumeAt(checkpoint)

(***************************************************************************)
(* The rows of a minute never lose a document they counted.                *)
(***************************************************************************)
RowsKeepDocuments ==
    [][\A m \in Minutes : Range(database[m]) \subseteq Range(database'[m])]_database

(***************************************************************************)
(* After shutdown nothing that was received is left in the aggregator.     *)
(***************************************************************************)
ShutdownFlushes ==
    loop = "ended" /\ (\A t \in Tasks : hand[t] = Free) /\ (\A s \in Sockets : chain[s] = <<>>)
        => window = <<>>
=============================================================================
