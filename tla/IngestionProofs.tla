-------------------------- MODULE IngestionProofs --------------------------
(***************************************************************************)
(* For every stream, rewind and number of sockets, crashes and failures:   *)
(* batches never mix minutes, a process counts a document once, and what   *)
(* is neither stored nor given up is still ahead of the checkpoint.        *)
(***************************************************************************)
EXTENDS Ingestion, SequenceTheorems, WellFoundedInduction, TLAPS

Batches == Seq(Documents)

-----------------------------------------------------------------------------
(* Documents, sequences of them and their cursors.                         *)

LEMMA Cursors ==
    /\ Len(MinuteOf) \in Nat /\ Documents = 1 .. Len(MinuteOf)
    /\ \A d \in Documents : d \in Nat /\ d >= 1 /\ MinuteOf[d] \in Minutes
    /\ 0 \notin Documents
BY StreamAssumption, LenProperties DEF Documents, Minutes

LEMMA EmptyBatch ==
    /\ <<>> \in Batches /\ Len(<<>>) = 0
    /\ Range(<<>>) = {} /\ IsInjective(<<>>) /\ OneMinute(<<>>)
BY EmptySeq DEF Batches, Range, IsInjective, OneMinute

LEMMA BatchElements ==
    ASSUME NEW q \in Batches
    PROVE  /\ Len(q) \in Nat /\ DOMAIN q = 1 .. Len(q)
           /\ \A i \in 1 .. Len(q) : q[i] \in Documents
           /\ \A x : x \in Range(q) <=> \E i \in 1 .. Len(q) : q[i] = x
           /\ Range(q) \subseteq Documents
           /\ q # <<>> => Len(q) >= 1 /\ 1 \in 1 .. Len(q)
<1>1. Len(q) \in Nat /\ DOMAIN q = 1 .. Len(q)
  BY LenProperties DEF Batches
<1>2. \A i \in 1 .. Len(q) : q[i] \in Documents
  BY ElementOfSeq DEF Batches
<1>3. q # <<>> => Len(q) >= 1
  BY <1>1, EmptySeq DEF Batches
<1>4. QED
  BY <1>1, <1>2, <1>3 DEF Range

LEMMA Appended ==
    ASSUME NEW q \in Batches, NEW d \in Documents
    PROVE  /\ Append(q, d) \in Batches
           /\ Append(q, d) # <<>>
           /\ Range(Append(q, d)) = Range(q) \cup {d}
           /\ IsInjective(q) /\ d \notin Range(q) => IsInjective(Append(q, d))
           /\ OneMinute(q) /\ (q = <<>> \/ MinuteOf[q[1]] = MinuteOf[d]) => OneMinute(Append(q, d))
<1> DEFINE r == Append(q, d)
<1>1. /\ r \in Batches /\ Len(r) = Len(q) + 1
      /\ \A i \in 1 .. Len(q) : r[i] = q[i]
      /\ r[Len(q) + 1] = d
  BY AppendProperties DEF Batches
<1> HIDE DEF r
<1>2. Len(q) \in Nat /\ DOMAIN q = 1 .. Len(q) /\ DOMAIN r = 1 .. Len(q) + 1
  BY <1>1, BatchElements
<1>3. \A i \in 1 .. Len(q) + 1 : i = Len(q) + 1 \/ i \in 1 .. Len(q)
  BY <1>2
<1>4. r # <<>>
  BY <1>1, <1>2, EmptyBatch
<1>5. Range(r) = Range(q) \cup {d}
  <2>1. \A x \in Range(r) : x \in Range(q) \cup {d}
    BY <1>1, <1>2, <1>3 DEF Range
  <2>2. \A x \in Range(q) : x \in Range(r)
    <3> SUFFICES ASSUME NEW i \in 1 .. Len(q) PROVE q[i] \in Range(r)
      BY <1>2 DEF Range
    <3>1. i \in 1 .. Len(q) + 1 /\ r[i] = q[i]
      BY <1>1, <1>2
    <3> QED BY <1>2, <3>1 DEF Range
  <2>3. d \in Range(r)
    BY <1>1, <1>2 DEF Range
  <2> QED BY <2>1, <2>2, <2>3
<1>6. ASSUME IsInjective(q), d \notin Range(q) PROVE IsInjective(r)
  <2>1. \A i \in 1 .. Len(q) : q[i] # d
    BY <1>2, <1>6 DEF Range
  <2>2. \A i, j \in 1 .. Len(q) : q[i] = q[j] => i = j
    BY <1>2, <1>6 DEF IsInjective
  <2> QED BY <1>1, <1>2, <1>3, <2>1, <2>2 DEF IsInjective
<1>7. ASSUME OneMinute(q), q = <<>> \/ MinuteOf[q[1]] = MinuteOf[d] PROVE OneMinute(r)
  <2>1. \A i \in 1 .. Len(q) : MinuteOf[q[i]] = MinuteOf[d]
    <3> SUFFICES ASSUME NEW i \in 1 .. Len(q) PROVE MinuteOf[q[i]] = MinuteOf[d]
      OBVIOUS
    <3>1. q # <<>> /\ 1 \in 1 .. Len(q)
      BY <1>2, EmptyBatch
    <3> QED BY <1>2, <1>7, <3>1 DEF OneMinute
  <2>2. \A i \in 1 .. Len(q) + 1 : MinuteOf[r[i]] = MinuteOf[d]
    BY <1>1, <1>3, <2>1
  <2> QED BY <1>2, <2>2 DEF OneMinute
<1>8. QED
  BY <1>1, <1>4, <1>5, <1>6, <1>7 DEF r

LEMMA Dequeued ==
    ASSUME NEW q \in Batches, q # <<>>
    PROVE  /\ Tail(q) \in Batches
           /\ Head(q) \in Documents
           /\ Range(q) = {Head(q)} \cup Range(Tail(q))
<1>1. /\ Tail(q) \in Batches /\ Len(Tail(q)) = Len(q) - 1
      /\ \A i \in 1 .. Len(Tail(q)) : Tail(q)[i] = q[i + 1]
      /\ Head(q) = q[1]
  BY HeadTailProperties, EmptySeq DEF Batches
<1>2. Len(q) \in Nat /\ Len(q) >= 1 /\ DOMAIN q = 1 .. Len(q)
  BY BatchElements
<1>3. DOMAIN Tail(q) = 1 .. Len(q) - 1
  BY <1>1, LenProperties DEF Batches
<1>4. Head(q) \in Documents
  BY <1>1, <1>2, BatchElements
<1>5. Head(q) \in Range(q)
  BY <1>1, <1>2 DEF Range
<1>6. \A x \in Range(Tail(q)) : x \in Range(q)
  <2> SUFFICES ASSUME NEW i \in 1 .. Len(q) - 1 PROVE Tail(q)[i] \in Range(q)
    BY <1>3 DEF Range
  <2>1. i + 1 \in 1 .. Len(q) /\ Tail(q)[i] = q[i + 1]
    BY <1>1, <1>2
  <2> QED BY <1>2, <2>1 DEF Range
<1>7. \A x \in Range(q) : x = Head(q) \/ x \in Range(Tail(q))
  <2> SUFFICES ASSUME NEW i \in 1 .. Len(q), i # 1 PROVE q[i] \in Range(Tail(q))
    BY <1>1, <1>2 DEF Range
  <2>1. i - 1 \in 1 .. Len(q) - 1 /\ Tail(q)[i - 1] = q[i]
    BY <1>1, <1>2
  <2> QED BY <1>3, <2>1 DEF Range
<1>8. QED
  BY <1>1, <1>4, <1>5, <1>6, <1>7

(* A set of cursors has a greatest element.                                *)
LEMMA GreatestDocument ==
    ASSUME NEW T \in SUBSET Documents, T # {}
    PROVE  \E m \in T : \A n \in T : m >= n
<1> DEFINE N == Len(MinuteOf)
           D == {N - p : p \in T}
<1>1. N \in Nat /\ \A p \in T : p \in Nat /\ p <= N
  BY Cursors
<1>2. D \in SUBSET Nat /\ D # {}
  <2>1. \A p \in T : N - p \in Nat
    BY <1>1
  <2>2. D # {}
    OBVIOUS
  <2> QED BY <2>1, <2>2
<1>3. PICK d \in D : \A e \in D : ~ (<<e, d>> \in OpToRel(<, Nat))
  <2> HIDE DEF D
  <2> QED BY <1>2, NatLessThanWellFounded, WFMin
<1>4. \A e \in D : ~ (e < d)
  <2> HIDE DEF D
  <2> QED BY <1>2, <1>3 DEF OpToRel
<1>5. PICK m \in T : d = N - m
  BY <1>3
<1>6. ASSUME NEW n \in T PROVE m >= n
  <2>1. ~ (N - n < N - m)
    BY <1>4, <1>5
  <2> HIDE DEF N
  <2> QED BY <1>1, <2>1
<1>7. QED
  BY <1>5, <1>6

(* The cursor of a batch is its last document.                             *)
LEMMA CursorOfBatch ==
    ASSUME NEW q \in Batches, q # <<>>
    PROVE  /\ Cursor(q) \in Range(q) /\ Cursor(q) \in Documents
           /\ \A d \in Range(q) : d <= Cursor(q)
<1> DEFINE T == {0} \cup Range(q)
<1>1. Range(q) \in SUBSET Documents /\ Range(q) # {}
  <2>1. q[1] \in Range(q)
    BY BatchElements
  <2> QED BY <2>1, BatchElements
<1>2. PICK m \in Range(q) : \A n \in Range(q) : m >= n
  BY <1>1, GreatestDocument
<1>3. m \in T /\ \A n \in T : m >= n
  BY <1>1, <1>2, Cursors
<1>4. Cursor(q) \in T /\ \A n \in T : Cursor(q) >= n
  BY <1>3 DEF Cursor, Max
<1>5. Cursor(q) # 0
  BY <1>1, <1>2, <1>4, Cursors
<1>6. Cursor(q) \in Range(q)
  BY <1>4, <1>5
<1>7. QED
  BY <1>1, <1>4, <1>6, Cursors

-----------------------------------------------------------------------------
(***************************************************************************)
(* The inductive invariants.                                               *)
(***************************************************************************)

(* What a task can hold: nothing, a document being recorded, or the batch  *)
(* it is storing, with the document that closed the window in a socket's.  *)
GoodHand(t, h) ==
    /\ h \in Hand /\ OneMinute(h.batch)
    /\ \/ h = Free
       \/ h.at = "recording" /\ t # Loop /\ h.doc # 0 /\ h.batch = <<>>
       \/ /\ h.at \in Stages /\ h.batch # <<>>
          /\ (h.doc = 0) = (t = Loop)
          /\ h.at = "postgres" => h.refused = 0

BatchInv == OneMinutePerBatch /\ \A t \in Tasks : GoodHand(t, hand[t])

(* Whatever a process still holds or has written is marked, and a document *)
(* at hand has no place yet.                                               *)
Marked ==
    /\ Range(window) \subseteq seen
    /\ \A t \in Tasks : /\ Range(hand[t].batch) \subseteq seen
                        /\ hand[t].doc \in seen \cup {0}
    /\ \A i \in Own : Range(replay[i]) \subseteq seen

Unplaced(t) ==
    /\ hand[t].doc \notin Range(window)
    /\ \A u \in Pending : hand[t].doc \notin Range(hand[u].batch)
    /\ \A i \in Own : hand[t].doc \notin Range(replay[i])
    /\ \A s \in Sockets \ {t} : hand[s].doc # hand[t].doc

OnceInv ==
    /\ CountedOnce /\ Marked
    /\ \A s \in Sockets : hand[s].doc # 0 => Unplaced(s)

(* A document that has left memory is stored or given up; so is all that   *)
(* precedes a document in memory or a socket's place in the stream.        *)
Safe == Stored \cup forfeited
Kept == Safe \cup InMemory

SeenKept == seen \subseteq Safe \cup Range(window) \cup HeldBy(Tasks)

Durable(h) == h.at \in {"truncate", "content"} \/ (h.at = "replay" /\ h.refused = 0)
BatchStored == \A t \in Tasks : Durable(hand[t]) => Range(hand[t].batch) \subseteq Safe

NoHole == \A c \in InMemory : \A d \in Documents : d < c => d \in Kept
LoopHand == hand[Loop] = Free \/ loop = "flushing"
SocketsKeep ==
    \A s \in Sockets : receiving[s] => \A d \in Documents : d < next[s] => d \in Kept

GapInv == NoGap /\ SeenKept /\ BatchStored /\ NoHole /\ SocketsKeep /\ LoopHand

-----------------------------------------------------------------------------
(* Batches hold one minute.                                                *)

LEMMA LoopIsNoSocket == Loop \in Tasks /\ Loop \notin Sockets /\ Sockets \subseteq Tasks
BY StreamAssumption DEF Loop, Tasks, Sockets

LEMMA FreeIsGood == \A t \in Tasks : GoodHand(t, Free)
BY EmptyBatch DEF GoodHand, Free, Hand, Batches, Stages

LEMMA Closing ==
    ASSUME BatchInv, window # <<>>, NEW t \in Tasks, NEW d \in Documents \cup {0},
           (d = 0) = (t = Loop)
    PROVE  GoodHand(t, Flushing(d))
BY DEF BatchInv, OneMinutePerBatch, TypeOK, GoodHand, Flushing, Hand, Stages

(* One task changes what it holds.                                         *)
LEMMA HandChanges ==
    ASSUME BatchInv, NEW t \in Tasks, NEW h, GoodHand(t, h), hand' = [hand EXCEPT ![t] = h]
    PROVE  /\ hand' \in [Tasks -> Hand]
           /\ \A u \in Tasks : OneMinute(hand'[u].batch)
           /\ \A u \in Tasks : GoodHand(u, hand'[u])
<1>1. h \in Hand /\ hand \in [Tasks -> Hand]
  BY DEF BatchInv, OneMinutePerBatch, TypeOK, GoodHand
<1>2. hand' \in [Tasks -> Hand] /\ \A u \in Tasks : hand'[u] = IF u = t THEN h ELSE hand[u]
  BY <1>1
<1>3. \A u \in Tasks : GoodHand(u, hand'[u])
  BY <1>2 DEF BatchInv
<1>4. QED
  BY <1>2, <1>3 DEF GoodHand

(* What a task in the middle of storing a batch holds.                     *)
LEMMA StoringHand ==
    ASSUME BatchInv, NEW t \in Tasks, hand[t].at \in Stages
    PROVE  /\ hand[t] \in Hand /\ GoodHand(t, hand[t])
           /\ hand[t].batch \in Batches /\ hand[t].batch # <<>> /\ OneMinute(hand[t].batch)
           /\ (hand[t].doc = 0) = (t = Loop)
           /\ hand[t].at = "postgres" => hand[t].refused = 0
           /\ Minute(hand[t].batch) \in Minutes
           /\ \A i \in DOMAIN hand[t].batch : MinuteOf[hand[t].batch[i]] = Minute(hand[t].batch)
           /\ Cursor(hand[t].batch) \in Documents
<1>1. hand[t] \in Hand /\ GoodHand(t, hand[t])
  BY DEF BatchInv, GoodHand
<1>2. /\ hand[t].batch \in Batches /\ hand[t].batch # <<>> /\ OneMinute(hand[t].batch)
      /\ (hand[t].doc = 0) = (t = Loop)
      /\ hand[t].at = "postgres" => hand[t].refused = 0
  BY <1>1 DEF GoodHand, Free, Stages, Hand, Batches
<1>3. 1 \in DOMAIN hand[t].batch /\ hand[t].batch[1] \in Documents
  BY <1>2, BatchElements
<1>4. Minute(hand[t].batch) \in Minutes
  BY <1>3 DEF Minute, Minutes
<1>5. \A i \in DOMAIN hand[t].batch : MinuteOf[hand[t].batch[i]] = Minute(hand[t].batch)
  BY <1>2, <1>3 DEF OneMinute, Minute
<1>6. Cursor(hand[t].batch) \in Documents
  BY <1>2, CursorOfBatch
<1>7. QED
  BY <1>1, <1>2, <1>4, <1>5, <1>6

(* It may change its stage, and whether a sink refused the batch.          *)
LEMMA NextStage ==
    ASSUME BatchInv, NEW t \in Tasks, hand[t].at \in Stages,
           NEW a \in Stages \ {"postgres"}, NEW r \in 0 .. 1
    PROVE  GoodHand(t, [hand[t] EXCEPT !.at = a, !.refused = r])
BY StoringHand DEF GoodHand, Hand, Batches, Stages

LEMMA BatchInvInit == Init => BatchInv
<1> SUFFICES ASSUME Init PROVE BatchInv
  OBVIOUS
<1>1. TypeOK
  <2>1. \A t \in Tasks : hand[t] \in Hand
    BY FreeIsGood DEF Init, GoodHand
  <2>2. replay \in Seq(Seq(Documents)) /\ Len(replay) = 0
    BY EmptySeq DEF Init
  <2>3. born \in 0 .. Len(replay)
    BY <2>2 DEF Init
  <2> QED BY <2>1, <2>2, <2>3, EmptyBatch DEF Init, TypeOK, Batches
<1>2. \A t \in Tasks : GoodHand(t, hand[t])
  BY FreeIsGood DEF Init
<1>3. OneMinutePerBatch
  BY <1>1, <1>2, EmptyBatch DEF Init, OneMinutePerBatch, GoodHand
<1>4. QED
  BY <1>2, <1>3 DEF BatchInv

(* The actions of the sockets and of the loop leave the batches alone.     *)
LEMMA BatchInvOfSockets ==
    ASSUME BatchInv,
           \/ Connect \/ Shutdown
           \/ \E s \in Sockets : Receive(s) \/ SocketCloses(s)
    PROVE  BatchInv'
<1> USE DEF BatchInv, OneMinutePerBatch
<1>1. CASE Connect
  <2>1. current + 1 \in Sockets
    <3>1. current \in Sockets \cup {0} /\ current < MaxSockets
      BY <1>1 DEF Connect, TypeOK
    <3> QED BY <3>1, StreamAssumption DEF Sockets
  <2>2. \A c \in Resumes : c \in Nat
    BY StreamAssumption, Cursors DEF Resumes, ResumeAt, TypeOK
  <2>3. forfeited' \subseteq Documents
    <3>1. \A c \in Resumes : checkpoint = Unreadable => (1 .. c - 1) \subseteq Documents
      BY <2>2, Cursors DEF Resumes, Unreadable
    <3> QED BY <1>1, <3>1 DEF Connect, Forfeit, TypeOK
  <2>4. next' \in [Sockets -> Nat]
    BY <1>1, <2>1, <2>2 DEF Connect, TypeOK
  <2>5. TypeOK'
    BY <1>1, <2>1, <2>3, <2>4 DEF Connect, TypeOK, storeVars, boundVars
  <2> QED BY <1>1, <2>5 DEF Connect, storeVars
<1>2. CASE Shutdown
  <2>1. TypeOK'
    BY <1>2 DEF Shutdown, TypeOK, socketVars, storeVars, boundVars
  <2> QED BY <1>2, <2>1 DEF Shutdown, storeVars
<1>3. ASSUME NEW s \in Sockets, Receive(s) PROVE BatchInv'
  <2>1. Append(chain[s], next[s]) \in Batches
    BY <1>3, Appended DEF Receive, TypeOK, Batches
  <2>2. TypeOK'
    BY <1>3, <2>1 DEF Receive, TypeOK, loopVars, storeVars, boundVars, Batches
  <2> QED BY <1>3, <2>2 DEF Receive, storeVars
<1>4. ASSUME NEW s \in Sockets, SocketCloses(s) PROVE BatchInv'
  <2>1. TypeOK'
    BY <1>4 DEF SocketCloses, TypeOK, loopVars, storeVars, boundVars
  <2> QED BY <1>4, <2>1 DEF SocketCloses, storeVars
<1>5. QED
  BY <1>1, <1>2, <1>3, <1>4

LEMMA BatchInvOfParse ==
    ASSUME BatchInv, NEW s \in Sockets, Parse(s)
    PROVE  BatchInv'
<1> DEFINE doc == Head(chain[s])
           h == IF doc \in seen THEN hand[s] ELSE Recording(doc)
<1> USE DEF BatchInv, OneMinutePerBatch
<1>1. doc \in Documents /\ Tail(chain[s]) \in Batches
  BY Dequeued DEF Parse, TypeOK, Batches
<1>2. GoodHand(s, h)
  BY <1>1, LoopIsNoSocket, EmptyBatch, Cursors DEF GoodHand, Recording, Hand, Batches, Stages
<1>3. hand' = [hand EXCEPT ![s] = h]
  BY DEF Parse, TypeOK
<1>4. /\ hand' \in [Tasks -> Hand]
      /\ \A u \in Tasks : OneMinute(hand'[u].batch)
      /\ \A u \in Tasks : GoodHand(u, hand'[u])
  BY <1>2, <1>3, LoopIsNoSocket, HandChanges
<1>5. TypeOK'
  <2>1. chain' \in [Sockets -> Batches]
    BY <1>1 DEF Parse, TypeOK, Batches
  <2>2. seen' \subseteq Documents
    BY <1>1 DEF Parse, TypeOK
  <2> QED BY <1>4, <2>1, <2>2 DEF Parse, TypeOK, loopVars, storeVars, boundVars, Batches
<1>6. QED
  BY <1>4, <1>5 DEF Parse, storeVars

(* The two actions that let a document join the window or close it first.  *)
LEMMA JoiningWindow ==
    ASSUME BatchInv, NEW d \in Documents, Fits(d)
    PROVE  Append(window, d) \in Batches /\ OneMinute(Append(window, d))
BY Appended DEF BatchInv, OneMinutePerBatch, TypeOK, Fits, Minute, Batches

LEMMA BatchInvOfRecorded ==
    ASSUME BatchInv, NEW s \in Sockets, Recorded(s)
    PROVE  BatchInv'
<1> DEFINE d == hand[s].doc
<1> USE DEF BatchInv, OneMinutePerBatch
<1>1. d \in Documents /\ s \in Tasks /\ s # Loop /\ d # 0
  BY LoopIsNoSocket, Cursors DEF Recorded, GoodHand, Hand, Free, Stages
<1>2. CASE Fits(d)
  <2>1. Append(window, d) \in Batches /\ OneMinute(Append(window, d))
    BY <1>1, <1>2, JoiningWindow
  <2>2. hand' = [hand EXCEPT ![s] = Free] /\ window' = Append(window, d)
    BY <1>2 DEF Recorded
  <2>3. /\ hand' \in [Tasks -> Hand]
        /\ \A u \in Tasks : OneMinute(hand'[u].batch)
        /\ \A u \in Tasks : GoodHand(u, hand'[u])
    BY <1>1, <2>2, FreeIsGood, HandChanges
  <2>4. TypeOK'
    BY <2>1, <2>2, <2>3 DEF Recorded, TypeOK, loopVars, socketVars, storeVars, boundVars, Batches
  <2> QED BY <2>1, <2>2, <2>3, <2>4 DEF Recorded, storeVars
<1>3. CASE ~ Fits(d)
  <2>1. window # <<>>
    BY <1>3 DEF Fits
  <2>2. hand' = [hand EXCEPT ![s] = Flushing(d)] /\ window' = <<>>
    BY <1>3 DEF Recorded
  <2>3. GoodHand(s, Flushing(d))
    BY <1>1, <2>1, Closing
  <2>4. /\ hand' \in [Tasks -> Hand]
        /\ \A u \in Tasks : OneMinute(hand'[u].batch)
        /\ \A u \in Tasks : GoodHand(u, hand'[u])
    BY <1>1, <2>2, <2>3, HandChanges
  <2>5. TypeOK'
    BY <2>2, <2>4, EmptyBatch
    DEF Recorded, TypeOK, loopVars, socketVars, storeVars, boundVars, Batches
  <2> QED BY <2>2, <2>4, <2>5, EmptyBatch DEF Recorded, storeVars
<1>4. QED
  BY <1>2, <1>3

(* A chain whose entry throws holds nothing any more.                      *)
LEMMA Thrown ==
    ASSUME BatchInv, NEW s \in Sockets, Throw(s)
    PROVE  /\ hand' \in [Tasks -> Hand] /\ rejected' \in [Sockets -> BOOLEAN]
           /\ \A u \in Tasks : OneMinute(hand'[u].batch)
           /\ \A u \in Tasks : GoodHand(u, hand'[u])
<1>1. s \in Tasks /\ hand' = [hand EXCEPT ![s] = Free] /\ GoodHand(s, Free)
  BY LoopIsNoSocket, FreeIsGood DEF Throw
<1>2. rejected' \in [Sockets -> BOOLEAN]
  BY DEF Throw, BatchInv, OneMinutePerBatch, TypeOK
<1>3. QED
  BY <1>1, <1>2, HandChanges

LEMMA HeldAreDocuments ==
    ASSUME BatchInv
    PROVE  HeldBy(Tasks) \subseteq Documents /\ \A t \in Tasks : HeldBy({t}) \subseteq Documents
<1>1. \A t \in Tasks : hand[t].doc \in Documents \cup {0} /\ hand[t].batch \in Batches
  BY DEF BatchInv, OneMinutePerBatch, TypeOK, Hand, Batches
<1>2. \A t \in Tasks : Range(hand[t].batch) \subseteq Documents
  BY <1>1, BatchElements
<1>3. QED
  BY <1>1, <1>2, Cursors DEF HeldBy

LEMMA BatchInvOfThrow ==
    ASSUME BatchInv, NEW s \in Sockets, RecordingFails(s) \/ AllSinksFail(s)
    PROVE  BatchInv'
<1> USE DEF BatchInv, OneMinutePerBatch
<1>1. Throw(s)
  BY DEF RecordingFails, AllSinksFail
<1>2. /\ hand' \in [Tasks -> Hand] /\ rejected' \in [Sockets -> BOOLEAN]
      /\ \A u \in Tasks : OneMinute(hand'[u].batch)
      /\ \A u \in Tasks : GoodHand(u, hand'[u])
  BY <1>1, Thrown
<1>3. forfeited' \subseteq Documents
  <2>1. RecordingFails(s) => hand[s].doc \in Documents
    <3>1. ASSUME RecordingFails(s) PROVE hand[s].doc \in Documents
      <4>1. hand[s].at = "recording" /\ s \in Tasks
        BY <3>1, LoopIsNoSocket DEF RecordingFails
      <4> QED BY <4>1 DEF GoodHand, Hand, Free, Stages
    <3> QED BY <3>1
  <2>2. HeldBy({s}) \subseteq Documents
    BY LoopIsNoSocket, HeldAreDocuments
  <2> QED BY <2>1, <2>2 DEF RecordingFails, AllSinksFail, Forfeit, TypeOK
<1>4. TypeOK'
  <2>1. /\ UNCHANGED <<loopVars, receiving, next, chain, seen, delivered, window, storeVars, born, crashes>>
        /\ failures' \in {failures, failures + 1}
    BY <1>1 DEF RecordingFails, AllSinksFail, Throw, boundVars
  <2>2. failures' \in Nat
    BY <2>1 DEF TypeOK
  <2> QED BY <1>2, <1>3, <2>1, <2>2 DEF TypeOK, loopVars, storeVars
<1>5. QED
  BY <1>2, <1>4 DEF RecordingFails, AllSinksFail, storeVars

(* The actions of a flush move its task to another stage.                  *)
LEMMA StageChanges ==
    ASSUME BatchInv, NEW t \in Tasks,
           StorePostgres(t) \/ StoreReplay(t) \/ ReplayFails(t) \/ TruncateCheckpoint(t)
    PROVE  /\ hand[t].at \in Stages
           /\ \E a \in Stages \ {"postgres"}, r \in 0 .. 1 :
                  hand' = [hand EXCEPT ![t] = [hand[t] EXCEPT !.at = a, !.refused = r]]
           /\ StorePostgres(t) => hand'[t].at = "replay"
           /\ StoreReplay(t) \/ ReplayFails(t) => hand'[t].at = "truncate"
           /\ TruncateCheckpoint(t) => hand'[t].at = "content"
           /\ \A u \in Tasks : /\ hand'[u].doc = hand[u].doc /\ hand'[u].batch = hand[u].batch
                               /\ u # t => hand'[u] = hand[u]
<1> DEFINE Moved(a, r) == [hand EXCEPT ![t] = [hand[t] EXCEPT !.at = a, !.refused = r]]
<1>1. hand[t].at \in Stages
  BY DEF StorePostgres, StoreReplay, ReplayFails, TruncateCheckpoint, Stages
<1>2. hand[t] \in Hand /\ hand \in [Tasks -> Hand] /\ hand[t].refused \in 0 .. 1
  BY DEF BatchInv, OneMinutePerBatch, TypeOK, Hand
<1>3. ASSUME NEW a \in Stages \ {"postgres"}, NEW r \in 0 .. 1, hand' = Moved(a, r)
      PROVE  /\ hand'[t].at = a
             /\ \A u \in Tasks : /\ hand'[u].doc = hand[u].doc /\ hand'[u].batch = hand[u].batch
                                 /\ u # t => hand'[u] = hand[u]
  <2>1. \A u \in Tasks : hand'[u] = IF u = t THEN [hand[t] EXCEPT !.at = a, !.refused = r] ELSE hand[u]
    BY <1>2, <1>3
  <2> QED BY <1>2, <2>1 DEF Hand
<1>4. /\ "replay" \in Stages \ {"postgres"} /\ "truncate" \in Stages \ {"postgres"}
      /\ "content" \in Stages \ {"postgres"} /\ 1 \in 0 .. 1
  BY DEF Stages
<1>5. StorePostgres(t) => hand' = Moved("replay", hand[t].refused) \/ hand' = Moved("replay", 1)
  BY <1>2 DEF StorePostgres, Hand
<1>6. StoreReplay(t) => hand' = Moved("truncate", hand[t].refused)
  BY <1>2 DEF StoreReplay, Hand
<1>7. ReplayFails(t) => hand' = Moved("truncate", 1)
  BY <1>2 DEF ReplayFails, Hand
<1>8. TruncateCheckpoint(t) => hand' = Moved("content", hand[t].refused)
  BY <1>2 DEF TruncateCheckpoint, Hand
<1>9. \A a : hand' = Moved(a, hand[t].refused) \/ hand' = Moved(a, 1)
               => \E r \in 0 .. 1 : hand' = Moved(a, r)
  <2> HIDE DEF Moved
  <2> QED BY <1>2, <1>4
<1> HIDE DEF Moved
<1>10. \E a \in Stages \ {"postgres"}, r \in 0 .. 1 : hand' = Moved(a, r)
  BY <1>4, <1>5, <1>6, <1>7, <1>8, <1>9
<1>11. /\ StorePostgres(t) => hand'[t].at = "replay"
       /\ StoreReplay(t) \/ ReplayFails(t) => hand'[t].at = "truncate"
       /\ TruncateCheckpoint(t) => hand'[t].at = "content"
  BY <1>2, <1>3, <1>4, <1>5, <1>6, <1>7, <1>8
<1>12. \A u \in Tasks : /\ hand'[u].doc = hand[u].doc /\ hand'[u].batch = hand[u].batch
                        /\ u # t => hand'[u] = hand[u]
  BY <1>3, <1>10
<1>13. QED
  BY <1>1, <1>10, <1>11, <1>12 DEF Moved

(* The actions of a flush.                                                 *)
LEMMA BatchInvOfStages ==
    ASSUME BatchInv, NEW t \in Tasks,
           StorePostgres(t) \/ StoreReplay(t) \/ ReplayFails(t) \/ TruncateCheckpoint(t)
    PROVE  BatchInv'
<1> DEFINE b == hand[t].batch
<1>1. hand[t].at \in Stages
  BY DEF StorePostgres, StoreReplay, ReplayFails, TruncateCheckpoint, Stages
<1>2. /\ b \in Batches /\ OneMinute(b) /\ Minute(b) \in Minutes
      /\ \A i \in DOMAIN b : MinuteOf[b[i]] = Minute(b)
  BY <1>1, StoringHand
<1>3. hand[t] \in Hand /\ hand \in [Tasks -> Hand] /\ hand[t].refused \in 0 .. 1
  BY DEF BatchInv, OneMinutePerBatch, TypeOK, Hand
<1>4. PICK a \in Stages \ {"postgres"}, r \in 0 .. 1 :
          hand' = [hand EXCEPT ![t] = [hand[t] EXCEPT !.at = a, !.refused = r]]
  BY StageChanges
<1>5. /\ hand' \in [Tasks -> Hand]
      /\ \A u \in Tasks : OneMinute(hand'[u].batch)
      /\ \A u \in Tasks : GoodHand(u, hand'[u])
  BY <1>1, <1>4, NextStage, HandChanges
<1>6. /\ database' \in [Minutes -> Batches]
      /\ \A m \in Minutes : \A i \in DOMAIN database'[m] : MinuteOf[database'[m][i]] = m
  <2>1. /\ database \in [Minutes -> Batches]
        /\ \A m \in Minutes : \A i \in DOMAIN database[m] : MinuteOf[database[m][i]] = m
    BY DEF BatchInv, OneMinutePerBatch, TypeOK, Batches
  <2>2. database' = database \/ database' = [database EXCEPT ![Minute(b)] = b]
    BY DEF StorePostgres, StoreReplay, ReplayFails, TruncateCheckpoint, storeVars
  <2> QED BY <1>2, <2>1, <2>2
<1>7. /\ replay' \in Seq(Batches) /\ born \in 0 .. Len(replay')
      /\ \A i \in DOMAIN replay' : OneMinute(replay'[i])
  <2>1. /\ replay \in Seq(Batches) /\ born \in 0 .. Len(replay)
        /\ \A i \in DOMAIN replay : OneMinute(replay[i])
    BY DEF BatchInv, OneMinutePerBatch, TypeOK, Batches
  <2>2. CASE replay' = replay
    BY <2>1, <2>2
  <2>3. CASE replay' = Append(replay, b)
    <3>1. /\ replay' \in Seq(Batches) /\ Len(replay') = Len(replay) + 1
          /\ \A i \in 1 .. Len(replay) : replay'[i] = replay[i]
          /\ replay'[Len(replay) + 1] = b
      BY <1>2, <2>1, <2>3, AppendProperties
    <3>2. Len(replay) \in Nat /\ DOMAIN replay = 1 .. Len(replay) /\ DOMAIN replay' = 1 .. Len(replay')
      BY <2>1, <3>1, LenProperties
    <3>3. \A i \in DOMAIN replay' : i \in DOMAIN replay \/ i = Len(replay) + 1
      BY <3>1, <3>2
    <3> QED BY <1>2, <2>1, <3>1, <3>2, <3>3
  <2> QED BY <2>2, <2>3 DEF StorePostgres, StoreReplay, ReplayFails, TruncateCheckpoint, storeVars
<1>8. forfeited' \subseteq Documents
  <2>1. \A m \in Minutes : Range(database[m]) \subseteq Documents
    BY BatchElements DEF BatchInv, OneMinutePerBatch, TypeOK, Batches
  <2> QED BY <1>2, <2>1 DEF StorePostgres, StoreReplay, ReplayFails, TruncateCheckpoint, Forfeit,
        BatchInv, OneMinutePerBatch, TypeOK
<1>9. checkpoint' \in Documents \cup {0, Unreadable} /\ born' = born
      /\ crashes' \in Nat /\ failures' \in Nat
  BY DEF StorePostgres, StoreReplay, ReplayFails, TruncateCheckpoint, boundVars, storeVars,
        BatchInv, OneMinutePerBatch, TypeOK
<1>10. UNCHANGED <<loopVars, socketVars, seen, window>>
  BY DEF StorePostgres, StoreReplay, ReplayFails, TruncateCheckpoint
<1>11. QED
  BY <1>5, <1>6, <1>7, <1>8, <1>9, <1>10
  DEF BatchInv, OneMinutePerBatch, TypeOK, Batches, loopVars, socketVars

LEMMA MemoryIsDocuments == BatchInv => InMemory \subseteq Documents
<1> SUFFICES ASSUME BatchInv PROVE InMemory \subseteq Documents
  OBVIOUS
<1>1. window \in Batches /\ \A s \in Sockets : chain[s] \in Batches
  BY DEF BatchInv, OneMinutePerBatch, TypeOK, Batches
<1>2. Range(window) \subseteq Documents /\ \A s \in Sockets : Range(chain[s]) \subseteq Documents
  BY <1>1, BatchElements
<1>3. QED
  BY <1>2, HeldAreDocuments DEF InMemory

LEMMA BatchInvOfCheckpoint ==
    ASSUME BatchInv, \/ CheckpointAndLoop
                     \/ \E s \in Sockets : CheckpointAndAdd(s)
    PROVE  BatchInv'
<1>1. CASE CheckpointAndLoop
  <2>1. hand[Loop].at \in Stages /\ Loop \in Tasks /\ hand' = [hand EXCEPT ![Loop] = Free]
    BY <1>1, LoopIsNoSocket DEF CheckpointAndLoop, Stages
  <2>2. /\ hand' \in [Tasks -> Hand]
        /\ \A u \in Tasks : OneMinute(hand'[u].batch)
        /\ \A u \in Tasks : GoodHand(u, hand'[u])
    BY <2>1, FreeIsGood, HandChanges
  <2>3. checkpoint' \in Documents
    BY <1>1, <2>1, StoringHand DEF CheckpointAndLoop
  <2>4. forfeited' \subseteq Documents
    BY <1>1, MemoryIsDocuments
    DEF CheckpointAndLoop, Forfeit, Overtaken, BatchInv, OneMinutePerBatch, TypeOK
  <2>5. TypeOK'
    BY <1>1, <2>2, <2>3, <2>4
    DEF CheckpointAndLoop, BatchInv, OneMinutePerBatch, TypeOK, socketVars, boundVars
  <2> QED BY <1>1, <2>2, <2>5 DEF CheckpointAndLoop, BatchInv, OneMinutePerBatch
<1>2. ASSUME NEW s \in Sockets, CheckpointAndAdd(s) PROVE BatchInv'
  <2> DEFINE d == hand[s].doc
  <2>1. hand[s].at \in Stages /\ s \in Tasks /\ s # Loop
    BY <1>2, LoopIsNoSocket DEF CheckpointAndAdd, Stages
  <2>2. checkpoint' \in Documents /\ d \in Documents
    BY <1>2, <2>1, StoringHand DEF CheckpointAndAdd, Hand
  <2>3. forfeited' \subseteq Documents
    BY <1>2, <2>2, MemoryIsDocuments
    DEF CheckpointAndAdd, Forfeit, Overtaken, BatchInv, OneMinutePerBatch, TypeOK
  <2>4. hand' = [hand EXCEPT ![s] = Free]
    BY <1>2 DEF CheckpointAndAdd, Throw
  <2>5. /\ hand' \in [Tasks -> Hand]
        /\ \A u \in Tasks : OneMinute(hand'[u].batch)
        /\ \A u \in Tasks : GoodHand(u, hand'[u])
    BY <2>1, <2>4, FreeIsGood, HandChanges
  <2>6. window' \in Batches /\ OneMinute(window')
    BY <1>2, <2>2, JoiningWindow
    DEF CheckpointAndAdd, BatchInv, OneMinutePerBatch, TypeOK, Batches
  <2>7. rejected' \in [Sockets -> BOOLEAN] /\ UNCHANGED <<receiving, next, chain, delivered>>
    BY <1>2 DEF CheckpointAndAdd, Throw, socketVars, BatchInv, OneMinutePerBatch, TypeOK
  <2>8. TypeOK'
    BY <1>2, <2>2, <2>3, <2>5, <2>6, <2>7
    DEF CheckpointAndAdd, BatchInv, OneMinutePerBatch, TypeOK, loopVars, boundVars, Batches
  <2> QED BY <1>2, <2>5, <2>6, <2>8 DEF CheckpointAndAdd, BatchInv, OneMinutePerBatch
<1>3. QED
  BY <1>1, <1>2

LEMMA BatchInvOfLeave ==
    ASSUME BatchInv, Leave
    PROVE  BatchInv'
<1>1. CASE window = <<>>
  <2>1. TypeOK'
    BY <1>1 DEF Leave, BatchInv, OneMinutePerBatch, TypeOK, socketVars, storeVars, boundVars
  <2> QED BY <1>1, <2>1 DEF Leave, BatchInv, OneMinutePerBatch, storeVars
<1>2. CASE window # <<>>
  <2>1. GoodHand(Loop, Flushing(0)) /\ Loop \in Tasks
    BY <1>2, LoopIsNoSocket, Closing
  <2>2. hand' = [hand EXCEPT ![Loop] = Flushing(0)] /\ window' = <<>>
    BY <1>2 DEF Leave
  <2>3. /\ hand' \in [Tasks -> Hand]
        /\ \A u \in Tasks : OneMinute(hand'[u].batch)
        /\ \A u \in Tasks : GoodHand(u, hand'[u])
    BY <2>1, <2>2, HandChanges
  <2>4. TypeOK'
    BY <1>2, <2>2, <2>3, EmptyBatch
    DEF Leave, BatchInv, OneMinutePerBatch, TypeOK, socketVars, storeVars, boundVars, Batches
  <2> QED BY <2>2, <2>3, <2>4, EmptyBatch DEF Leave, BatchInv, OneMinutePerBatch, storeVars
<1>3. QED
  BY <1>1, <1>2

LEMMA BatchInvOfDie ==
    ASSUME BatchInv, Crash \/ AllSinksFailInLoop
    PROVE  BatchInv'
<1>1. Die /\ crashes' \in Nat /\ failures' \in Nat
  BY DEF Crash, AllSinksFailInLoop, BatchInv, OneMinutePerBatch, TypeOK
<1>2. \A t \in Tasks : hand'[t] = Free
  BY <1>1 DEF Die
<1>3. \A t \in Tasks : GoodHand(t, hand'[t]) /\ hand'[t] \in Hand /\ OneMinute(hand'[t].batch)
  BY <1>2, FreeIsGood DEF GoodHand
<1>4. hand' \in [Tasks -> Hand]
  BY <1>1, <1>3 DEF Die
<1>5. chain' \in [Sockets -> Batches] /\ window' = <<>> /\ window' \in Batches /\ OneMinute(window')
  BY <1>1, EmptyBatch DEF Die
<1>6. born' \in 0 .. Len(replay')
  BY <1>1, LenProperties DEF Die, storeVars, BatchInv, OneMinutePerBatch, TypeOK
<1>7. TypeOK'
  BY <1>1, <1>4, <1>5, <1>6
  DEF Die, BatchInv, OneMinutePerBatch, TypeOK, storeVars, Batches
<1>8. QED
  BY <1>1, <1>3, <1>5, <1>7 DEF Die, BatchInv, OneMinutePerBatch, storeVars

LEMMA BatchInvStep == BatchInv /\ [Next]_vars => BatchInv'
<1> SUFFICES ASSUME BatchInv, [Next]_vars PROVE BatchInv'
  OBVIOUS
<1>1. CASE UNCHANGED vars
  BY <1>1 DEF vars, loopVars, socketVars, storeVars, boundVars, BatchInv, OneMinutePerBatch, TypeOK
<1>2. CASE Connect \/ Shutdown \/ \E s \in Sockets : Receive(s) \/ SocketCloses(s)
  BY <1>2, BatchInvOfSockets
<1>3. CASE \E s \in Sockets : Parse(s) \/ Recorded(s) \/ RecordingFails(s) \/ AllSinksFail(s)
  BY <1>3, BatchInvOfParse, BatchInvOfRecorded, BatchInvOfThrow
<1>4. CASE \E t \in Tasks : StorePostgres(t) \/ StoreReplay(t) \/ ReplayFails(t) \/ TruncateCheckpoint(t)
  BY <1>4, BatchInvOfStages
<1>5. CASE CheckpointAndLoop \/ \E s \in Sockets : CheckpointAndAdd(s)
  BY <1>5, BatchInvOfCheckpoint
<1>6. CASE Leave
  BY <1>6, BatchInvOfLeave
<1>7. CASE Crash \/ AllSinksFailInLoop
  BY <1>7, BatchInvOfDie
<1>8. QED
  BY <1>1, <1>2, <1>3, <1>4, <1>5, <1>6, <1>7 DEF Next

LEMMA BatchInvAlways == Spec => []BatchInv
BY BatchInvInit, BatchInvStep, PTL DEF Spec

(***************************************************************************)
(* Rows and replay lines never mix minutes, however the tasks of the       *)
(* worker (aggregator.add() and flush()) interleave.                       *)
(***************************************************************************)
THEOREM BatchesOfOneMinute == Spec => []OneMinutePerBatch
<1>1. BatchInv => OneMinutePerBatch
  BY DEF BatchInv
<1>2. QED
  BY <1>1, BatchInvAlways, PTL

-----------------------------------------------------------------------------
(* A process counts a document once.                                       *)

(* Nothing is added: batches and documents at hand may only go away.       *)
LEMMA OnceWhenNothingIsAdded ==
    ASSUME OnceInv, window' = window, replay' = replay, born' = born, seen \subseteq seen',
           \A t \in Tasks : /\ hand'[t].doc \in {0, hand[t].doc}
                            /\ hand'[t].batch \in {<<>>, hand[t].batch},
           \A t \in Pending' : t \in Pending /\ hand'[t].batch = hand[t].batch
    PROVE  OnceInv'
<1>1. Own' = Own
  BY DEF Own
<1>2. CountedOnce'
  BY <1>1 DEF OnceInv, CountedOnce
<1>3. Marked'
  BY <1>1, EmptyBatch DEF OnceInv, Marked
<1>4. ASSUME NEW s \in Sockets, hand'[s].doc # 0 PROVE Unplaced(s)'
  <2>1. Unplaced(s) /\ hand'[s].doc = hand[s].doc
    BY <1>4, LoopIsNoSocket DEF OnceInv
  <2>2. \A u \in Sockets \ {s} : hand'[u].doc # hand'[s].doc
    BY <1>4, <2>1, LoopIsNoSocket DEF Unplaced
  <2> QED BY <1>1, <2>1, <2>2 DEF Unplaced
<1>5. QED
  BY <1>2, <1>3, <1>4 DEF OnceInv

(* The window becomes the batch of one task.                               *)
LEMMA OnceWhenWindowCloses ==
    ASSUME BatchInv, OnceInv, NEW t \in Tasks, NEW d \in {0, hand[t].doc}, 
           hand' = [hand EXCEPT ![t] = Flushing(d)], window' = <<>>,
           replay' = replay, born' = born, seen' = seen
    PROVE  OnceInv'
<1>1. Own' = Own
  BY DEF Own
<1>2. \A u \in Tasks : hand'[u] = IF u = t THEN Flushing(d) ELSE hand[u]
  BY DEF BatchInv, OneMinutePerBatch, TypeOK
<1>3. /\ hand'[t].batch = window /\ hand'[t].doc = d
      /\ \A u \in Tasks \ {t} : hand'[u] = hand[u]
      /\ \A u \in Pending' : u \in Tasks /\ (u = t \/ u \in Pending)
  BY <1>2 DEF Flushing, Pending
<1>4. CountedOnce'
  <2>1. \A u \in Pending' : /\ IsInjective(hand'[u].batch)
                            /\ \A v \in Pending' \ {u} : Range(hand'[u].batch) \cap Range(hand'[v].batch) = {}
    BY <1>3 DEF OnceInv, CountedOnce
  <2>2. \A i \in Own : \A u \in Pending' : Range(replay[i]) \cap Range(hand'[u].batch) = {}
    BY <1>3 DEF OnceInv, CountedOnce
  <2>3. IsInjective(window') /\ Range(window') = {}
    BY EmptyBatch
  <2>4. \A i \in Own : /\ IsInjective(replay[i])
                       /\ \A j \in Own \ {i} : Range(replay[i]) \cap Range(replay[j]) = {}
    BY DEF OnceInv, CountedOnce
  <2> QED BY <1>1, <2>1, <2>2, <2>3, <2>4 DEF CountedOnce
<1>5. Marked'
  BY <1>1, <1>3, EmptyBatch DEF OnceInv, Marked
<1>6. ASSUME NEW s \in Sockets, hand'[s].doc # 0 PROVE Unplaced(s)'
  <2>1. Unplaced(s) /\ hand'[s].doc = hand[s].doc /\ s \in Tasks
    BY <1>3, <1>6, LoopIsNoSocket DEF OnceInv
  <2>2. \A u \in Sockets \ {s} : hand'[u].doc # hand'[s].doc
    BY <1>3, <1>6, <2>1, LoopIsNoSocket DEF Unplaced
  <2>3. \A u \in Pending' : hand'[s].doc \notin Range(hand'[u].batch)
    BY <1>3, <2>1 DEF Unplaced
  <2> QED BY <1>1, <2>1, <2>2, <2>3, EmptyBatch DEF Unplaced
<1>7. QED
  BY <1>4, <1>5, <1>6 DEF OnceInv

(* The document a task holds joins the window.                             *)
LEMMA OnceWhenDocumentJoins ==
    ASSUME BatchInv, OnceInv, NEW s \in Sockets, hand[s].doc \in Documents, s \notin Pending,
           hand' = [hand EXCEPT ![s] = Free], window' = Append(window, hand[s].doc),
           replay' = replay, born' = born, seen' = seen
    PROVE  OnceInv'
<1> DEFINE d == hand[s].doc
<1>1. Own' = Own
  BY DEF Own
<1>2. \A u \in Tasks : hand'[u] = IF u = s THEN Free ELSE hand[u]
  BY DEF BatchInv, OneMinutePerBatch, TypeOK
<1>3. /\ hand'[s].batch = <<>> /\ hand'[s].doc = 0
      /\ \A u \in Tasks \ {s} : hand'[u] = hand[u]
      /\ Pending' = Pending /\ s \notin Pending /\ Pending \subseteq Tasks
  BY <1>2, LoopIsNoSocket DEF Free, Pending
<1>4. d # 0 /\ Unplaced(s) /\ s \in Tasks /\ d \in seen
  BY Cursors, LoopIsNoSocket DEF OnceInv, Marked
<1>5. /\ Range(window') = Range(window) \cup {d}
      /\ IsInjective(window')
  <2>1. window \in Batches
    BY DEF BatchInv, OneMinutePerBatch, TypeOK, Batches
  <2> QED BY <1>4, <2>1, Appended DEF OnceInv, CountedOnce, Unplaced
<1>6. CountedOnce'
  <2>1. \A u \in Pending' : hand'[u] = hand[u] /\ d \notin Range(hand[u].batch)
    BY <1>3, <1>4 DEF Unplaced
  <2>2. \A i \in Own : d \notin Range(replay[i])
    BY <1>4 DEF Unplaced
  <2>3. \A u \in Pending :
          /\ IsInjective(hand[u].batch)
          /\ Range(hand[u].batch) \cap Range(window') = {}
          /\ \A v \in Pending \ {u} : Range(hand[u].batch) \cap Range(hand[v].batch) = {}
    BY <1>3, <1>5, <2>1 DEF OnceInv, CountedOnce
  <2>4. \A i \in Own :
          /\ IsInjective(replay[i])
          /\ Range(replay[i]) \cap Range(window') = {}
          /\ \A u \in Pending : Range(replay[i]) \cap Range(hand[u].batch) = {}
          /\ \A j \in Own \ {i} : Range(replay[i]) \cap Range(replay[j]) = {}
    BY <1>5, <2>2 DEF OnceInv, CountedOnce
  <2> QED BY <1>1, <1>3, <1>5, <2>1, <2>3, <2>4 DEF CountedOnce
<1>7. Marked'
  BY <1>1, <1>3, <1>4, <1>5, EmptyBatch DEF OnceInv, Marked
<1>8. ASSUME NEW u \in Sockets, hand'[u].doc # 0 PROVE Unplaced(u)'
  <2>1. u # s /\ u \in Tasks /\ hand'[u] = hand[u] /\ Unplaced(u) /\ hand[u].doc # d
    BY <1>3, <1>4, <1>8, LoopIsNoSocket DEF OnceInv, Unplaced
  <2>2. \A v \in Sockets \ {u} : hand'[v].doc # hand'[u].doc
    BY <1>3, <1>8, <2>1, LoopIsNoSocket DEF Unplaced
  <2>3. \A v \in Pending' : hand'[u].doc \notin Range(hand'[v].batch)
    BY <1>3, <2>1 DEF Unplaced
  <2> QED BY <1>1, <1>5, <2>1, <2>2, <2>3 DEF Unplaced
<1>9. QED
  BY <1>6, <1>7, <1>8 DEF OnceInv

LEMMA OnceWhenParsed ==
    ASSUME BatchInv, OnceInv, NEW s \in Sockets, Parse(s)
    PROVE  OnceInv'
<1> DEFINE d == Head(chain[s])
<1>1. d \in Documents /\ d # 0 /\ s \in Tasks
  BY Dequeued, Cursors, LoopIsNoSocket DEF Parse, BatchInv, OneMinutePerBatch, TypeOK, Batches
<1>2. window' = window /\ replay' = replay /\ born' = born /\ seen' = seen \cup {d}
  BY DEF Parse, storeVars, boundVars
<1>3. CASE d \in seen
  <2>1. hand' = hand /\ Pending' = Pending
    BY <1>3 DEF Parse, Pending
  <2> QED BY <1>2, <2>1, OnceWhenNothingIsAdded
<1>4. CASE d \notin seen
  <2>1. Own' = Own
    BY <1>2 DEF Own
  <2>2. hand' = [hand EXCEPT ![s] = Recording(d)] /\ hand[s].at = "idle"
    BY <1>4 DEF Parse
  <2>3. \A u \in Tasks : hand'[u] = IF u = s THEN Recording(d) ELSE hand[u]
    BY <2>2 DEF BatchInv, OneMinutePerBatch, TypeOK
  <2>4. /\ hand'[s].batch = <<>> /\ hand'[s].doc = d
        /\ \A u \in Tasks \ {s} : hand'[u] = hand[u]
        /\ Pending' = Pending /\ s \notin Pending /\ Pending \subseteq Tasks
    BY <2>2, <2>3, <1>1 DEF Recording, Pending
  <2>5. CountedOnce'
    <3>1. \A u \in Pending' : hand'[u] = hand[u]
      BY <2>4
    <3> QED BY <1>2, <2>1, <2>4, <3>1 DEF OnceInv, CountedOnce
  <2>6. Marked'
    BY <1>1, <1>2, <2>1, <2>4, EmptyBatch DEF OnceInv, Marked
  <2>7. ASSUME NEW u \in Sockets, hand'[u].doc # 0 PROVE Unplaced(u)'
    <3>1. \A v \in Pending' : v \in Tasks /\ hand'[v] = hand[v]
      BY <2>4
    <3>2. CASE u = s
      <4>1. \A v \in Tasks : hand[v].doc # d /\ d \notin Range(hand[v].batch)
        BY <1>1, <1>4 DEF OnceInv, Marked
      <4>2. d \notin Range(window) /\ \A i \in Own : d \notin Range(replay[i])
        BY <1>4 DEF OnceInv, Marked
      <4>3. \A v \in Sockets \ {s} : hand'[v].doc # d
        BY <2>4, <4>1, LoopIsNoSocket
      <4> QED BY <1>2, <2>1, <2>4, <3>1, <3>2, <4>1, <4>2, <4>3 DEF Unplaced
    <3>3. CASE u # s
      <4>1. u \in Tasks /\ hand'[u] = hand[u] /\ Unplaced(u) /\ hand[u].doc # d
        BY <1>1, <1>4, <2>4, <2>7, <3>3, LoopIsNoSocket DEF OnceInv, Marked
      <4>2. \A v \in Sockets \ {u} : hand'[v].doc # hand'[u].doc
        BY <2>4, <4>1, LoopIsNoSocket DEF Unplaced
      <4> QED BY <1>2, <2>1, <3>1, <4>1, <4>2, <2>4 DEF Unplaced
    <3> QED BY <3>2, <3>3
  <2> QED BY <2>5, <2>6, <2>7 DEF OnceInv
<1>5. QED
  BY <1>3, <1>4

(* A pending batch becomes a line of this process.                         *)
LEMMA OnceWhenWritten ==
    ASSUME BatchInv, OnceInv, NEW t \in Tasks, StoreReplay(t)
    PROVE  OnceInv'
<1> DEFINE b == hand[t].batch
           n == Len(replay) + 1
<1>1. t \in Pending /\ hand[t].at \in Stages
  BY DEF StoreReplay, Pending, Stages
<1>2. b \in Batches
  BY <1>1, StoringHand
<1>3. /\ Len(replay) \in Nat /\ Len(replay') = n /\ born \in Nat /\ born' = born
      /\ \A i \in 1 .. Len(replay) : replay'[i] = replay[i]
      /\ replay'[n] = b
  BY <1>2, LenProperties, AppendProperties
  DEF StoreReplay, boundVars, BatchInv, OneMinutePerBatch, TypeOK, Batches
<1>4. \A i \in Own' : /\ i = n \/ i \in Own
                      /\ replay'[i] = IF i = n THEN b ELSE replay[i]
                      /\ i \in Own => i # n
  BY <1>3 DEF Own
<1>5. window' = window /\ seen' = seen
  BY DEF StoreReplay
<1>6. \A u \in Tasks : /\ hand'[u].batch = hand[u].batch /\ hand'[u].doc = hand[u].doc
                       /\ u # t => hand'[u] = hand[u]
  BY DEF StoreReplay, BatchInv, OneMinutePerBatch, TypeOK, Hand
<1>7. \A u \in Pending' : u \in Tasks /\ u # t /\ u \in Pending /\ hand'[u].batch = hand[u].batch
  <2>1. hand'[t].at = "truncate"
    BY DEF StoreReplay, BatchInv, OneMinutePerBatch, TypeOK, Hand
  <2> QED BY <1>6, <2>1 DEF Pending
<1> HIDE DEF b, n
<1>8. /\ IsInjective(b) /\ Range(b) \cap Range(window) = {}
      /\ \A u \in Pending \ {t} : Range(b) \cap Range(hand[u].batch) = {}
      /\ \A i \in Own : Range(replay[i]) \cap Range(b) = {}
  BY <1>1 DEF OnceInv, CountedOnce, b
<1>9. CountedOnce'
  <2>1. IsInjective(window')
    BY <1>5 DEF OnceInv, CountedOnce
  <2>2. \A u \in Pending' :
          /\ IsInjective(hand'[u].batch)
          /\ Range(hand'[u].batch) \cap Range(window') = {}
          /\ \A v \in Pending' \ {u} : Range(hand'[u].batch) \cap Range(hand'[v].batch) = {}
    BY <1>5, <1>7 DEF OnceInv, CountedOnce
  <2>3. ASSUME NEW i \in Own'
        PROVE  /\ IsInjective(replay'[i])
               /\ Range(replay'[i]) \cap Range(window') = {}
               /\ \A u \in Pending' : Range(replay'[i]) \cap Range(hand'[u].batch) = {}
               /\ \A j \in Own' \ {i} : Range(replay'[i]) \cap Range(replay'[j]) = {}
    <3>1. CASE i = n
      <4>1. replay'[i] = b /\ \A j \in Own' \ {i} : j \in Own /\ replay'[j] = replay[j]
        BY <1>4, <3>1
      <4> QED BY <1>5, <1>7, <1>8, <4>1
    <3>2. CASE i # n
      <4>1. i \in Own /\ replay'[i] = replay[i]
        BY <1>4, <3>2
      <4>2. \A j \in Own' \ {i} : Range(replay'[i]) \cap Range(replay'[j]) = {}
        BY <1>4, <1>8, <4>1 DEF OnceInv, CountedOnce
      <4> QED BY <1>5, <1>7, <4>1, <4>2 DEF OnceInv, CountedOnce
    <3> QED BY <3>1, <3>2
  <2> QED BY <2>1, <2>2, <2>3 DEF CountedOnce
<1>10. Marked'
  <2>1. \A i \in Own' : Range(replay'[i]) \subseteq seen
    BY <1>4 DEF OnceInv, Marked, b
  <2> QED BY <1>5, <1>6, <2>1 DEF OnceInv, Marked
<1>11. ASSUME NEW s \in Sockets, hand'[s].doc # 0 PROVE Unplaced(s)'
  <2>1. Unplaced(s) /\ hand'[s].doc = hand[s].doc
    BY <1>6, <1>11, LoopIsNoSocket DEF OnceInv
  <2>2. \A i \in Own' : hand[s].doc \notin Range(replay'[i])
    BY <1>1, <1>4, <2>1 DEF Unplaced, b
  <2>3. \A u \in Sockets \ {s} : hand'[u].doc # hand'[s].doc
    BY <1>6, <2>1, LoopIsNoSocket DEF Unplaced
  <2> QED BY <1>5, <1>7, <2>1, <2>2, <2>3 DEF Unplaced
<1>12. QED
  BY <1>9, <1>10, <1>11 DEF OnceInv

LEMMA OnceInvInit == Init => OnceInv
<1> SUFFICES ASSUME Init PROVE OnceInv
  OBVIOUS
<1>1. Pending = {} /\ \A t \in Tasks : hand[t].doc = 0 /\ hand[t].batch = <<>>
  BY DEF Init, Pending, Free
<1>2. Own = {}
  BY EmptySeq DEF Init, Own
<1>3. QED
  BY <1>1, <1>2, EmptyBatch, LoopIsNoSocket DEF Init, OnceInv, CountedOnce, Marked

LEMMA OnceInvStep == BatchInv /\ OnceInv /\ [Next]_vars => OnceInv'
<1> SUFFICES ASSUME BatchInv, OnceInv, [Next]_vars PROVE OnceInv'
  OBVIOUS
<1>1. CASE /\ UNCHANGED <<window, hand, replay, born, seen>>
  <2>1. Pending' = Pending
    BY <1>1 DEF Pending
  <2> QED BY <1>1, <2>1, OnceWhenNothingIsAdded
<1>2. CASE \/ UNCHANGED vars \/ Connect \/ Shutdown
           \/ \E s \in Sockets : Receive(s) \/ SocketCloses(s)
  BY <1>1, <1>2 DEF vars, storeVars, boundVars, Connect, Shutdown, Receive, SocketCloses
<1>3. ASSUME NEW s \in Sockets, Parse(s) PROVE OnceInv'
  BY <1>3, OnceWhenParsed
<1>4. ASSUME NEW s \in Sockets, Recorded(s) PROVE OnceInv'
  <2>1. /\ hand[s].doc \in Documents /\ s \notin Pending /\ s \in Tasks
        /\ replay' = replay /\ born' = born /\ seen' = seen
    BY <1>4, LoopIsNoSocket, Cursors
    DEF Recorded, BatchInv, GoodHand, Hand, Free, Stages, Pending, storeVars, boundVars
  <2>2. CASE Fits(hand[s].doc)
    BY <1>4, <2>1, <2>2, OnceWhenDocumentJoins DEF Recorded
  <2>3. CASE ~ Fits(hand[s].doc)
    BY <1>4, <2>1, <2>3, OnceWhenWindowCloses DEF Recorded
  <2> QED BY <2>2, <2>3
<1>5. ASSUME NEW t \in Tasks, hand' = [hand EXCEPT ![t] = Free],
             UNCHANGED <<window, replay, born, seen>>
      PROVE  OnceInv'
  <2>1. \A u \in Tasks : hand'[u] = IF u = t THEN Free ELSE hand[u]
    BY <1>5 DEF BatchInv, OneMinutePerBatch, TypeOK
  <2>2. \A u \in Pending' : u \in Pending /\ hand'[u].batch = hand[u].batch
    BY <2>1 DEF Pending, Free
  <2>3. \A u \in Tasks : hand'[u].doc \in {0, hand[u].doc} /\ hand'[u].batch \in {<<>>, hand[u].batch}
    BY <2>1 DEF Free
  <2> QED BY <1>5, <2>2, <2>3, OnceWhenNothingIsAdded
<1>6. ASSUME NEW s \in Sockets, RecordingFails(s) \/ AllSinksFail(s) PROVE OnceInv'
  BY <1>5, <1>6, LoopIsNoSocket DEF RecordingFails, AllSinksFail, Throw, storeVars, boundVars
<1>7. ASSUME NEW t \in Tasks, StorePostgres(t) \/ ReplayFails(t) \/ TruncateCheckpoint(t)
      PROVE  OnceInv'
  <2>1. UNCHANGED <<window, replay, born, seen>>
    BY <1>7 DEF StorePostgres, ReplayFails, TruncateCheckpoint, storeVars, boundVars
  <2>2. \A u \in Tasks : hand'[u].doc = hand[u].doc /\ hand'[u].batch = hand[u].batch
    BY <1>7, StageChanges
  <2>3. \A u \in Pending' : u \in Pending
    <3>1. hand'[t].at \in {"postgres", "replay"} => hand[t].at = "postgres"
      BY <1>7, StageChanges DEF StorePostgres, ReplayFails, TruncateCheckpoint
    <3> QED BY <1>7, <3>1, StageChanges DEF Pending
  <2>4. \A u \in Pending' : hand'[u].batch = hand[u].batch
    BY <2>2 DEF Pending
  <2> QED BY <2>1, <2>2, <2>3, <2>4, OnceWhenNothingIsAdded
<1>8. ASSUME NEW t \in Tasks, StoreReplay(t) PROVE OnceInv'
  BY <1>8, OnceWhenWritten
<1>9. ASSUME NEW s \in Sockets, CheckpointAndAdd(s) PROVE OnceInv'
  <2>1. /\ hand[s].at \in Stages /\ s \in Tasks /\ s # Loop /\ s \notin Pending
        /\ replay' = replay /\ born' = born /\ seen' = seen
    BY <1>9, LoopIsNoSocket DEF CheckpointAndAdd, Stages, Pending, boundVars
  <2>2. hand[s].doc \in Documents
    BY <2>1, StoringHand DEF Hand
  <2>3. CASE Fits(hand[s].doc)
    BY <1>9, <2>1, <2>2, <2>3, OnceWhenDocumentJoins DEF CheckpointAndAdd
  <2>4. CASE ~ Fits(hand[s].doc)
    BY <1>5, <1>9, <2>1, <2>4 DEF CheckpointAndAdd, Throw
  <2> QED BY <2>3, <2>4
<1>10. CASE CheckpointAndLoop
  BY <1>5, <1>10, LoopIsNoSocket DEF CheckpointAndLoop, boundVars
<1>11. CASE Leave
  <2>1. CASE window = <<>>
    BY <1>1, <1>11, <2>1 DEF Leave, storeVars, boundVars
  <2>2. CASE window # <<>>
    <3>1. /\ hand' = [hand EXCEPT ![Loop] = Flushing(0)] /\ window' = <<>>
          /\ replay' = replay /\ born' = born /\ seen' = seen
      BY <1>11, <2>2 DEF Leave, storeVars, boundVars
    <3> QED BY <3>1, LoopIsNoSocket, OnceWhenWindowCloses
  <2> QED BY <2>1, <2>2
<1>12. CASE Crash \/ AllSinksFailInLoop
  <2>1. Die
    BY <1>12 DEF Crash, AllSinksFailInLoop
  <2>2. \A t \in Tasks : hand'[t] = Free
    BY <2>1 DEF Die
  <2>3. Pending' = {} /\ \A t \in Tasks : hand'[t].doc = 0 /\ hand'[t].batch = <<>>
    BY <2>2 DEF Pending, Free
  <2>4. Len(replay) \in Nat
    BY LenProperties DEF BatchInv, OneMinutePerBatch, TypeOK
  <2>5. Own' = {}
    BY <2>1, <2>4 DEF Die, storeVars, Own
  <2> QED BY <2>1, <2>3, <2>5, EmptyBatch, LoopIsNoSocket DEF Die, OnceInv, CountedOnce, Marked
<1>13. QED
  BY <1>2, <1>3, <1>4, <1>6, <1>7, <1>8, <1>9, <1>10, <1>11, <1>12 DEF Next

(***************************************************************************)
(* One process counts a document once, however often Jetstream sends it:   *)
(* the deduplicator of parser.ts holds across the promise chains that      *)
(* outlive their sockets and across every interleaving of flushes.         *)
(***************************************************************************)
THEOREM NeverCountedTwice == Spec => []CountedOnce
<1>1. OnceInv => CountedOnce
  BY DEF OnceInv
<1>2. QED
  BY <1>1, BatchInvAlways, OnceInvInit, OnceInvStep, PTL DEF Spec

-----------------------------------------------------------------------------
(* Nothing is skipped.                                                     *)

(* What a task holds; what is in memory, and so kept.                      *)
HoldOf(h) == ({h.doc} \cup Range(h.batch)) \ {0}

LEMMA Holding ==
    /\ HeldBy(Tasks) = UNION {HoldOf(hand[t]) : t \in Tasks}
    /\ HeldBy(Tasks)' = UNION {HoldOf(hand'[t]) : t \in Tasks}
    /\ \A t \in Tasks : HeldBy({t}) = HoldOf(hand[t])
    /\ HoldOf(Free) = {}
<1>1. HoldOf(Free) = {}
  BY EmptyBatch DEF HoldOf, Free
<1>2. QED
  BY <1>1 DEF HeldBy, HoldOf

LEMMA Memory ==
    /\ \A x : x \in InMemory <=> \/ x \in Range(window) \/ x \in HeldBy(Tasks)
                                 \/ \E s \in Sockets : x \in Range(chain[s])
    /\ \A x : x \in InMemory' <=> \/ x \in Range(window') \/ x \in HeldBy(Tasks)'
                                  \/ \E s \in Sockets : x \in Range(chain'[s])
BY DEF InMemory

LEMMA SafeGrows ==
    ASSUME database' = database, replay' = replay, forfeited \subseteq forfeited'
    PROVE  Safe \subseteq Safe' /\ Stored' = Stored
BY DEF Safe, Stored, Replayed

(* What leaves memory is safe, and nothing new arrives.                    *)
LEMMA KeptThroughStep ==
    ASSUME GapInv, Safe \subseteq Safe', InMemory' \subseteq InMemory,
           InMemory \subseteq InMemory' \cup Safe', next' = next,
           \A s \in Sockets : receiving'[s] => receiving[s]
    PROVE  NoHole' /\ SocketsKeep'
<1>1. Kept \subseteq Kept'
  BY DEF Kept
<1>2. QED
  BY <1>1 DEF GapInv, NoHole, SocketsKeep

LEMMA GapThroughStep ==
    ASSUME GapInv, Safe \subseteq Safe', checkpoint' \in {checkpoint, Unreadable}
    PROVE  NoGap'
BY DEF GapInv, NoGap, Safe, ResumeAt

LEMMA StoredThroughStep ==
    ASSUME GapInv, Safe \subseteq Safe',
           \A t \in Tasks : \/ hand'[t] = Free \/ hand'[t] = hand[t]
                            \/ hand'[t].at \in {"idle", "recording", "postgres"}
    PROVE  BatchStored'
BY DEF GapInv, BatchStored, Durable, Free

(* A task changes what it holds.                                           *)
LEMMA HeldChange ==
    ASSUME BatchInv, NEW t \in Tasks, NEW h, hand' = [hand EXCEPT ![t] = h]
    PROVE  /\ hand'[t] = h /\ \A u \in Tasks \ {t} : hand'[u] = hand[u]
           /\ HeldBy(Tasks) \subseteq HeldBy(Tasks)' \cup HoldOf(hand[t])
           /\ HeldBy(Tasks)' \subseteq HeldBy(Tasks) \cup HoldOf(h)
           /\ HoldOf(h) \subseteq HeldBy(Tasks)' /\ HoldOf(hand[t]) \subseteq HeldBy(Tasks)
<1>1. \A u \in Tasks : hand'[u] = IF u = t THEN h ELSE hand[u]
  BY DEF BatchInv, OneMinutePerBatch, TypeOK
<1>2. QED
  BY <1>1, Holding

LEMMA GapOfConnect ==
    ASSUME BatchInv, GapInv, Connect
    PROVE  GapInv'
<1>1. /\ UNCHANGED <<window, chain, hand, database, replay, checkpoint, seen>>
      /\ forfeited \subseteq forfeited'
  BY DEF Connect, Forfeit, storeVars
<1>2. InMemory' = InMemory /\ HeldBy(Tasks)' = HeldBy(Tasks)
  BY <1>1 DEF InMemory, HeldBy
<1>3. Safe \subseteq Safe'
  BY <1>1, SafeGrows
<1>4. Kept \subseteq Kept'
  BY <1>2, <1>3 DEF Kept
<1>5. SeenKept' /\ BatchStored' /\ NoHole'
  BY <1>1, <1>2, <1>3, <1>4 DEF GapInv, SeenKept, BatchStored, NoHole
<1>6. NoGap'
  BY <1>1, <1>3, GapThroughStep
<1>7. SocketsKeep'
  <2> DEFINE n == current + 1
  <2>1. PICK c \in Resumes :
           /\ next' = [next EXCEPT ![n] = c]
           /\ Forfeit(IF checkpoint = Unreadable THEN (1 .. c - 1) \ InMemory ELSE {})
    BY DEF Connect
  <2>2. n \in Sockets /\ c \in Nat
    <3>1. n \in Sockets
      BY StreamAssumption DEF Connect, Sockets, BatchInv, OneMinutePerBatch, TypeOK
    <3>2. c \in Nat
      BY StreamAssumption, Cursors DEF Resumes, ResumeAt, BatchInv, OneMinutePerBatch, TypeOK
    <3> QED BY <3>1, <3>2
  <2> HIDE DEF n
  <2>3. next'[n] = c /\ \A s \in Sockets \ {n} : next'[s] = next[s]
    BY <2>1, <2>2 DEF BatchInv, OneMinutePerBatch, TypeOK
  <2>4. \A s \in Sockets \ {n} : receiving'[s] = receiving[s]
    BY DEF Connect, BatchInv, OneMinutePerBatch, TypeOK, n
  <2>5. ASSUME NEW d \in Documents, d < c PROVE d \in Kept'
    <3>1. d \in Nat /\ d >= 1
      BY Cursors
    <3>2. CASE checkpoint = Unreadable
      <4>1. d \in 1 .. c - 1
        BY <2>2, <2>5, <3>1
      <4> QED BY <1>2, <2>1, <3>2, <4>1 DEF Forfeit, Kept, Safe
    <3>3. CASE checkpoint # Unreadable
      <4>1. c = ResumeAt(checkpoint)
        BY <3>3 DEF Resumes
      <4>2. ~ (d >= ResumeAt(checkpoint))
        BY <2>2, <2>5, <3>1, <4>1
      <4>3. d \in Safe
        BY <3>3, <4>2 DEF GapInv, NoGap, Safe
      <4> QED BY <1>4, <4>3 DEF Kept
    <3> QED BY <3>2, <3>3
  <2> QED BY <1>4, <2>2, <2>3, <2>4, <2>5 DEF GapInv, SocketsKeep
<1>8. LoopHand'
  BY <1>1 DEF Connect, GapInv, LoopHand
<1>9. QED
  BY <1>5, <1>6, <1>7, <1>8 DEF GapInv

LEMMA GapOfReceive ==
    ASSUME BatchInv, GapInv, NEW s \in Sockets, Receive(s)
    PROVE  GapInv'
<1> DEFINE n == next[s]
<1>1. /\ UNCHANGED <<loop, receiving, window, hand, database, replay, checkpoint, seen, forfeited>>
      /\ n \in Documents /\ n \in Nat /\ receiving[s]
  BY Cursors DEF Receive, storeVars, loopVars
<1>2. Safe \subseteq Safe' /\ HeldBy(Tasks)' = HeldBy(Tasks)
  BY <1>1, SafeGrows DEF HeldBy
<1>3. /\ chain[s] \in Batches /\ chain'[s] = Append(chain[s], n)
      /\ \A u \in Sockets \ {s} : chain'[u] = chain[u]
      /\ next'[s] = n + 1
      /\ \A u \in Sockets \ {s} : next'[u] = next[u]
  BY DEF Receive, BatchInv, OneMinutePerBatch, TypeOK, Batches
<1>4. Range(chain'[s]) = Range(chain[s]) \cup {n}
  BY <1>1, <1>3, Appended
<1>5. \A x : x \in InMemory' <=> x \in InMemory \/ x = n
  BY <1>1, <1>2, <1>3, <1>4, Memory
<1>6. Kept \subseteq Kept' /\ n \in Kept'
  BY <1>2, <1>5 DEF Kept
<1> HIDE DEF n
<1>7. NoHole'
  <2>1. ASSUME NEW d \in Documents, d < n PROVE d \in Kept'
    BY <1>1, <1>6, <2>1 DEF GapInv, SocketsKeep, n
  <2> QED BY <1>5, <1>6, <2>1 DEF GapInv, NoHole
<1>8. SocketsKeep'
  <2>1. ASSUME NEW d \in Documents, d < n + 1 PROVE d \in Kept'
    <3>1. d < n \/ d = n
      BY <1>1, <2>1, Cursors
    <3> QED BY <1>1, <1>6, <3>1 DEF GapInv, SocketsKeep, n
  <2> QED BY <1>1, <1>3, <1>6, <2>1 DEF GapInv, SocketsKeep
<1>9. NoGap' /\ SeenKept' /\ BatchStored' /\ LoopHand'
  BY <1>1, <1>2, GapThroughStep DEF GapInv, SeenKept, BatchStored, LoopHand
<1>10. QED
  BY <1>7, <1>8, <1>9 DEF GapInv

(* Nothing moves but sockets that close and the state of the loop.         *)
LEMMA GapOfClosing ==
    ASSUME BatchInv, GapInv, \/ UNCHANGED vars
                             \/ Shutdown
                             \/ \E s \in Sockets : SocketCloses(s)
    PROVE  GapInv'
<1>1. /\ UNCHANGED <<next, chain, window, hand, database, replay, checkpoint, seen, forfeited>>
      /\ loop' = loop \/ loop # "flushing"
      /\ \A s \in Sockets : receiving'[s] => receiving[s]
  BY DEF vars, loopVars, socketVars, storeVars, Shutdown, SocketCloses,
         BatchInv, OneMinutePerBatch, TypeOK
<1>2. InMemory' = InMemory /\ HeldBy(Tasks)' = HeldBy(Tasks) /\ Safe \subseteq Safe'
  BY <1>1, SafeGrows DEF InMemory, HeldBy
<1>3. NoHole' /\ SocketsKeep' /\ NoGap'
  BY <1>1, <1>2, KeptThroughStep, GapThroughStep
<1>4. QED
  BY <1>1, <1>2, <1>3 DEF GapInv, SeenKept, BatchStored, LoopHand

LEMMA GapOfParse ==
    ASSUME BatchInv, GapInv, NEW s \in Sockets, Parse(s)
    PROVE  GapInv'
<1> DEFINE d == Head(chain[s])
<1>1. /\ UNCHANGED <<loop, receiving, next, window, database, replay, checkpoint, forfeited>>
      /\ seen' = seen \cup {d} /\ hand[s].at = "idle" /\ s \in Tasks /\ s # Loop
  BY LoopIsNoSocket DEF Parse, storeVars, loopVars
<1>2. /\ d \in Documents /\ d # 0
      /\ Range(chain[s]) = {d} \cup Range(chain'[s])
      /\ \A u \in Sockets \ {s} : chain'[u] = chain[u]
  <2>1. chain[s] \in Batches /\ chain[s] # <<>> /\ chain'[s] = Tail(chain[s])
    BY DEF Parse, BatchInv, OneMinutePerBatch, TypeOK, Batches
  <2>2. \A u \in Sockets \ {s} : chain'[u] = chain[u]
    BY DEF Parse, BatchInv, OneMinutePerBatch, TypeOK
  <2> QED BY <2>1, <2>2, Dequeued, Cursors
<1>3. hand[s] = Free
  BY <1>1 DEF BatchInv, GoodHand, Stages
<1>4. Safe \subseteq Safe'
  BY <1>1, SafeGrows
<1> HIDE DEF d
<1>5. CASE d \in seen
  <2>1. hand' = hand /\ seen' = seen /\ HeldBy(Tasks)' = HeldBy(Tasks)
    BY <1>1, <1>5 DEF Parse, HeldBy, d
  <2>2. InMemory' \subseteq InMemory
    BY <1>1, <1>2, <2>1, Memory
  <2>3. InMemory \subseteq InMemory' \cup {d}
    BY <1>1, <1>2, <2>1, Memory
  <2>4. d \in Safe' \cup InMemory'
    BY <1>1, <1>4, <1>5, <2>1, Memory DEF GapInv, SeenKept
  <2>5. NoHole' /\ SocketsKeep' /\ NoGap'
    BY <1>1, <1>4, <2>2, <2>3, <2>4, KeptThroughStep, GapThroughStep
  <2> QED BY <1>1, <1>4, <2>1, <2>5 DEF GapInv, SeenKept, BatchStored, LoopHand
<1>6. CASE d \notin seen
  <2>1. hand' = [hand EXCEPT ![s] = Recording(d)]
    BY <1>6 DEF Parse, d
  <2>2. /\ hand'[s] = Recording(d) /\ \A u \in Tasks \ {s} : hand'[u] = hand[u]
        /\ HeldBy(Tasks) \subseteq HeldBy(Tasks)' \cup HoldOf(Free)
        /\ HeldBy(Tasks)' \subseteq HeldBy(Tasks) \cup HoldOf(Recording(d))
        /\ HoldOf(Recording(d)) \subseteq HeldBy(Tasks)'
    BY <1>1, <1>3, <2>1, HeldChange
  <2>3. HoldOf(Recording(d)) = {d} /\ HoldOf(Free) = {}
    BY <1>2, EmptyBatch, Holding DEF HoldOf, Recording
  <2>4. InMemory' \subseteq InMemory /\ InMemory \subseteq InMemory'
    BY <1>1, <1>2, <2>2, <2>3, Memory
  <2>5. NoHole' /\ SocketsKeep' /\ NoGap'
    BY <1>1, <1>4, <2>4, KeptThroughStep, GapThroughStep
  <2>6. SeenKept'
    BY <1>1, <1>4, <2>2, <2>3 DEF GapInv, SeenKept
  <2>7. BatchStored'
    BY <1>4, <2>2, StoredThroughStep DEF Recording
  <2> QED BY <1>1, <2>2, <2>5, <2>6, <2>7, LoopIsNoSocket DEF GapInv, LoopHand
<1>7. QED
  BY <1>5, <1>6

LEMMA GapOfRecorded ==
    ASSUME BatchInv, GapInv, NEW s \in Sockets, Recorded(s)
    PROVE  GapInv'
<1> DEFINE d == hand[s].doc
<1>1. /\ UNCHANGED <<loop, receiving, next, chain, seen, database, replay, checkpoint, forfeited>>
      /\ d \in Documents /\ d # 0 /\ s \in Tasks /\ s # Loop /\ hand[s].batch = <<>>
  <2>1. s \in Tasks /\ s # Loop /\ hand[s].at = "recording"
    BY LoopIsNoSocket DEF Recorded
  <2>2. d \in Documents /\ d # 0 /\ hand[s].batch = <<>>
    BY <2>1, Cursors DEF BatchInv, GoodHand, Hand, Free, Stages
  <2> QED BY <2>1, <2>2 DEF Recorded, storeVars, loopVars, socketVars
<1>2. HoldOf(hand[s]) = {d} /\ Safe \subseteq Safe' /\ window \in Batches
  BY <1>1, SafeGrows, EmptyBatch DEF HoldOf, BatchInv, OneMinutePerBatch, TypeOK, Batches
<1>3. CASE Fits(d)
  <2>1. hand' = [hand EXCEPT ![s] = Free] /\ window' = Append(window, d)
    BY <1>3 DEF Recorded
  <2>2. Range(window') = Range(window) \cup {d}
    BY <1>1, <1>2, <2>1, Appended
  <2>3. /\ hand'[s] = Free /\ \A u \in Tasks \ {s} : hand'[u] = hand[u]
        /\ HeldBy(Tasks) \subseteq HeldBy(Tasks)' \cup {d}
        /\ HeldBy(Tasks)' \subseteq HeldBy(Tasks) /\ d \in HeldBy(Tasks)
    BY <1>1, <1>2, <2>1, HeldChange, Holding
  <2>4. InMemory' \subseteq InMemory /\ InMemory \subseteq InMemory'
    BY <1>1, <2>2, <2>3, Memory
  <2>5. NoHole' /\ SocketsKeep' /\ NoGap'
    BY <1>1, <1>2, <2>4, KeptThroughStep, GapThroughStep
  <2>6. SeenKept'
    BY <1>1, <1>2, <2>2, <2>3 DEF GapInv, SeenKept
  <2>7. BatchStored'
    BY <1>2, <2>3, StoredThroughStep
  <2> QED BY <1>1, <2>3, <2>5, <2>6, <2>7, LoopIsNoSocket DEF GapInv, LoopHand
<1>4. CASE ~ Fits(d)
  <2>1. hand' = [hand EXCEPT ![s] = Flushing(d)] /\ window' = <<>>
    BY <1>4 DEF Recorded
  <2>2. HoldOf(Flushing(d)) = Range(window) \cup {d} /\ Range(window') = {}
    BY <1>1, <1>2, <2>1, EmptyBatch, BatchElements, Cursors DEF HoldOf, Flushing
  <2>3. /\ hand'[s] = Flushing(d) /\ \A u \in Tasks \ {s} : hand'[u] = hand[u]
        /\ HeldBy(Tasks) \subseteq HeldBy(Tasks)' \cup {d}
        /\ HeldBy(Tasks)' \subseteq HeldBy(Tasks) \cup Range(window) \cup {d}
        /\ Range(window) \cup {d} \subseteq HeldBy(Tasks)' /\ d \in HeldBy(Tasks)
    <3>1. /\ hand'[s] = Flushing(d) /\ \A u \in Tasks \ {s} : hand'[u] = hand[u]
          /\ HeldBy(Tasks) \subseteq HeldBy(Tasks)' \cup HoldOf(hand[s])
          /\ HeldBy(Tasks)' \subseteq HeldBy(Tasks) \cup HoldOf(Flushing(d))
          /\ HoldOf(Flushing(d)) \subseteq HeldBy(Tasks)' /\ HoldOf(hand[s]) \subseteq HeldBy(Tasks)
      BY <1>1, <2>1, HeldChange
    <3> QED BY <1>2, <2>2, <3>1
  <2>4. InMemory' \subseteq InMemory /\ InMemory \subseteq InMemory'
    BY <1>1, <2>2, <2>3, Memory
  <2>5. NoHole' /\ SocketsKeep' /\ NoGap'
    BY <1>1, <1>2, <2>4, KeptThroughStep, GapThroughStep
  <2>6. SeenKept'
    BY <1>1, <1>2, <2>3 DEF GapInv, SeenKept
  <2>7. BatchStored'
    BY <1>2, <2>3, StoredThroughStep DEF Flushing
  <2> QED BY <1>1, <2>3, <2>5, <2>6, <2>7, LoopIsNoSocket DEF GapInv, LoopHand
<1>5. QED
  BY <1>3, <1>4

LEMMA GapOfThrow ==
    ASSUME BatchInv, GapInv, NEW s \in Sockets, RecordingFails(s) \/ AllSinksFail(s)
    PROVE  GapInv'
<1>1. /\ UNCHANGED <<loop, receiving, next, chain, seen, window, database, replay, checkpoint>>
      /\ hand' = [hand EXCEPT ![s] = Free] /\ s \in Tasks /\ s # Loop
  BY LoopIsNoSocket DEF RecordingFails, AllSinksFail, Throw, storeVars, loopVars
<1>2. HoldOf(hand[s]) \subseteq forfeited' /\ forfeited \subseteq forfeited'
  <2>1. CASE RecordingFails(s)
    <3>1. hand[s].batch = <<>>
      BY <1>1, <2>1 DEF RecordingFails, BatchInv, GoodHand, Free, Stages
    <3> QED BY <2>1, <3>1, EmptyBatch DEF RecordingFails, Forfeit, HoldOf
  <2>2. CASE AllSinksFail(s)
    BY <1>1, <2>2, Holding DEF AllSinksFail, Forfeit
  <2> QED BY <2>1, <2>2
<1>3. Safe \subseteq Safe' /\ HoldOf(hand[s]) \subseteq Safe'
  BY <1>1, <1>2, SafeGrows DEF Safe
<1>4. /\ hand'[s] = Free /\ \A u \in Tasks \ {s} : hand'[u] = hand[u]
      /\ HeldBy(Tasks) \subseteq HeldBy(Tasks)' \cup HoldOf(hand[s])
      /\ HeldBy(Tasks)' \subseteq HeldBy(Tasks)
  BY <1>1, HeldChange, Holding
<1>5. InMemory' \subseteq InMemory /\ InMemory \subseteq InMemory' \cup Safe'
  BY <1>1, <1>3, <1>4, Memory
<1>6. NoHole' /\ SocketsKeep' /\ NoGap'
  BY <1>1, <1>3, <1>5, KeptThroughStep, GapThroughStep
<1>7. SeenKept'
  BY <1>1, <1>3, <1>4 DEF GapInv, SeenKept
<1>8. BatchStored'
  BY <1>3, <1>4, StoredThroughStep
<1>9. QED
  BY <1>1, <1>4, <1>6, <1>7, <1>8, LoopIsNoSocket DEF GapInv, LoopHand

(* A replaced row set gives up only what no line and no batch still has.   *)
LEMMA StoringKeeps ==
    ASSUME BatchInv, NEW t \in Tasks,
           StorePostgres(t) \/ StoreReplay(t) \/ ReplayFails(t) \/ TruncateCheckpoint(t)
    PROVE  /\ Safe \subseteq Safe'
           /\ StorePostgres(t) /\ hand'[t].refused = 0 => Range(hand[t].batch) \subseteq Safe'
           /\ StoreReplay(t) => Range(hand[t].batch) \subseteq Safe'
<1> DEFINE b == hand[t].batch
           m == Minute(b)
<1>1. hand[t].at \in Stages
  BY StageChanges
<1>2. b \in Batches /\ m \in Minutes /\ hand[t] \in Hand
  BY <1>1, StoringHand
<1>3. CASE ReplayFails(t) \/ TruncateCheckpoint(t)
  <2>1. UNCHANGED <<database, replay, forfeited>> /\ ~ StorePostgres(t)
    BY <1>3 DEF StorePostgres, ReplayFails, TruncateCheckpoint, storeVars
  <2>2. ~ StoreReplay(t)
    <3>1. /\ Len(replay) \in Nat /\ Len(Append(replay, b)) = Len(replay) + 1
      BY <1>2, LenProperties, AppendProperties DEF BatchInv, OneMinutePerBatch, TypeOK, Batches
    <3>2. Append(replay, b) # replay
      BY <3>1
    <3> QED BY <2>1, <3>2 DEF StoreReplay
  <2> QED BY <2>1, <2>2, SafeGrows
<1>4. CASE StoreReplay(t)
  <2>1. /\ UNCHANGED <<database, forfeited>> /\ replay' = Append(replay, b)
        /\ hand[t].at = "replay"
    BY <1>4 DEF StoreReplay
  <2>2. replay \in Seq(Batches)
    BY DEF BatchInv, OneMinutePerBatch, TypeOK, Batches
  <2>3. /\ Len(replay) \in Nat /\ DOMAIN replay = 1 .. Len(replay)
        /\ DOMAIN replay' = 1 .. Len(replay) + 1
        /\ \A i \in 1 .. Len(replay) : replay'[i] = replay[i]
        /\ replay'[Len(replay) + 1] = b
    BY <1>2, <2>1, <2>2, LenProperties, AppendProperties
  <2>4. \A i \in DOMAIN replay : i \in DOMAIN replay' /\ Range(replay'[i]) = Range(replay[i])
    BY <2>3
  <2>5. Range(b) = Range(replay'[Len(replay) + 1]) /\ Len(replay) + 1 \in DOMAIN replay'
    BY <2>3
  <2>6. Replayed \subseteq Replayed' /\ Range(b) \subseteq Replayed'
    BY <2>4, <2>5 DEF Replayed
  <2>7. ~ StorePostgres(t)
    BY <2>1 DEF StorePostgres
  <2> QED BY <2>1, <2>6, <2>7 DEF Safe, Stored
<1>5. CASE StorePostgres(t)
  <2>1. replay' = replay /\ hand[t].at = "postgres" /\ ~ StoreReplay(t) /\ Replayed' = Replayed
    BY <1>5 DEF StorePostgres, StoreReplay, Replayed
  <2>2. CASE database' = [database EXCEPT ![m] = b]
             /\ Forfeit(Range(database[m]) \ (Replayed \cup Range(b)))
    <3>1. /\ database'[m] = b
          /\ \A n \in Minutes \ {m} : database'[n] = database[n]
      BY <1>2, <2>2 DEF BatchInv, OneMinutePerBatch, TypeOK
    <3>2. Range(b) \subseteq Stored'
      BY <1>2, <3>1 DEF Stored
    <3>3. \A x \in Range(database[m]) : x \in Safe'
      BY <2>1, <2>2, <3>2 DEF Forfeit, Safe, Stored
    <3>4. \A n \in Minutes \ {m} : Range(database[n]) \subseteq Stored'
      BY <3>1 DEF Stored
    <3>5. Stored \subseteq Safe'
      BY <2>1, <3>3, <3>4 DEF Stored, Safe
    <3> QED BY <2>1, <2>2, <3>2, <3>5 DEF Safe, Forfeit
  <2>3. CASE UNCHANGED <<database, forfeited>>
             /\ hand' = [hand EXCEPT ![t].at = "replay", ![t].refused = 1]
    <3>1. hand'[t].refused = 1
      BY <1>2, <2>3 DEF BatchInv, OneMinutePerBatch, TypeOK, Hand
    <3> QED BY <2>1, <2>3, <3>1, SafeGrows
  <2> QED BY <1>5, <2>2, <2>3 DEF StorePostgres
<1>6. QED
  BY <1>3, <1>4, <1>5

LEMMA GapOfStages ==
    ASSUME BatchInv, GapInv, NEW t \in Tasks,
           StorePostgres(t) \/ StoreReplay(t) \/ ReplayFails(t) \/ TruncateCheckpoint(t)
    PROVE  GapInv'
<1>1. /\ UNCHANGED <<loop, receiving, next, chain, seen, window>>
      /\ checkpoint' \in {checkpoint, Unreadable}
  BY DEF StorePostgres, StoreReplay, ReplayFails, TruncateCheckpoint, socketVars, loopVars, storeVars
<1>2. \A u \in Tasks : /\ hand'[u].doc = hand[u].doc /\ hand'[u].batch = hand[u].batch
                       /\ u # t => hand'[u] = hand[u]
  BY StageChanges
<1>3. HeldBy(Tasks)' = HeldBy(Tasks)
  BY <1>2 DEF HeldBy
<1>4. InMemory' = InMemory
  BY <1>1, <1>3 DEF InMemory
<1>5. Safe \subseteq Safe'
  BY StoringKeeps
<1>6. NoHole' /\ SocketsKeep' /\ NoGap' /\ SeenKept'
  BY <1>1, <1>3, <1>4, <1>5, KeptThroughStep, GapThroughStep DEF GapInv, SeenKept
<1>7. BatchStored'
  <2>1. Durable(hand'[t]) => Range(hand[t].batch) \subseteq Safe'
    <3>1. CASE StorePostgres(t)
      <4>1. hand'[t].at = "replay"
        BY <3>1, StageChanges
      <4> QED BY <3>1, <4>1, StoringKeeps DEF Durable
    <3>2. CASE StoreReplay(t)
      BY <3>2, StoringKeeps
    <3>3. CASE ReplayFails(t) \/ TruncateCheckpoint(t)
      <4>1. Durable(hand[t])
        BY <3>3 DEF ReplayFails, TruncateCheckpoint, Durable
      <4> QED BY <1>5, <4>1 DEF GapInv, BatchStored
    <3> QED BY <3>1, <3>2, <3>3
  <2>2. \A u \in Tasks \ {t} : Durable(hand'[u]) => Range(hand[u].batch) \subseteq Safe'
    BY <1>2, <1>5 DEF GapInv, BatchStored
  <2> QED BY <1>2, <2>1, <2>2 DEF BatchStored
<1>8. LoopHand'
  <2>1. hand[Loop] = Free => hand'[Loop] = Free
    <3>1. hand[t] # Free
      <4>1. hand[t].at \in Stages
        BY StageChanges
      <4> QED BY <4>1 DEF Stages, Free
    <3> QED BY <1>2, <3>1, LoopIsNoSocket
  <2> QED BY <1>1, <2>1 DEF GapInv, LoopHand
<1>9. QED
  BY <1>6, <1>7, <1>8 DEF GapInv

(* A checkpoint passes nothing that is not stored or given up.             *)
LEMMA CheckpointPasses ==
    ASSUME BatchInv, GapInv, NEW t \in Tasks, hand[t].at = "content",
           checkpoint' = Cursor(hand[t].batch), Overtaken(t) \subseteq Safe', Safe \subseteq Safe'
    PROVE  NoGap'
<1> DEFINE b == hand[t].batch
           c == Cursor(b)
<1>1. b \in Batches /\ b # <<>>
  BY StoringHand DEF Stages
<1>2. c \in Range(b) /\ c \in Documents /\ Range(b) \subseteq Documents /\ Range(b) \subseteq Safe
  BY <1>1, CursorOfBatch, BatchElements DEF GapInv, BatchStored, Durable
<1>3. c \in InMemory
  <2>1. c \in HoldOf(hand[t])
    BY <1>2, Cursors DEF HoldOf
  <2> QED BY <2>1, Holding, Memory
<1> HIDE DEF c
<1>4. ASSUME NEW d \in Documents, d <= c PROVE d \in Safe'
  <2>1. d \in Kept
    <3>1. d = c \/ d < c
      BY <1>2, <1>4, Cursors
    <3> QED BY <1>3, <3>1 DEF GapInv, NoHole, Kept
  <2>2. d \in InMemory \ Range(b) => d \in Overtaken(t)
    BY <1>4 DEF Overtaken, c
  <2> QED BY <1>2, <2>1, <2>2 DEF Kept
<1>5. ASSUME NEW d \in Documents, d \notin Safe' PROVE d >= ResumeAt(c)
  <2>1. d \in Nat /\ d >= 1 /\ c \in Nat /\ ~ (d <= c)
    BY <1>2, <1>4, <1>5, Cursors
  <2>2. ResumeAt(c) <= c \/ ResumeAt(c) = 1
    BY <2>1, StreamAssumption DEF ResumeAt
  <2>3. ResumeAt(c) \in Int
    BY <2>1, StreamAssumption DEF ResumeAt
  <2> QED BY <2>1, <2>2, <2>3
<1>6. QED
  BY <1>5 DEF NoGap, Safe, c

LEMMA GapOfCheckpointAndAdd ==
    ASSUME BatchInv, GapInv, NEW s \in Sockets, CheckpointAndAdd(s)
    PROVE  GapInv'
<1> DEFINE d == hand[s].doc
<1>1. /\ UNCHANGED <<loop, receiving, next, chain, seen, database, replay>>
      /\ hand' = [hand EXCEPT ![s] = Free] /\ s \in Tasks /\ s # Loop
      /\ hand[s].at = "content" /\ checkpoint' = Cursor(hand[s].batch)
  BY LoopIsNoSocket DEF CheckpointAndAdd, Throw, loopVars, socketVars
<1>2. d \in Documents /\ window \in Batches /\ Range(hand[s].batch) \subseteq Safe
  <2>1. d \in Documents
    BY <1>1, StoringHand DEF Hand, Stages
  <2> QED BY <1>1, <2>1 DEF GapInv, BatchStored, Durable, BatchInv, OneMinutePerBatch, TypeOK, Batches
<1>3. /\ Overtaken(s) \subseteq forfeited' /\ forfeited \subseteq forfeited'
      /\ \/ d \in forfeited' /\ window' = window
         \/ window' = Append(window, d)
  BY DEF CheckpointAndAdd, Forfeit
<1>4. Safe \subseteq Safe' /\ Overtaken(s) \subseteq Safe'
  BY <1>1, <1>3, SafeGrows DEF Safe
<1>5. /\ Range(window) \subseteq Range(window') /\ d \in Safe' \cup Range(window')
      /\ Range(window') \subseteq Range(window) \cup {d}
  BY <1>2, <1>3, Appended DEF Safe
<1>6. /\ hand'[s] = Free /\ \A u \in Tasks \ {s} : hand'[u] = hand[u]
      /\ HeldBy(Tasks) \subseteq HeldBy(Tasks)' \cup HoldOf(hand[s])
      /\ HeldBy(Tasks)' \subseteq HeldBy(Tasks) /\ HoldOf(hand[s]) \subseteq HeldBy(Tasks)
  BY <1>1, HeldChange, Holding
<1>7. HoldOf(hand[s]) \subseteq Safe' \cup Range(window') /\ d \in HoldOf(hand[s])
  BY <1>2, <1>4, <1>5, Cursors DEF HoldOf
<1>8. InMemory' \subseteq InMemory
  BY <1>1, <1>5, <1>6, <1>7, Memory
<1>9. InMemory \subseteq InMemory' \cup Safe'
  BY <1>1, <1>5, <1>6, <1>7, Memory
<1>10. NoHole' /\ SocketsKeep'
  BY <1>1, <1>4, <1>8, <1>9, KeptThroughStep
<1>11. NoGap'
  BY <1>1, <1>4, CheckpointPasses
<1>12. SeenKept'
  BY <1>1, <1>4, <1>5, <1>6, <1>7 DEF GapInv, SeenKept
<1>13. BatchStored'
  BY <1>4, <1>6, StoredThroughStep
<1>14. QED
  BY <1>1, <1>6, <1>10, <1>11, <1>12, <1>13, LoopIsNoSocket DEF GapInv, LoopHand

LEMMA GapOfCheckpointAndLoop ==
    ASSUME BatchInv, GapInv, CheckpointAndLoop
    PROVE  GapInv'
<1>1. /\ UNCHANGED <<receiving, next, chain, seen, window, database, replay>>
      /\ hand' = [hand EXCEPT ![Loop] = Free] /\ Loop \in Tasks
      /\ hand[Loop].at = "content" /\ checkpoint' = Cursor(hand[Loop].batch)
      /\ Overtaken(Loop) \subseteq forfeited' /\ forfeited \subseteq forfeited'
  BY LoopIsNoSocket DEF CheckpointAndLoop, socketVars, Forfeit
<1>2. hand[Loop].doc = 0 /\ Range(hand[Loop].batch) \subseteq Safe
  BY <1>1, StoringHand DEF GapInv, BatchStored, Durable, Stages
<1>3. Safe \subseteq Safe' /\ Overtaken(Loop) \subseteq Safe'
  BY <1>1, SafeGrows DEF Safe
<1>4. /\ hand'[Loop] = Free /\ \A u \in Tasks \ {Loop} : hand'[u] = hand[u]
      /\ HeldBy(Tasks) \subseteq HeldBy(Tasks)' \cup HoldOf(hand[Loop])
      /\ HeldBy(Tasks)' \subseteq HeldBy(Tasks)
  BY <1>1, HeldChange, Holding
<1>5. HoldOf(hand[Loop]) \subseteq Safe'
  BY <1>2, <1>3 DEF HoldOf
<1>6. InMemory' \subseteq InMemory /\ InMemory \subseteq InMemory' \cup Safe'
  BY <1>1, <1>4, <1>5, Memory
<1>7. NoHole' /\ SocketsKeep'
  BY <1>1, <1>3, <1>6, KeptThroughStep
<1>8. NoGap'
  BY <1>1, <1>3, CheckpointPasses
<1>9. SeenKept'
  BY <1>1, <1>3, <1>4, <1>5 DEF GapInv, SeenKept
<1>10. BatchStored'
  BY <1>3, <1>4, StoredThroughStep
<1>11. QED
  BY <1>4, <1>7, <1>8, <1>9, <1>10 DEF GapInv, LoopHand

LEMMA GapOfLeave ==
    ASSUME BatchInv, GapInv, Leave
    PROVE  GapInv'
<1>1. /\ UNCHANGED <<receiving, next, chain, seen, database, replay, checkpoint, forfeited>>
      /\ loop # "flushing" /\ hand[Loop] = Free /\ Loop \in Tasks
  BY LoopIsNoSocket DEF Leave, socketVars, storeVars, GapInv, LoopHand
<1>2. Safe \subseteq Safe' /\ window \in Batches
  BY <1>1, SafeGrows DEF BatchInv, OneMinutePerBatch, TypeOK, Batches
<1>3. CASE window = <<>>
  <2>1. hand' = hand /\ window' = window
    BY <1>3 DEF Leave
  <2>2. InMemory' = InMemory /\ HeldBy(Tasks)' = HeldBy(Tasks)
    BY <1>1, <2>1 DEF InMemory, HeldBy
  <2>3. NoHole' /\ SocketsKeep' /\ NoGap'
    BY <1>1, <1>2, <2>2, KeptThroughStep, GapThroughStep
  <2> QED BY <1>1, <1>2, <2>1, <2>2, <2>3 DEF GapInv, SeenKept, BatchStored, LoopHand
<1>4. CASE window # <<>>
  <2>1. hand' = [hand EXCEPT ![Loop] = Flushing(0)] /\ window' = <<>> /\ loop' = "flushing"
    BY <1>4 DEF Leave
  <2>2. HoldOf(Flushing(0)) = Range(window) /\ Range(window') = {}
    BY <1>2, <2>1, EmptyBatch, BatchElements, Cursors DEF HoldOf, Flushing
  <2>3. /\ hand'[Loop] = Flushing(0) /\ \A u \in Tasks \ {Loop} : hand'[u] = hand[u]
        /\ HeldBy(Tasks) \subseteq HeldBy(Tasks)'
        /\ HeldBy(Tasks)' \subseteq HeldBy(Tasks) \cup Range(window)
        /\ Range(window) \subseteq HeldBy(Tasks)'
    <3>1. HoldOf(hand[Loop]) = {}
      BY <1>1, Holding
    <3> QED BY <1>1, <2>1, <2>2, <3>1, HeldChange
  <2>4. InMemory' \subseteq InMemory /\ InMemory \subseteq InMemory'
    BY <1>1, <2>2, <2>3, Memory
  <2>5. NoHole' /\ SocketsKeep' /\ NoGap'
    BY <1>1, <1>2, <2>4, KeptThroughStep, GapThroughStep
  <2>6. SeenKept'
    BY <1>1, <1>2, <2>3 DEF GapInv, SeenKept
  <2>7. BatchStored'
    BY <1>2, <2>3, StoredThroughStep DEF Flushing
  <2> QED BY <2>1, <2>5, <2>6, <2>7 DEF GapInv, LoopHand
<1>5. QED
  BY <1>3, <1>4

LEMMA GapOfDie ==
    ASSUME BatchInv, GapInv, Die
    PROVE  GapInv'
<1>1. /\ UNCHANGED <<next, database, replay, checkpoint, forfeited>>
      /\ \A t \in Tasks : hand'[t] = Free
      /\ \A s \in Sockets : ~ receiving'[s] /\ chain'[s] = <<>>
      /\ window' = <<>> /\ seen' = {}
  BY DEF Die, storeVars
<1>2. Safe \subseteq Safe'
  BY <1>1, SafeGrows
<1>3. HeldBy(Tasks)' = {}
  BY <1>1, Holding
<1>4. InMemory' = {}
  BY <1>1, <1>3, EmptyBatch, Memory
<1>5. NoHole' /\ SocketsKeep' /\ NoGap'
  BY <1>1, <1>2, <1>4, GapThroughStep DEF NoHole, SocketsKeep
<1>6. BatchStored'
  BY <1>1, <1>2, StoredThroughStep
<1>7. QED
  BY <1>1, <1>5, <1>6, LoopIsNoSocket DEF GapInv, SeenKept, LoopHand

LEMMA GapInvInit == Init => GapInv
<1> SUFFICES ASSUME Init PROVE GapInv
  OBVIOUS
<1>1. /\ \A t \in Tasks : hand[t] = Free
      /\ \A s \in Sockets : ~ receiving[s] /\ chain[s] = <<>>
      /\ window = <<>> /\ seen = {} /\ checkpoint = 0
  BY DEF Init
<1>2. HeldBy(Tasks) = {}
  BY <1>1, Holding
<1>3. InMemory = {}
  BY <1>1, <1>2, EmptyBatch, Memory
<1>4. NoGap
  <2>1. ResumeAt(0) = 1
    BY StreamAssumption DEF ResumeAt
  <2> QED BY <1>1, <2>1, Cursors DEF NoGap
<1>5. BatchStored
  BY <1>1 DEF BatchStored, Durable, Free
<1>6. QED
  BY <1>1, <1>3, <1>4, <1>5, LoopIsNoSocket DEF GapInv, SeenKept, NoHole, SocketsKeep, LoopHand

LEMMA GapInvStep == BatchInv /\ GapInv /\ [Next]_vars => GapInv'
<1> SUFFICES ASSUME BatchInv, GapInv, [Next]_vars PROVE GapInv'
  OBVIOUS
<1>1. CASE UNCHANGED vars \/ Shutdown \/ \E s \in Sockets : SocketCloses(s)
  BY <1>1, GapOfClosing
<1>2. CASE Connect
  BY <1>2, GapOfConnect
<1>3. CASE \E s \in Sockets : Receive(s) \/ Parse(s) \/ Recorded(s)
  BY <1>3, GapOfReceive, GapOfParse, GapOfRecorded
<1>4. CASE \E s \in Sockets : RecordingFails(s) \/ AllSinksFail(s)
  BY <1>4, GapOfThrow
<1>5. CASE \E t \in Tasks : StorePostgres(t) \/ StoreReplay(t) \/ ReplayFails(t) \/ TruncateCheckpoint(t)
  BY <1>5, GapOfStages
<1>6. CASE CheckpointAndLoop \/ \E s \in Sockets : CheckpointAndAdd(s)
  BY <1>6, GapOfCheckpointAndLoop, GapOfCheckpointAndAdd
<1>7. CASE Leave
  BY <1>7, GapOfLeave
<1>8. CASE Crash \/ AllSinksFailInLoop
  BY <1>8, GapOfDie DEF Crash, AllSinksFailInLoop
<1>9. QED
  BY <1>1, <1>2, <1>3, <1>4, <1>5, <1>6, <1>7, <1>8 DEF Next

(***************************************************************************)
(* A document that no sink has stored and that the code has not given up   *)
(* is at or past the place where a connection would resume from the        *)
(* checkpoint: were the worker to die now, Jetstream would send it again.  *)
(***************************************************************************)
THEOREM NothingSkipped == Spec => []NoGap
<1>1. GapInv => NoGap
  BY DEF GapInv
<1>2. QED
  BY <1>1, BatchInvAlways, GapInvInit, GapInvStep, PTL DEF Spec
=============================================================================
