--------------------------- MODULE RecordsProofs ----------------------------
(***************************************************************************)
(* Proofs about what is kept in PostgreSQL: the post attribution store,    *)
(* the official closes and the migrations.                                 *)
(***************************************************************************)
EXTENDS AttributionStore, OfficialClose, Migrations, WellFoundedInduction, TLAPS

-----------------------------------------------------------------------------
(***************************************************************************)
(* Proofs about AttributionStore: what is deleted stays forgotten, and     *)
(* what was delivered is known while its retention lasts, for every stream,*)
(* through crashes, restarts, rewinds and writes in any order.             *)
(***************************************************************************)

-----------------------------------------------------------------------------
(* Types.                                                                  *)

Writes == [kind : {"INSERT", "DELETE"}, post : Posts, expires : Int]

TypeOK ==
    /\ up \in BOOLEAN
    /\ cache \in [Posts -> {"none", "LIVE", "RESTORED"}]
    /\ inFlight \subseteq Writes
    /\ ~up => inFlight = {}
    /\ rows \in [Posts -> Int]
    /\ today \in Nat
    /\ position \in 1 .. Len(Stream) + 1
    /\ reached \in Nat /\ position <= reached
    /\ unsaved \subseteq Posts /\ kept \subseteq Posts

Events == [kind : {"post", "delete", "like"}, post : Posts \cup {0},
           target : Posts \cup {0}, day : 0 .. LastDay]

\* The stream is a sequence of events, and its events have posts and days.
LEMMA StreamFacts ==
    /\ Len(Stream) \in Nat /\ DOMAIN Stream = 1 .. Len(Stream)
    /\ \A i \in DOMAIN Stream :
         /\ Stream[i].kind \in {"post", "delete", "like"}
         /\ Stream[i].kind # "like" => Stream[i].post \in Posts
         /\ Stream[i].day \in Nat
  <1>1. Stream \in Seq(Events)
    BY AttributionAssumption DEF AttributionAssumption, Events
  <1>2. Len(Stream) \in Nat /\ DOMAIN Stream = 1 .. Len(Stream)
    BY <1>1
  <1>3. ASSUME NEW i \in DOMAIN Stream
        PROVE /\ Stream[i].kind \in {"post", "delete", "like"}
              /\ Stream[i].kind # "like" => Stream[i].post \in Posts
              /\ Stream[i].day \in Nat
    <2>1. Stream[i] \in Events
      BY <1>1, <1>2
    <2>2. Stream[i].kind # "like" => Stream[i].post # 0
      BY AttributionAssumption DEF AttributionAssumption
    <2>3. Stream[i].day \in Nat
      BY <2>1 DEF Events
    <2> QED BY <2>1, <2>2, <2>3 DEF Events
  <1> QED BY <1>2, <1>3

LEMMA TypeInit == AttributionInit => TypeOK
  <1> SUFFICES ASSUME AttributionInit PROVE TypeOK
    OBVIOUS
  <1>1. position \in 1 .. Len(Stream) + 1
    BY StreamFacts DEF AttributionInit
  <1>2. rows \in [Posts -> Int] /\ cache \in [Posts -> {"none", "LIVE", "RESTORED"}]
    BY DEF AttributionInit, NoRow
  <1>3. up \in BOOLEAN /\ inFlight = {} /\ unsaved = {} /\ kept = {}
    BY DEF AttributionInit
  <1>4. today \in Nat /\ reached \in Nat /\ position <= reached
    BY DEF AttributionInit
  <1> QED BY <1>1, <1>2, <1>3, <1>4 DEF TypeOK

LEMMA TypeStep == TypeOK /\ [AttributionNext]_attributionVars => TypeOK'
  <1> SUFFICES ASSUME TypeOK, [AttributionNext]_attributionVars
               PROVE TypeOK'
    OBVIOUS
  <1> USE DEF TypeOK, Writes
  <1>1. CASE ParseEvent
    <2> DEFINE event == Stream[position]
    <2>1. position <= Len(Stream)
      BY <1>1 DEF ParseEvent
    <2>0. position \in DOMAIN Stream
      BY <2>1, StreamFacts
    <2>2. event.kind # "like" => event.post \in Posts
      BY <2>0, StreamFacts
    <2>a. event.day \in Nat
      BY <2>0, StreamFacts
    <2>3. event.day + Retention \in Int
      BY <2>a, AttributionAssumption DEF AttributionAssumption
    <2>4. position' \in 1 .. Len(Stream) + 1 /\ reached' \in Nat /\ position' <= reached'
      BY <1>1, <2>1, StreamFacts DEF ParseEvent
    <2>5. UNCHANGED <<up, rows, today>> /\ up
      BY <1>1 DEF ParseEvent
    <2>6. CASE RecordPost(event)
      BY <2>2, <2>3, <2>4, <2>5, <2>6 DEF RecordPost, Insert
    <2>7. CASE ForgetPost(event)
      BY <2>2, <2>4, <2>5, <2>7 DEF ForgetPost, Delete, NoRow
    <2>8. CASE Engage(event)
      BY <2>4, <2>5, <2>8 DEF Engage
    <2> QED BY <1>1, <2>6, <2>7, <2>8 DEF ParseEvent
  <1>2. CASE CleanupExpired
    BY <1>2 DEF CleanupExpired, cacheVars, historyVars, NoRow
  <1>3. CASE Close
    BY <1>3 DEF Close, Empty, historyVars
  <1>4. CASE StoreCrash
    BY <1>4 DEF StoreCrash, Empty, Lost
  <1>5. CASE Start
    <2>1. position' \in 1 .. Len(Stream) + 1 /\ position' <= reached
      BY <1>5, StreamFacts DEF Start
    <2> QED BY <1>5, <2>1 DEF Start, historyVars
  <1>6. CASE NextDay
    BY <1>6 DEF NextDay, cacheVars, historyVars
  <1>7. ASSUME NEW w \in inFlight, RunWrite(w) PROVE TypeOK'
    BY <1>7 DEF RunWrite, NoRow
  <1>8. ASSUME NEW w \in inFlight, FailWrite(w) PROVE TypeOK'
    BY <1>8 DEF FailWrite, Lost
  <1>9. CASE UNCHANGED attributionVars
    BY <1>9 DEF attributionVars, cacheVars, historyVars
  <1> QED BY <1>1, <1>2, <1>3, <1>4, <1>5, <1>6, <1>7, <1>8, <1>9 DEF AttributionNext

\* What has happened one event later.
LEMMA HappenedNext ==
    ASSUME NEW kind, NEW p, NEW n \in DOMAIN Stream
    PROVE /\ Happened(kind, p, n) => Happened(kind, p, n + 1)
          /\ Happened(kind, p, n + 1) =>
               Happened(kind, p, n) \/ (Stream[n].kind = kind /\ Stream[n].post = p)
  <1>1. \A i \in DOMAIN Stream : i < n + 1 <=> (i < n \/ i = n)
    BY StreamFacts
  <1> QED BY <1>1 DEF Happened

-----------------------------------------------------------------------------
(* Deleted posts.                                                          *)

\* Past its delete a post is not in the cache; its row is gone or the DELETE is
\* still to run, and so it is if an INSERT is.
Forgotten(p) ==
    p \notin kept /\ Happened("delete", p, position) =>
        /\ up => cache[p] = "none"
        /\ rows[p] = NoRow \/ Delete(p) \in inFlight
        /\ \A w \in inFlight : w.kind = "INSERT" /\ w.post = p => Delete(p) \in inFlight

LEMMA ForgottenStep ==
    ASSUME TypeOK, NEW p \in Posts, Forgotten(p), [AttributionNext]_attributionVars
    PROVE Forgotten(p)'
  <1> SUFFICES ASSUME p \notin kept', Happened("delete", p, position)'
               PROVE /\ up' => cache'[p] = "none"
                     /\ rows'[p] = NoRow \/ Delete(p) \in inFlight'
                     /\ \A w \in inFlight' : w.kind = "INSERT" /\ w.post = p => Delete(p) \in inFlight'
    BY DEF Forgotten, Delete, NoRow
  <1> USE DEF Forgotten, TypeOK
  <1>0. Delete(p).kind = "DELETE" /\ Delete(p).post = p
    BY DEF Delete
  <1>1. CASE ParseEvent
    <2> DEFINE event == Stream[position]
    <2>1. position \in DOMAIN Stream /\ position' = position + 1 /\ UNCHANGED <<up, rows>>
      BY <1>1, StreamFacts DEF ParseEvent
    <2>2. Happened("delete", p, position) \/ (event.kind = "delete" /\ event.post = p)
      <3>1. Happened("delete", p, position + 1)
        BY <2>1 DEF Happened
      <3> QED BY <2>1, <3>1, HappenedNext
    <2>3. CASE RecordPost(event)
      <3>1. Happened("delete", p, position)
        BY <2>2, <2>3 DEF RecordPost
      <3>2. event.post # p
        <4>1. PICK i \in DOMAIN Stream : i < position /\ Stream[i].kind = "delete" /\ Stream[i].post = p
          BY <3>1 DEF Happened
        <4>2. ~(position < i)
          BY <4>1, <2>1, StreamFacts
        <4> QED BY <4>1, <4>2, <2>1, <2>3, EventAssumption DEF RecordPost, EventAssumption
      <3>3. cache'[p] = cache[p] /\ inFlight' = inFlight \cup {Insert(event.post, event.day + Retention)}
        BY <2>3, <3>2 DEF RecordPost
      <3>4. Insert(event.post, event.day + Retention).post # p
        BY <3>2 DEF Insert
      <3>5. p \notin kept
        BY <2>3 DEF RecordPost
      <3> QED BY <2>1, <3>1, <3>3, <3>4, <3>5
    <2>4. CASE ForgetPost(event)
      <3>1. CASE event.post = p
        BY <2>1, <2>4, <3>1 DEF ForgetPost
      <3>2. CASE event.post # p
        <4>1. Happened("delete", p, position) /\ p \notin kept
          BY <2>2, <2>4, <3>2 DEF ForgetPost
        <4>2. cache'[p] = cache[p] /\ inFlight' = inFlight \cup {Delete(event.post)}
          BY <2>4, <3>2 DEF ForgetPost
        <4>3. Delete(event.post).kind # "INSERT"
          BY DEF Delete
        <4> QED BY <2>1, <4>1, <4>2, <4>3
      <3> QED BY <3>1, <3>2
    <2>5. CASE Engage(event)
      <3>1. Happened("delete", p, position)
        BY <2>2, <2>5 DEF Engage
      <3> QED BY <2>1, <2>5, <3>1 DEF Engage
    <2> QED BY <1>1, <2>3, <2>4, <2>5 DEF ParseEvent
  <1>2. CASE CleanupExpired
    BY <1>2 DEF CleanupExpired, cacheVars, historyVars, Happened
  <1>3. CASE Close
    BY <1>3 DEF Close, Empty, historyVars, Happened
  <1>4. CASE StoreCrash
    <2>1. Happened("delete", p, position) /\ p \notin kept /\ Delete(p) \notin inFlight
      BY <1>0, <1>4 DEF StoreCrash, Lost, Happened
    <2> QED BY <1>4, <2>1 DEF StoreCrash, Empty
  <1>5. CASE Start
    <2>1. Happened("delete", p, position)
      BY <1>5, StreamFacts DEF Start, Happened
    <2>2. rows[p] = NoRow /\ inFlight = {}
      BY <1>5, <2>1 DEF Start, historyVars
    <2>3. cache'[p] = "none"
      BY <1>5, <2>2 DEF Start, NoRow
    <2> QED BY <1>5, <2>2, <2>3 DEF Start
  <1>6. CASE NextDay
    BY <1>6 DEF NextDay, cacheVars, historyVars, Happened
  <1>7. ASSUME NEW w \in inFlight, RunWrite(w)
        PROVE /\ up' => cache'[p] = "none"
              /\ rows'[p] = NoRow \/ Delete(p) \in inFlight'
              /\ \A v \in inFlight' : v.kind = "INSERT" /\ v.post = p => Delete(p) \in inFlight'
    <2>1. Happened("delete", p, position) /\ p \notin kept
      BY <1>7 DEF RunWrite, Happened
    <2>2. inFlight' = inFlight \ {w} /\ UNCHANGED <<up, cache>>
      BY <1>7 DEF RunWrite
    <2>3. CASE w.kind = "DELETE" /\ w.post = p
      <3>1. \A v \in inFlight : ~(v.kind = "INSERT" /\ v.post = p)
        BY <1>7, <2>3 DEF RunWrite
      <3>2. rows'[p] = NoRow
        BY <1>7, <2>3 DEF RunWrite
      <3> QED BY <2>1, <2>2, <3>1, <3>2
    <2>4. CASE w.kind # "DELETE" /\ w.post = p
      <3>1. w.kind = "INSERT" /\ w # Delete(p)
        BY <1>0, <2>4 DEF Writes
      <3>2. Delete(p) \in inFlight
        BY <2>1, <2>4, <3>1
      <3> QED BY <2>1, <2>2, <3>1, <3>2
    <2>5. CASE w.post # p
      <3>1. rows'[p] = rows[p] /\ w # Delete(p)
        BY <1>0, <1>7, <2>5 DEF RunWrite
      <3> QED BY <2>1, <2>2, <3>1
    <2> QED BY <2>3, <2>4, <2>5
  <1>8. ASSUME NEW w \in inFlight, FailWrite(w)
        PROVE /\ up' => cache'[p] = "none"
              /\ rows'[p] = NoRow \/ Delete(p) \in inFlight'
              /\ \A v \in inFlight' : v.kind = "INSERT" /\ v.post = p => Delete(p) \in inFlight'
    <2>1. Happened("delete", p, position) /\ p \notin kept /\ w # Delete(p)
      BY <1>0, <1>8 DEF FailWrite, Lost, Happened
    <2> QED BY <1>8, <2>1 DEF FailWrite
  <1>9. CASE UNCHANGED attributionVars
    BY <1>9 DEF attributionVars, cacheVars, historyVars, Happened
  <1> QED BY <1>1, <1>2, <1>3, <1>4, <1>5, <1>6, <1>7, <1>8, <1>9 DEF AttributionNext

\* What recordPost, forgetPost and the pool leave: a post that was deleted is
\* unknown to every process from then on, whatever order the writes ran in.
THEOREM DeletedStaysDeleted == AttributionSpec => []ForgottenStaysForgotten
  <1> DEFINE Inv == TypeOK /\ \A p \in Posts : Forgotten(p)
  <1>1. AttributionInit => Inv
    <2> SUFFICES ASSUME AttributionInit, NEW p \in Posts PROVE Forgotten(p)
      BY TypeInit
    <2> QED BY DEF AttributionInit, Forgotten
  <1>2. Inv /\ [AttributionNext]_attributionVars => Inv'
    BY TypeStep, ForgottenStep
  <1>3. Inv => ForgottenStaysForgotten
    BY DEF Forgotten, ForgottenStaysForgotten
  <1> QED BY <1>1, <1>2, <1>3, PTL DEF AttributionSpec

-----------------------------------------------------------------------------
(* Posts within their retention.                                           *)

Expires(i) == Stream[i].day + Retention
Creates(i, p) == Stream[i].kind = "post" /\ Stream[i].post = p

\* Every row and every INSERT carries the end of retention of the one event
\* that creates its post; a DELETE is sent for what was deleted.
Dated ==
    /\ \A p \in Posts : rows[p] # NoRow => \E i \in DOMAIN Stream : Creates(i, p) /\ rows[p] = Expires(i)
    /\ \A w \in inFlight :
         /\ w.kind = "INSERT" => \E i \in DOMAIN Stream : Creates(i, w.post) /\ w.expires = Expires(i)
         /\ w.kind = "DELETE" => Happened("delete", w.post, reached)

\* A post some process has seen is in the cache, and has a row or will.
Owed(i) ==
    /\ i < reached /\ Stream[i].kind = "post" /\ Stream[i].post \notin unsaved
    /\ today < Expires(i) /\ ~Happened("delete", Stream[i].post, reached)

Known(i) ==
    Owed(i) =>
        /\ up => cache[Stream[i].post] # "none"
        /\ rows[Stream[i].post] = Expires(i) \/ Insert(Stream[i].post, Expires(i)) \in inFlight

\* A process never reads past reached without moving it.
LEMMA ReachedStep ==
    ASSUME TypeOK, [AttributionNext]_attributionVars
    PROVE /\ reached' \in Nat /\ reached <= reached'
          /\ \A p : Happened("delete", p, reached) => Happened("delete", p, reached')
  <1>1. reached' \in Nat /\ reached <= reached'
    <2>1. CASE ParseEvent
      BY <2>1, StreamFacts DEF ParseEvent, TypeOK
    <2>2. CASE reached' = reached
      BY <2>2 DEF TypeOK
    <2>3. ParseEvent \/ reached' = reached
      BY DEF AttributionNext, CleanupExpired, Close, StoreCrash, Start, NextDay, RunWrite, FailWrite,
             attributionVars, historyVars
    <2> QED BY <2>1, <2>2, <2>3
  <1>2. \A i \in DOMAIN Stream : i < reached => i < reached'
    BY <1>1, StreamFacts DEF TypeOK
  <1> QED BY <1>1, <1>2 DEF Happened

LEMMA ExpiresFacts ==
    ASSUME NEW i \in DOMAIN Stream PROVE Expires(i) \in Nat /\ Expires(i) # NoRow
  BY StreamFacts, AttributionAssumption DEF AttributionAssumption, Expires, NoRow

LEMMA DatedStep ==
    ASSUME TypeOK, Dated, [AttributionNext]_attributionVars
    PROVE Dated'
  <1> USE DEF Dated, TypeOK
  <1>0. \A p : Happened("delete", p, reached) => Happened("delete", p, reached')
    BY ReachedStep
  <1> SUFFICES
        /\ \A p \in Posts : rows'[p] # NoRow =>
             \E i \in DOMAIN Stream : Creates(i, p) /\ rows'[p] = Expires(i)
        /\ \A w \in inFlight' :
             /\ w.kind = "INSERT" => \E i \in DOMAIN Stream : Creates(i, w.post) /\ w.expires = Expires(i)
             /\ w.kind = "DELETE" => Happened("delete", w.post, reached')
    BY DEF Happened, Creates, Expires, NoRow
  <1>1. CASE ParseEvent
    <2> DEFINE event == Stream[position]
    <2>1. position \in DOMAIN Stream /\ UNCHANGED rows
      BY <1>1, StreamFacts DEF ParseEvent
    <2>2. position < reached'
      BY <1>1, StreamFacts DEF ParseEvent
    <2>3. CASE RecordPost(event)
      <3> DEFINE insert == Insert(event.post, event.day + Retention)
      <3>1. inFlight' = inFlight \cup {insert} /\ Creates(position, event.post)
        BY <2>3 DEF RecordPost, Creates
      <3>2. /\ insert.kind = "INSERT" /\ insert.post = event.post
            /\ insert.expires = Expires(position)
        BY DEF Insert, Expires
      <3> HIDE DEF insert
      <3> QED BY <1>0, <2>1, <3>1, <3>2
    <2>4. CASE ForgetPost(event)
      <3>1. inFlight' = inFlight \cup {Delete(event.post)} /\ Happened("delete", event.post, reached')
        BY <2>1, <2>2, <2>4 DEF ForgetPost, Happened
      <3>2. Delete(event.post).kind = "DELETE" /\ Delete(event.post).post = event.post
        BY DEF Delete
      <3> QED BY <1>0, <2>1, <3>1, <3>2
    <2>5. CASE Engage(event)
      BY <1>0, <2>1, <2>5 DEF Engage
    <2> QED BY <1>1, <2>3, <2>4, <2>5 DEF ParseEvent
  <1>2. CASE CleanupExpired
    BY <1>0, <1>2 DEF CleanupExpired, cacheVars
  <1>3. CASE Close
    BY <1>3 DEF Close, Empty
  <1>4. CASE StoreCrash
    BY <1>4 DEF StoreCrash, Empty
  <1>5. CASE Start \/ NextDay \/ UNCHANGED attributionVars
    BY <1>0, <1>5 DEF Start, NextDay, attributionVars, cacheVars
  <1>6. CASE \E w \in inFlight : RunWrite(w) \/ FailWrite(w)
    <2>1. PICK w \in inFlight : RunWrite(w) \/ FailWrite(w)
      BY <1>6
    <2>2. inFlight' \subseteq inFlight
      BY <2>1 DEF RunWrite, FailWrite
    <2>3. ASSUME NEW p \in Posts, rows'[p] # NoRow
          PROVE rows'[p] = rows[p] \/ (w.kind = "INSERT" /\ w.post = p /\ rows'[p] = w.expires)
      BY <2>1, <2>3 DEF RunWrite, FailWrite, Writes
    <2> QED BY <1>0, <2>2, <2>3
  <1> QED BY <1>1, <1>2, <1>3, <1>4, <1>5, <1>6 DEF AttributionNext

LEMMA KnownStep ==
    ASSUME TypeOK, Dated, NEW i \in DOMAIN Stream, Known(i), [AttributionNext]_attributionVars
    PROVE Known(i)'
  <1> DEFINE p == Stream[i].post
  <1> SUFFICES ASSUME Owed(i)'
               PROVE /\ up' => cache'[p] # "none"
                     /\ rows'[p] = Expires(i) \/ Insert(p, Expires(i)) \in inFlight'
    BY DEF Known, Expires, Insert
  <1> USE DEF TypeOK
  <1>0. /\ Stream[i].kind = "post" /\ p \in Posts /\ i < reached' /\ p \notin unsaved' /\ today' < Expires(i)
        /\ ~Happened("delete", p, reached') /\ ~Happened("delete", p, reached)
    BY StreamFacts, ReachedStep DEF Owed, Expires, Happened
  <1>a. Insert(p, Expires(i)).kind = "INSERT" /\ Insert(p, Expires(i)).post = p
    BY DEF Insert
  <1>b. \A j \in DOMAIN Stream : Creates(j, p) => j = i
    BY <1>0, EventAssumption DEF EventAssumption, Creates
  <1>c. rows[p] = NoRow \/ rows[p] = Expires(i)
    BY <1>0, <1>b DEF Dated
  <1>1. CASE ParseEvent
    <2> DEFINE event == Stream[position]
    <2>1. /\ position \in DOMAIN Stream /\ position < reached'
          /\ position' = position + 1 /\ UNCHANGED <<up, rows, today>>
      BY <1>1, StreamFacts DEF ParseEvent
    <2>2. i = position \/ i < reached
      BY <1>0, <1>1, <2>1, StreamFacts DEF ParseEvent
    <2>3. CASE RecordPost(event)
      <3>1. CASE i = position
        BY <1>0, <2>3, <3>1 DEF RecordPost, Expires
      <3>2. CASE i # position
        <4>1. event.post # p
          BY <1>b, <2>1, <2>3, <3>2 DEF RecordPost, Creates
        <4>2. Owed(i)
          BY <1>0, <2>1, <2>2, <2>3, <3>2, <4>1 DEF Owed, RecordPost
        <4> QED BY <2>1, <2>3, <4>1, <4>2 DEF Known, RecordPost
      <3> QED BY <3>1, <3>2
    <2>4. CASE ForgetPost(event)
      <3>1. event.post # p
        BY <1>0, <2>1, <2>4 DEF ForgetPost, Happened
      <3>2. Owed(i)
        BY <1>0, <2>1, <2>2, <2>4 DEF Owed, ForgetPost
      <3> QED BY <2>1, <2>4, <3>1, <3>2 DEF Known, ForgetPost
    <2>5. CASE Engage(event)
      <3>1. Owed(i)
        BY <1>0, <2>1, <2>2, <2>5 DEF Owed, Engage
      <3> QED BY <2>1, <2>5, <3>1 DEF Known, Engage
    <2> QED BY <1>1, <2>3, <2>4, <2>5 DEF ParseEvent
  <1>2. CASE CleanupExpired
    <2>1. Owed(i)
      BY <1>0, <1>2 DEF Owed, CleanupExpired, cacheVars, historyVars
    <2>2. ~(Expires(i) <= today)
      BY <2>1, ExpiresFacts DEF Owed
    <2> QED BY <1>0, <1>2, <2>1, <2>2 DEF Known, CleanupExpired, cacheVars
  <1>3. CASE Close
    <2>1. Owed(i)
      BY <1>0, <1>3 DEF Owed, Close, historyVars
    <2> QED BY <1>3, <2>1 DEF Known, Close, Empty
  <1>4. CASE StoreCrash
    <2>1. Owed(i) /\ Insert(p, Expires(i)) \notin inFlight
      BY <1>0, <1>a, <1>4 DEF Owed, StoreCrash, Lost
    <2> QED BY <1>4, <2>1 DEF Known, StoreCrash, Empty
  <1>5. CASE Start
    <2>1. Owed(i) /\ inFlight = {}
      BY <1>0, <1>5 DEF Owed, Start, historyVars
    <2>2. rows[p] = Expires(i) /\ rows[p] > today
      BY <2>1, ExpiresFacts DEF Known, Owed
    <2> QED BY <1>0, <1>5, <2>2 DEF Start
  <1>6. CASE NextDay
    <2>1. Owed(i)
      BY <1>0, <1>6, ExpiresFacts DEF Owed, NextDay, cacheVars, historyVars
    <2> QED BY <1>6, <2>1 DEF Known, NextDay, cacheVars
  <1>7. ASSUME NEW w \in inFlight, RunWrite(w)
        PROVE /\ up' => cache'[p] # "none"
              /\ rows'[p] = Expires(i) \/ Insert(p, Expires(i)) \in inFlight'
    <2>1. Owed(i) /\ inFlight' = inFlight \ {w} /\ UNCHANGED <<up, cache>>
      BY <1>0, <1>7 DEF Owed, RunWrite
    <2>2. CASE w.post # p
      <3>1. rows'[p] = rows[p]
        BY <1>0, <1>7, <2>2 DEF RunWrite
      <3> QED BY <1>a, <2>1, <2>2, <3>1 DEF Known
    <2>3. CASE w.post = p
      <3>1. w.kind = "INSERT" /\ w.expires = Expires(i)
        BY <1>0, <1>b, <2>3 DEF Dated, Writes
      <3>2. rows'[p] = Expires(i)
        BY <1>0, <1>c, <1>7, <2>3, <3>1 DEF RunWrite
      <3> QED BY <2>1, <3>2 DEF Known
    <2> QED BY <2>2, <2>3
  <1>8. ASSUME NEW w \in inFlight, FailWrite(w)
        PROVE /\ up' => cache'[p] # "none"
              /\ rows'[p] = Expires(i) \/ Insert(p, Expires(i)) \in inFlight'
    <2>1. Owed(i) /\ inFlight' = inFlight \ {w} /\ UNCHANGED <<up, cache, rows>>
      BY <1>0, <1>8 DEF Owed, FailWrite, Lost
    <2>2. w # Insert(p, Expires(i))
      BY <1>0, <1>a, <1>8 DEF FailWrite, Lost
    <2> QED BY <2>1, <2>2 DEF Known
  <1>9. CASE UNCHANGED attributionVars
    <2>1. Owed(i)
      BY <1>0, <1>9 DEF Owed, attributionVars, historyVars
    <2> QED BY <1>9, <2>1 DEF Known, attributionVars, cacheVars
  <1> QED BY <1>1, <1>2, <1>3, <1>4, <1>5, <1>6, <1>7, <1>8, <1>9 DEF AttributionNext

\* restore() and cleanupExpired(): whatever crashes and restarts there were, a
\* running process knows every post of the stream some process has parsed, while
\* its retention lasts, unless it was deleted or its INSERT never ran.
THEOREM DeliveredIsKnown == AttributionSpec => []KnownWithinRetention
  <1> DEFINE Inv == TypeOK /\ Dated /\ \A i \in DOMAIN Stream : Known(i)
  <1>1. AttributionInit => Inv
    <2> SUFFICES ASSUME AttributionInit PROVE Inv
      OBVIOUS
    <2>1. TypeOK
      BY TypeInit
    <2>2. Dated
      BY DEF AttributionInit, Dated
    <2>3. \A i \in DOMAIN Stream : ~(i < reached)
      BY StreamFacts DEF AttributionInit
    <2> QED BY <2>1, <2>2, <2>3 DEF Known, Owed
  <1>2. Inv /\ [AttributionNext]_attributionVars => Inv'
    BY TypeStep, DatedStep, KnownStep
  <1>3. Inv => KnownWithinRetention
    BY DEF Known, Owed, Expires, KnownWithinRetention
  <1> QED BY <1>1, <1>2, <1>3, PTL DEF AttributionSpec

-----------------------------------------------------------------------------
(***************************************************************************)
(* Proofs about OfficialClose, for every number of finalizers, runs, days  *)
(* and expressions: a day's closes are the work of one run, and then what  *)
(* their calibrations and indexes may be.                                  *)
(***************************************************************************)

\* The first of what is left to insert is there.
LEMMA MinInSet ==
    ASSUME NEW S \in SUBSET Expressions, S # {}
    PROVE Min(S) \in S
  <1>1. S \in SUBSET Nat
    BY CloseAssumption DEF CloseAssumption
  <1>2. PICK m \in S : \A n \in S : ~ (<<n, m>> \in OpToRel(<, Nat))
    BY <1>1, NatLessThanWellFounded, WFMin
  <1>3. \A n \in S : ~ (n < m)
    BY <1>1, <1>2 DEF OpToRel
  <1>4. \A n \in S : m =< n
    BY <1>1, <1>3
  <1> QED BY <1>4 DEF Min

-----------------------------------------------------------------------------
(* The invariant.                                                          *)

\* A run is a record with these fields; when it inserts there is something left.
IsRun(r) ==
    /\ r \in [at : {"idle", "existing", "calibration", "rows", "prior", "insert"},
              day : {r.day}, observed : {r.observed}, id : {r.id}, history : {r.history},
              calibration : {r.calibration}, counted : {r.counted}, prior : {r.prior},
              left : SUBSET Expressions]
    /\ r.at = "insert" => r.left # {}

\* The rows of an open transaction: one of every expression that is not left,
\* all of the run's day, by the run, and final or not as it is; none before
\* the first.
Transaction(r, added) ==
    /\ \A c \in added : /\ c.expression \in Expressions /\ c.day = r.day
                       /\ c.run = r.id /\ c.final = (r.observed = Full)
    /\ IF r.at \in {"prior", "insert"}
       THEN \/ added = {} /\ r.left \in {{}, Expressions}
            \/ \A e \in Expressions : e \in r.left \/ \E c \in added : c.expression = e
       ELSE added = {}

\* What is committed and what is not never have a key in common, nor do two
\* transactions.
RunsApart ==
    /\ \A f \in Finalizers : \A c \in pending[f] : ~Holds(closes, c.expression, c.day)
    /\ \A f, g \in Finalizers : f # g => \A c \in pending[f] : ~Holds(pending[g], c.expression, c.day)

\* A day that has a close has all of them, by one run.
Whole(added) ==
    /\ \A c \in added : c.expression \in Expressions /\ \A e \in Expressions : Holds(added, e, c.day)
    /\ \A b, c \in added : b.day = c.day => b.run = c.run /\ b.final = c.final

Inv ==
    /\ DOMAIN run = Finalizers /\ DOMAIN pending = Finalizers
    /\ \A f \in Finalizers : IsRun(run[f]) /\ Transaction(run[f], pending[f])
    /\ RunsApart
    /\ Whole(closes)

LEMMA InvInit == CloseInit => Inv
  <1> SUFFICES ASSUME CloseInit PROVE Inv
    OBVIOUS
  <1>1. IsRun(Idle)
    BY DEF IsRun, Idle
  <1>2. Transaction(Idle, {})
    BY DEF Transaction, Idle
  <1> QED BY <1>1, <1>2 DEF CloseInit, Inv, RunsApart, Whole, Holds

-----------------------------------------------------------------------------
(* The steps.                                                              *)

\* A step of finalizer f that adds no row.
LEMMA QuietStep ==
    ASSUME Inv, NEW f \in Finalizers, UNCHANGED closes,
           DOMAIN run' = Finalizers, DOMAIN pending' = Finalizers,
           \A g \in Finalizers \ {f} : run'[g] = run[g],
           \A g \in Finalizers : pending'[g] = pending[g] \/ (g = f /\ pending'[g] = {}),
           IsRun(run'[f]), Transaction(run'[f], pending'[f])
    PROVE Inv'
  <1>1. \A g \in Finalizers : pending'[g] \subseteq pending[g]
    OBVIOUS
  <1>2. RunsApart'
    BY <1>1 DEF Inv, RunsApart, Holds
  <1>3. \A g \in Finalizers : IsRun(run'[g]) /\ Transaction(run'[g], pending'[g])
    BY DEF Inv
  <1>4. Whole(closes')
    BY DEF Inv
  <1> QED BY <1>2, <1>3, <1>4 DEF Inv

LEMMA AbortStep ==
    ASSUME Inv, NEW f \in Finalizers, Abort(f), UNCHANGED closes
    PROVE Inv'
  <1>1. IsRun(Idle) /\ Transaction(Idle, {})
    BY DEF IsRun, Transaction, Idle
  <1>2. run'[f] = Idle /\ pending'[f] = {} /\ DOMAIN run' = Finalizers /\ DOMAIN pending' = Finalizers
    BY DEF Abort, Inv
  <1>3. \A g \in Finalizers \ {f} : run'[g] = run[g] /\ pending'[g] = pending[g]
    BY DEF Abort, Inv
  <1> HIDE DEF Idle
  <1> QED BY <1>1, <1>2, <1>3, QuietStep

LEMMA CountStep ==
    ASSUME Inv, NEW f \in Finalizers, NEW d \in Days, NEW p \in BOOLEAN, CountWindows(f, d, p)
    PROVE Inv'
  <1>1. run[f] = Idle /\ Transaction(run[f], pending[f])
    BY DEF CountWindows, Inv
  <1>2. pending[f] = {}
    BY <1>1 DEF Transaction, Idle
  <1>3. IsRun(run'[f]) /\ run'[f].at = "existing"
    BY <1>1 DEF CountWindows, Inv, IsRun, Idle
  <1>4. Transaction(run'[f], {})
    BY <1>3 DEF Transaction
  <1>5. /\ DOMAIN run' = Finalizers /\ closes' = closes /\ pending' = pending
        /\ \A g \in Finalizers \ {f} : run'[g] = run[g]
    BY DEF CountWindows, Inv
  <1>6. DOMAIN pending' = Finalizers
    BY <1>5 DEF Inv
  <1>7. Transaction(run'[f], pending'[f])
    BY <1>2, <1>4, <1>5
  <1> QED BY <1>3, <1>5, <1>6, <1>7, QuietStep

LEMMA InsertStep ==
    ASSUME Inv, NEW f \in Finalizers, InsertRow(f), ~Abort(f)
    PROVE Inv'
  <1> DEFINE r == run[f]
             e == Min(r.left)
             row == Row(f)
  <1>1. IsRun(r) /\ Transaction(r, pending[f]) /\ r.at = "insert" /\ UNCHANGED closes
    BY DEF Inv, InsertRow
  <1>2. e \in r.left /\ e \in Expressions
    <2>1. r.left \in SUBSET Expressions /\ r.left # {}
      BY <1>1 DEF IsRun
    <2> QED BY <2>1, MinInSet
  <1>3. /\ row.expression = e /\ row.day = r.day /\ row.run = r.id /\ row.final = (r.observed = Full)
    BY DEF Row
  <1> HIDE DEF row
  <1>4. /\ \A g \in Finalizers \ {f} : ~Holds(pending[g], e, r.day)
        /\ ~Holds(closes, e, r.day)
        /\ pending' = [pending EXCEPT ![f] = @ \cup {row}]
        /\ run' = [run EXCEPT ![f].at = "prior", ![f].left = @ \ {e}]
    BY DEF InsertRow, row
  <1>5. /\ DOMAIN run' = Finalizers /\ DOMAIN pending' = Finalizers
        /\ pending'[f] = pending[f] \cup {row}
        /\ \A g \in Finalizers \ {f} : run'[g] = run[g] /\ pending'[g] = pending[g]
    BY <1>4 DEF Inv
  <1>6. /\ IsRun(run'[f]) /\ run'[f].at = "prior" /\ run'[f].left = r.left \ {e}
        /\ run'[f].day = r.day /\ run'[f].id = r.id /\ run'[f].observed = r.observed
    BY <1>1, <1>4 DEF Inv, IsRun
  <1>7. Transaction(run'[f], pending'[f])
    BY <1>1, <1>2, <1>3, <1>5, <1>6 DEF Transaction
  <1>8. RunsApart'
    <2>1. ASSUME NEW g \in Finalizers, NEW c \in pending'[g]
          PROVE ~Holds(closes, c.expression, c.day)
      BY <1>3, <1>4, <1>5 DEF Inv, RunsApart
    <2>2. ASSUME NEW g \in Finalizers, NEW h \in Finalizers, g # h, NEW c \in pending'[g],
                 NEW b \in pending'[h], b.expression = c.expression, b.day = c.day
          PROVE FALSE
      <3>1. CASE b \in pending[h] /\ c \in pending[g]
        BY <2>2, <3>1 DEF Inv, RunsApart, Holds
      <3>2. CASE c \notin pending[g]
        BY <1>3, <1>4, <1>5, <2>2, <3>2 DEF Holds
      <3>3. CASE b \notin pending[h]
        BY <1>3, <1>4, <1>5, <2>2, <3>3 DEF Holds
      <3> QED BY <3>1, <3>2, <3>3
    <2> QED BY <1>1, <2>1, <2>2 DEF RunsApart, Holds
  <1>9. \A g \in Finalizers : IsRun(run'[g]) /\ Transaction(run'[g], pending'[g])
    BY <1>5, <1>6, <1>7 DEF Inv
  <1> QED BY <1>1, <1>5, <1>8, <1>9 DEF Inv

LEMMA CommitStep ==
    ASSUME Inv, NEW f \in Finalizers, Commit(f)
    PROVE Inv'
  <1> DEFINE added == pending[f]
  <1>1. /\ closes' = closes \cup added /\ Transaction(run[f], added)
        /\ run[f].at = "prior" /\ run[f].left = {}
    BY DEF Commit, Inv
  <1>2. /\ run'[f] = Idle /\ pending'[f] = {} /\ DOMAIN run' = Finalizers /\ DOMAIN pending' = Finalizers
        /\ \A g \in Finalizers \ {f} : run'[g] = run[g] /\ pending'[g] = pending[g]
    BY DEF Commit, Abort, Inv
  <1>3. \A c \in added : \A e \in Expressions : Holds(added, e, c.day)
    BY <1>1 DEF Transaction, Holds
  <1>4. \A b \in added, c \in closes : b.day # c.day
    <2> SUFFICES ASSUME NEW b \in added, NEW c \in closes, b.day = c.day PROVE FALSE
      OBVIOUS
    <2>1. b.expression \in Expressions
      BY <1>1 DEF Transaction
    <2>2. Holds(closes, b.expression, b.day)
      BY <2>1 DEF Inv, Whole
    <2> QED BY <2>2 DEF Inv, RunsApart
  <1>5. \A b, c \in added : b.run = c.run /\ b.final = c.final
    BY <1>1 DEF Transaction
  <1>6. \A c \in added : c.expression \in Expressions
    BY <1>1 DEF Transaction
  <1>7. Whole(closes')
    <2>1. \A e, d : Holds(closes, e, d) \/ Holds(added, e, d) => Holds(closes', e, d)
      BY <1>1 DEF Holds
    <2>2. \A c \in closes' : c.expression \in Expressions /\ \A e \in Expressions : Holds(closes', e, c.day)
      BY <1>1, <1>3, <1>6, <2>1 DEF Inv, Whole
    <2>3. \A b, c \in closes' : b.day = c.day => b.run = c.run /\ b.final = c.final
      BY <1>1, <1>4, <1>5 DEF Inv, Whole
    <2> QED BY <2>2, <2>3 DEF Whole
  <1>8. RunsApart'
    <2>1. ASSUME NEW g \in Finalizers, NEW c \in pending'[g]
          PROVE ~Holds(closes', c.expression, c.day)
      <3>1. g # f /\ c \in pending[g]
        BY <1>2, <2>1
      <3>2. ~Holds(closes, c.expression, c.day) /\ ~Holds(added, c.expression, c.day)
        BY <3>1 DEF Inv, RunsApart
      <3> QED BY <1>1, <3>2 DEF Holds
    <2>2. \A g \in Finalizers : pending'[g] \subseteq pending[g]
      BY <1>2
    <2> QED BY <2>1, <2>2 DEF Inv, RunsApart, Holds
  <1>9. \A g \in Finalizers : IsRun(run'[g]) /\ Transaction(run'[g], pending'[g])
    <2>1. IsRun(Idle) /\ Transaction(Idle, {})
      BY DEF IsRun, Transaction, Idle
    <2> QED BY <1>2, <2>1 DEF Inv
  <1> QED BY <1>2, <1>7, <1>8, <1>9 DEF Inv

LEMMA InvStep == Inv /\ [CloseNext]_closeVars => Inv'
  <1> SUFFICES ASSUME Inv, [CloseNext]_closeVars PROVE Inv'
    OBVIOUS
  <1>1. ASSUME NEW f \in Finalizers, NEW d \in Days, NEW p \in BOOLEAN, CountWindows(f, d, p)
        PROVE Inv'
    BY <1>1, CountStep
  <1>2. ASSUME NEW f \in Finalizers, Abort(f), UNCHANGED closes PROVE Inv'
    BY <1>2, AbortStep
  <1>3. ASSUME NEW f \in Finalizers, CheckExisting(f) \/ ChooseCalibration(f), ~Abort(f) PROVE Inv'
    <2>1. IsRun(run[f]) /\ Transaction(run[f], pending[f]) /\ run[f].at \in {"existing", "calibration"}
      BY <1>3 DEF Inv, CheckExisting, ChooseCalibration
    <2>2. pending[f] = {} /\ UNCHANGED <<closes, pending>>
      BY <1>3, <2>1 DEF Transaction, CheckExisting, ChooseCalibration
    <2>3. IsRun(run'[f]) /\ run'[f].at \in {"calibration", "rows"}
      BY <1>3, <2>1 DEF Inv, IsRun, CheckExisting, ChooseCalibration
    <2>4. Transaction(run'[f], {})
      BY <2>3 DEF Transaction
    <2> QED BY <1>3, <2>2, <2>3, <2>4, QuietStep DEF Inv, CheckExisting, ChooseCalibration
  <1>4. ASSUME NEW f \in Finalizers, ReadRows(f) PROVE Inv'
    <2>1. IsRun(run[f]) /\ Transaction(run[f], pending[f]) /\ run[f].at = "rows"
      BY <1>4 DEF Inv, ReadRows
    <2>2. pending[f] = {} /\ UNCHANGED <<closes, pending>>
      BY <1>4, <2>1 DEF Transaction, ReadRows
    <2>3. IsRun(run'[f]) /\ run'[f].at = "prior" /\ run'[f].left \in {{}, Expressions}
      BY <1>4, <2>1 DEF Inv, IsRun, ReadRows
    <2>4. Transaction(run'[f], {})
      BY <2>3 DEF Transaction
    <2> QED BY <1>4, <2>2, <2>3, <2>4, QuietStep DEF Inv, ReadRows
  <1>5. ASSUME NEW f \in Finalizers, LookPrior(f) PROVE Inv'
    <2>1. IsRun(run[f]) /\ Transaction(run[f], pending[f]) /\ run[f].at = "prior" /\ run[f].left # {}
      BY <1>5 DEF Inv, LookPrior
    <2>2. /\ IsRun(run'[f]) /\ run'[f].at = "insert" /\ run'[f].left = run[f].left
          /\ run'[f].day = run[f].day /\ run'[f].id = run[f].id /\ run'[f].observed = run[f].observed
      BY <1>5, <2>1 DEF Inv, IsRun, LookPrior
    <2>3. Transaction(run'[f], pending[f])
      BY <2>1, <2>2 DEF Transaction
    <2> QED BY <1>5, <2>2, <2>3, QuietStep DEF Inv, LookPrior
  <1>6. ASSUME NEW f \in Finalizers, InsertRow(f) PROVE Inv'
    BY <1>2, <1>6, InsertStep DEF InsertRow
  <1>7. ASSUME NEW f \in Finalizers, Commit(f) PROVE Inv'
    BY <1>7, CommitStep
  <1>8. ASSUME NEW f \in Finalizers, Kill(f) PROVE Inv'
    BY <1>2, <1>8 DEF Kill
  <1>9. CASE UNCHANGED <<closes, run, pending>>
    BY <1>9 DEF Inv, RunsApart, Whole, Holds, Transaction, IsRun
  <1>10. ASSUME NEW f \in Finalizers, CheckExisting(f), Abort(f) PROVE Inv'
    BY <1>2, <1>10 DEF CheckExisting
  <1>11. ASSUME NEW f \in Finalizers, ChooseCalibration(f), Abort(f) PROVE Inv'
    BY <1>2, <1>11 DEF ChooseCalibration
  <1>12. CASE \E d \in Days : Observe(d)
    BY <1>9, <1>12 DEF Observe
  <1>13. CASE \E last \in LastDays : Calibrate(last)
    BY <1>9, <1>13 DEF Calibrate
  <1>14. CASE UNCHANGED closeVars
    BY <1>9, <1>14 DEF closeVars
  <1> QED
    BY <1>1, <1>3, <1>4, <1>5, <1>6, <1>7, <1>8, <1>10, <1>11, <1>12, <1>13, <1>14 DEF CloseNext

\* The transaction of the finalizer and the primary key of
\* official_expression_closes: whoever runs it, in whatever interleaving and
\* whoever is killed, a day has the closes of one run or none.
THEOREM DayIsOneRun == CloseSpec => []DayIsUniform
  <1>1. Inv => DayIsUniform
    <2> SUFFICES ASSUME Inv, NEW c \in closes, NEW e \in Expressions
                 PROVE Holds(closes, e, c.day) /\ CloseOf(e, c.day).run = c.run
                       /\ CloseOf(e, c.day).final = c.final
      BY DEF DayIsUniform
    <2>1. Holds(closes, e, c.day)
      BY DEF Inv, Whole
    <2>2. CloseOf(e, c.day) \in closes /\ CloseOf(e, c.day).day = c.day
      BY <2>1 DEF Holds, CloseOf
    <2> QED BY <2>1, <2>2 DEF Inv, Whole
  <1> QED BY <1>1, InvInit, InvStep, PTL DEF CloseSpec

-----------------------------------------------------------------------------
(***************************************************************************)
(* The index and the calibrations of the closes.  A row, and the run that  *)
(* makes it, is judged against the committed closes: what it has seen is   *)
(* committed and stays so, and what another transaction commits meanwhile  *)
(* has keys nobody has seen.                                               *)
(***************************************************************************)

\* What a run or a row has seen is committed.
Seen(x, committed) == \A key \in x.history : Holds(committed, key[1], key[2])

\* Its calibration is one of those made, ended before its day, and is no older
\* than those of the earlier closes it has seen.
Calibrated(x, committed, made) ==
    /\ x.calibration = NoCalibration \/ (x.calibration \in made /\ x.calibration < x.day)
    /\ \A b \in committed :
         b.day < x.day /\ <<b.expression, b.day>> \in x.history => b.calibration <= x.calibration

\* p is a close of e before the day of x, and none that x has seen is later.
IsPrior(p, e, x, committed) ==
    /\ p \in committed /\ p.expression = e /\ p.day < x.day
    /\ \A d \in Days : d < x.day /\ <<e, d>> \in x.history => d <= p.day

SawEarlier(e, x) == \E d \in Days : d < x.day /\ <<e, d>> \in x.history

\* The previous close a run has found for the expression it inserts.
Found(r, committed) ==
    IF r.prior = NoPrior THEN ~SawEarlier(Min(r.left), r)
    ELSE IsPrior(r.prior, Min(r.left), r, committed)

\* The index of a row moves from a prior close of its expression.
Linked(x, committed) ==
    SawEarlier(x.expression, x) =>
        \E p \in committed :
            /\ IsPrior(p, x.expression, x, committed)
            /\ x.index = <<p.index[1] * x.smoothed, p.index[2] * p.smoothed>>

\* What every row is, committed or not.
Sound(x, committed, made) ==
    /\ x.day \in Nat /\ x # NoPrior
    /\ Seen(x, committed) /\ Calibrated(x, committed, made) /\ Linked(x, committed)

\* What every run is, as far as it has come.
Ready(r, committed, made) ==
    /\ r.day \in Nat /\ Seen(r, committed)
    /\ r.at \in {"rows", "prior", "insert"} => Calibrated(r, committed, made)
    /\ r.at = "insert" => Found(r, committed)

OnePerDay(added) == \A b, c \in added : b.expression = c.expression /\ b.day = c.day => b = c

ChainInv ==
    /\ calibrations \subseteq Nat
    /\ \A f \in Finalizers : Ready(run[f], closes, calibrations)
    /\ \A f \in Finalizers : \A c \in pending[f] :
         c.expression \notin run[f].left /\ Sound(c, closes, calibrations)
    /\ \A f \in Finalizers : OnePerDay(pending[f])
    /\ \A c \in closes : Sound(c, closes, calibrations)
    /\ OnePerDay(closes)

\* What is judged against the committed closes stays true when closes of keys
\* that were not there are added, and calibrations are.
LEMMA StillSound ==
    ASSUME NEW x, NEW old, NEW new, NEW made, NEW more, old \subseteq new, made \subseteq more,
           \A b \in new : b \in old \/ ~Holds(old, b.expression, b.day)
    PROVE /\ Sound(x, old, made) => Sound(x, new, more)
          /\ Ready(x, old, made) => Ready(x, new, more)
  <1>1. Seen(x, old) => Seen(x, new)
    BY DEF Seen, Holds
  <1>2. Seen(x, old) /\ Calibrated(x, old, made) => Calibrated(x, new, more)
    <2> SUFFICES ASSUME Seen(x, old), Calibrated(x, old, made), NEW b \in new,
                        b.day < x.day, <<b.expression, b.day>> \in x.history
                 PROVE b.calibration <= x.calibration
      BY DEF Calibrated
    <2>1. Holds(old, b.expression, b.day)
      BY DEF Seen
    <2>2. b \in old
      BY <2>1
    <2> QED BY <2>2 DEF Calibrated
  <1>3. \A p, e : IsPrior(p, e, x, old) => IsPrior(p, e, x, new)
    BY DEF IsPrior
  <1>4. Linked(x, old) => Linked(x, new)
    BY <1>3 DEF Linked
  <1>5. Found(x, old) => Found(x, new)
    BY <1>3 DEF Found
  <1> QED BY <1>1, <1>2, <1>4, <1>5 DEF Sound, Ready

\* A step of finalizer f that adds no row and takes no expression back.
LEMMA QuietChain ==
    ASSUME Inv, ChainInv, NEW f \in Finalizers, UNCHANGED <<closes, calibrations>>,
           \A g \in Finalizers \ {f} : run'[g] = run[g] /\ pending'[g] = pending[g],
           pending'[f] = {} \/ (pending'[f] = pending[f] /\ run'[f].left = run[f].left),
           Ready(run'[f], closes, calibrations)
    PROVE ChainInv'
  <1>1. \A g \in Finalizers : Ready(run'[g], closes, calibrations)
    BY DEF ChainInv
  <1>2. \A g \in Finalizers : \A c \in pending'[g] :
          c.expression \notin run'[g].left /\ Sound(c, closes, calibrations)
    BY DEF ChainInv
  <1>3. \A g \in Finalizers : OnePerDay(pending'[g])
    <2>1. OnePerDay({})
      BY DEF OnePerDay
    <2> QED BY <2>1 DEF ChainInv
  <1> HIDE DEF Ready, Sound, OnePerDay
  <1> QED BY <1>1, <1>2, <1>3 DEF ChainInv

LEMMA ReadyIdle == ASSUME NEW committed, NEW made PROVE Ready(Idle, committed, made)
  BY DEF Ready, Idle, Seen

LEMMA AbortChain ==
    ASSUME Inv, ChainInv, NEW f \in Finalizers, Abort(f), UNCHANGED <<closes, calibrations>>
    PROVE ChainInv'
  <1>1. run'[f] = Idle /\ pending'[f] = {}
    BY DEF Abort, Inv
  <1>2. \A g \in Finalizers \ {f} : run'[g] = run[g] /\ pending'[g] = pending[g]
    BY DEF Abort, Inv
  <1>3. Ready(run'[f], closes, calibrations)
    BY <1>1, ReadyIdle
  <1> HIDE DEF Idle
  <1> QED BY <1>1, <1>2, <1>3, QuietChain

LEMMA CountChain ==
    ASSUME Inv, ChainInv, NEW f \in Finalizers, NEW d \in Days, NEW p \in BOOLEAN, CountWindows(f, d, p)
    PROVE ChainInv'
  <1>1. IsRun(run[f]) /\ run[f] = Idle /\ Transaction(run[f], pending[f])
    BY DEF CountWindows, Inv
  <1>2. pending[f] = {}
    BY <1>1 DEF Transaction, Idle
  <1>3. /\ run'[f].at = "existing" /\ run'[f].day = d
        /\ run'[f].history = {<<c.expression, c.day>> : c \in closes}
    BY <1>1 DEF CountWindows, Inv, IsRun, Idle
  <1>4. Seen(run'[f], closes)
    <2> SUFFICES ASSUME NEW key \in run'[f].history PROVE Holds(closes, key[1], key[2])
      BY DEF Seen
    <2>1. PICK c \in closes : key = <<c.expression, c.day>>
      BY <1>3
    <2> QED BY <2>1 DEF Holds
  <1>5. Ready(run'[f], closes, calibrations)
    BY <1>3, <1>4, CloseAssumption DEF Ready, CloseAssumption
  <1>6. /\ UNCHANGED <<closes, calibrations>> /\ pending'[f] = {}
        /\ \A g \in Finalizers \ {f} : run'[g] = run[g] /\ pending'[g] = pending[g]
    BY <1>2 DEF CountWindows, Inv
  <1> QED BY <1>5, <1>6, QuietChain

\* A bounded set of numbers has a greatest.
LEMMA Greatest ==
    ASSUME NEW S \in SUBSET Nat, S # {}, NEW n \in Nat, \A k \in S : k < n
    PROVE \E m \in S : \A k \in S : k <= m
  <1> DEFINE gaps == {g \in Nat : n - g \in S}
  <1>1. PICK k \in S : TRUE
    OBVIOUS
  <1>2. n - k \in gaps
    BY <1>1
  <1>3. PICK g \in gaps : \A h \in gaps : ~(<<h, g>> \in OpToRel(<, Nat))
    <2>1. gaps \in SUBSET Nat /\ gaps # {}
      BY <1>2
    <2> HIDE DEF gaps
    <2> QED BY <2>1, NatLessThanWellFounded, WFMin
  <1>4. \A h \in gaps : ~(h < g)
    BY <1>3 DEF OpToRel
  <1>5. ASSUME NEW j \in S PROVE j <= n - g
    <2>1. n - j \in gaps /\ n - j \in Nat
      OBVIOUS
    <2>2. ~(n - j < g)
      BY <1>4, <2>1
    <2> QED BY <2>1, <2>2
  <1> QED BY <1>5

\* A calibration that ended before the day is chosen, and none of those is later.
LEMMA ChosenIsLast ==
    ASSUME NEW d \in Nat, calibrations \subseteq Nat
    PROVE /\ Chosen(d) = NoCalibration \/ (Chosen(d) \in calibrations /\ Chosen(d) < d)
          /\ NoCalibration <= Chosen(d)
          /\ \A c \in calibrations : c < d => c <= Chosen(d)
  <1> DEFINE ended == {c \in calibrations : c < d}
  <1>1. CASE ended = {}
    BY <1>1 DEF Chosen, NoCalibration
  <1>2. CASE ended # {}
    <2>1. ended \in SUBSET Nat /\ \A c \in ended : c < d
      OBVIOUS
    <2>2. Chosen(d) = Max(ended)
      BY <1>2 DEF Chosen
    <2> HIDE DEF ended
    <2>3. \E m \in ended : \A c \in ended : c <= m
      BY <1>2, <2>1, Greatest
    <2>4. Max(ended) \in ended /\ \A c \in ended : c <= Max(ended)
      BY <2>1, <2>3 DEF Max
    <2> QED BY <2>1, <2>2, <2>4 DEF ended, NoCalibration
  <1> QED BY <1>1, <1>2

LEMMA ChooseChain ==
    ASSUME Inv, ChainInv, NEW f \in Finalizers, ChooseCalibration(f)
    PROVE ChainInv'
  <1> DEFINE r == run[f]
  <1>1. IsRun(r) /\ r.day \in Nat /\ Seen(r, closes) /\ calibrations \subseteq Nat
    BY DEF Inv, ChainInv, Ready
  <1>2. /\ run'[f].at = "rows" /\ run'[f].day = r.day /\ run'[f].history = r.history
        /\ run'[f].calibration = Chosen(r.day) /\ run'[f].left = r.left
    BY <1>1 DEF ChooseCalibration, Inv, IsRun
  <1>3. Calibrated(run'[f], closes, calibrations)
    <2>1. ASSUME NEW b \in closes, b.day < r.day PROVE b.calibration <= Chosen(r.day)
      <3>1. b.calibration = NoCalibration \/ (b.calibration \in calibrations /\ b.calibration < b.day)
        BY DEF ChainInv, Sound, Calibrated
      <3>2. b.day \in Nat
        BY DEF ChainInv, Sound
      <3>3. b.calibration = NoCalibration \/ (b.calibration \in calibrations /\ b.calibration < r.day)
        <4>1. ASSUME b.calibration \in calibrations, b.calibration < b.day PROVE b.calibration < r.day
          <5>1. b.calibration \in Nat
            BY <1>1, <4>1
          <5> QED BY <1>1, <2>1, <3>2, <4>1, <5>1
        <4> QED BY <3>1, <4>1
      <3> QED BY <1>1, <3>3, ChosenIsLast
    <2> QED BY <1>1, <1>2, <2>1, ChosenIsLast DEF Calibrated
  <1>4. Ready(run'[f], closes, calibrations)
    BY <1>1, <1>2, <1>3 DEF Ready, Seen
  <1>5. /\ UNCHANGED <<closes, calibrations>> /\ pending' = pending
        /\ \A g \in Finalizers \ {f} : run'[g] = run[g]
    BY DEF ChooseCalibration, Inv
  <1> QED BY <1>2, <1>4, <1>5, QuietChain

\* The steps that only read on.
LEMMA ReadChain ==
    ASSUME Inv, ChainInv, NEW f \in Finalizers, (CheckExisting(f) /\ ~Abort(f)) \/ ReadRows(f)
    PROVE ChainInv'
  <1> DEFINE r == run[f]
  <1>1. IsRun(r) /\ Transaction(r, pending[f]) /\ Ready(r, closes, calibrations)
    BY DEF Inv, ChainInv
  <1>2. r.at \in {"existing", "rows"} /\ UNCHANGED <<closes, calibrations, pending>>
    BY DEF CheckExisting, ReadRows
  <1>3. pending[f] = {}
    BY <1>1, <1>2 DEF Transaction
  <1>4. /\ run'[f].day = r.day /\ run'[f].history = r.history /\ run'[f].calibration = r.calibration
        /\ run'[f].at = IF r.at = "existing" THEN "calibration" ELSE "prior"
    BY <1>1 DEF CheckExisting, ReadRows, Inv, IsRun
  <1>5. Ready(run'[f], closes, calibrations)
    BY <1>1, <1>2, <1>4 DEF Ready, Seen, Calibrated
  <1>6. \A g \in Finalizers \ {f} : run'[g] = run[g]
    BY DEF CheckExisting, ReadRows, Inv
  <1> QED BY <1>2, <1>3, <1>5, <1>6, QuietChain

\* What the query for the previous close finds.
LEMMA PriorIsLatest ==
    ASSUME ChainInv, NEW r, Seen(r, closes), r.day \in Nat, NEW e
    PROVE IF Prior(e, r.day) = NoPrior THEN ~SawEarlier(e, r)
          ELSE IsPrior(Prior(e, r.day), e, r, closes)
  <1> DEFINE earlier == {c \in closes : c.expression = e /\ c.day < r.day}
  <1>1. \A d : <<e, d>> \in r.history => Holds(closes, e, d)
    BY DEF Seen
  <1>2. \A d : d < r.day /\ <<e, d>> \in r.history => \E c \in earlier : c.day = d
    BY <1>1 DEF Holds
  <1>3. \A c \in earlier : c # NoPrior /\ c.day \in Nat /\ c.day < r.day
    BY DEF ChainInv, Sound
  <1>4. CASE earlier = {}
    <2>1. Prior(e, r.day) = NoPrior
      BY <1>4 DEF Prior
    <2> QED BY <1>2, <1>4, <2>1 DEF SawEarlier
  <1>5. CASE earlier # {}
    <2>1. \E c \in earlier : \A b \in earlier : b.day <= c.day
      <3> DEFINE days == {c.day : c \in earlier}
      <3>1. days \in SUBSET Nat /\ days # {} /\ \A d \in days : d < r.day
        BY <1>3, <1>5
      <3> HIDE DEF days
      <3>2. PICK m \in days : \A d \in days : d <= m
        BY <3>1, Greatest
      <3>3. PICK c \in earlier : c.day = m
        BY DEF days
      <3>4. \A b \in earlier : b.day <= m
        BY <3>2 DEF days
      <3> QED BY <3>3, <3>4
    <2>2. Prior(e, r.day) = CHOOSE c \in earlier : \A b \in earlier : b.day <= c.day
      BY <1>5 DEF Prior
    <2> DEFINE p == Prior(e, r.day)
    <2>3. p \in earlier /\ \A b \in earlier : b.day <= p.day
      BY <2>1, <2>2
    <2>4. p # NoPrior /\ p \in closes /\ p.expression = e /\ p.day < r.day
      BY <1>3, <2>3
    <2>5. \A d \in Days : d < r.day /\ <<e, d>> \in r.history => d <= p.day
      BY <1>2, <2>3
    <2> HIDE DEF p
    <2> QED BY <2>4, <2>5 DEF IsPrior, p
  <1> QED BY <1>4, <1>5

LEMMA LookChain ==
    ASSUME Inv, ChainInv, NEW f \in Finalizers, LookPrior(f)
    PROVE ChainInv'
  <1> DEFINE r == run[f]
             s == run'[f]
  <1>1. IsRun(r) /\ Ready(r, closes, calibrations) /\ r.at = "prior"
    BY DEF Inv, ChainInv, LookPrior
  <1>2. /\ s.at = "insert" /\ s.day = r.day /\ s.history = r.history /\ s.left = r.left
        /\ s.calibration = r.calibration /\ s.prior = Prior(Min(r.left), r.day)
    BY <1>1 DEF LookPrior, Inv, IsRun
  <1>3. s.day \in Nat /\ Seen(s, closes) /\ Calibrated(s, closes, calibrations)
    BY <1>1, <1>2 DEF Ready, Seen, Calibrated
  <1>4. Found(s, closes)
    <2>1. IF Prior(Min(s.left), s.day) = NoPrior THEN ~SawEarlier(Min(s.left), s)
          ELSE IsPrior(Prior(Min(s.left), s.day), Min(s.left), s, closes)
      BY <1>3, PriorIsLatest
    <2> QED BY <1>2, <2>1 DEF Found
  <1>5. Ready(s, closes, calibrations)
    BY <1>3, <1>4 DEF Ready
  <1>6. /\ UNCHANGED <<closes, calibrations>> /\ pending' = pending
        /\ \A g \in Finalizers \ {f} : run'[g] = run[g]
    BY DEF LookPrior, Inv
  <1> QED BY <1>2, <1>5, <1>6, QuietChain

\* The row carries on what the run has seen, chosen and found.
LEMMA RowIsSound ==
    ASSUME ChainInv, NEW f \in Finalizers, run[f].at = "insert"
    PROVE Sound(Row(f), closes, calibrations)
  <1> DEFINE r == run[f]
             e == Min(r.left)
             row == Row(f)
  <1>1. r.day \in Nat /\ Seen(r, closes) /\ Calibrated(r, closes, calibrations) /\ Found(r, closes)
    BY DEF ChainInv, Ready
  <1>2. /\ row.expression = e /\ row.day = r.day /\ row.history = r.history
        /\ row.calibration = r.calibration
        /\ row.index = IF r.prior = NoPrior THEN <<1, 1>>
                       ELSE <<r.prior.index[1] * row.smoothed, r.prior.index[2] * r.prior.smoothed>>
    BY DEF Row
  <1>3. row # NoPrior
    <2>1. "expression" \in DOMAIN row /\ "expression" \notin DOMAIN NoPrior
      BY DEF Row, NoPrior
    <2> QED BY <2>1
  <1> HIDE DEF row
  <1>4. Linked(row, closes)
    <2> SUFFICES ASSUME SawEarlier(e, row)
                 PROVE \E p \in closes :
                         /\ IsPrior(p, e, row, closes)
                         /\ row.index = <<p.index[1] * row.smoothed, p.index[2] * p.smoothed>>
      BY <1>2 DEF Linked
    <2>1. SawEarlier(e, r)
      BY <1>2 DEF SawEarlier
    <2>2. r.prior # NoPrior /\ IsPrior(r.prior, e, r, closes)
      BY <1>1, <2>1 DEF Found
    <2>3. IsPrior(r.prior, e, row, closes)
      BY <1>2, <2>2 DEF IsPrior
    <2>4. r.prior \in closes
      BY <2>2 DEF IsPrior
    <2> QED BY <1>2, <2>2, <2>3, <2>4
  <1>5. Seen(row, closes) /\ Calibrated(row, closes, calibrations)
    BY <1>1, <1>2 DEF Seen, Calibrated
  <1> QED BY <1>1, <1>2, <1>3, <1>4, <1>5 DEF Sound, row

LEMMA InsertChain ==
    ASSUME Inv, ChainInv, NEW f \in Finalizers, InsertRow(f), ~Abort(f)
    PROVE ChainInv'
  <1> DEFINE r == run[f]
             e == Min(r.left)
             row == Row(f)
  <1>1. IsRun(r) /\ r.at = "insert" /\ Ready(r, closes, calibrations)
    BY DEF Inv, ChainInv, InsertRow
  <1>2. e \in r.left
    BY <1>1, MinInSet DEF IsRun
  <1>3. Sound(row, closes, calibrations)
    BY <1>1, RowIsSound
  <1>4. row.expression = e
    BY DEF Row
  <1> HIDE DEF row
  <1>5. /\ UNCHANGED <<closes, calibrations>>
        /\ pending' = [pending EXCEPT ![f] = @ \cup {row}]
        /\ run' = [run EXCEPT ![f].at = "prior", ![f].left = @ \ {e}]
    BY DEF InsertRow, row
  <1>6. /\ pending'[f] = pending[f] \cup {row}
        /\ \A g \in Finalizers \ {f} : run'[g] = run[g] /\ pending'[g] = pending[g]
    BY <1>5 DEF Inv
  <1>7. /\ run'[f].at = "prior" /\ run'[f].left = r.left \ {e} /\ run'[f].day = r.day
        /\ run'[f].history = r.history /\ run'[f].calibration = r.calibration
    BY <1>1, <1>5 DEF Inv, IsRun
  <1>8. Ready(run'[f], closes, calibrations)
    BY <1>1, <1>7 DEF Ready, Seen, Calibrated
  <1>9. \A g \in Finalizers : Ready(run'[g], closes, calibrations)
    BY <1>6, <1>8 DEF ChainInv
  <1>10. \A g \in Finalizers : \A c \in pending'[g] :
           c.expression \notin run'[g].left /\ Sound(c, closes, calibrations)
    BY <1>3, <1>4, <1>6, <1>7 DEF ChainInv
  <1>11. \A g \in Finalizers : OnePerDay(pending'[g])
    <2>1. \A c \in pending[f] : c.expression # e
      BY <1>2 DEF ChainInv
    <2>2. OnePerDay(pending'[f])
      BY <1>4, <1>6, <2>1 DEF ChainInv, OnePerDay
    <2> QED BY <1>6, <2>2 DEF ChainInv
  <1> HIDE DEF Ready, Sound, OnePerDay
  <1> QED BY <1>5, <1>9, <1>10, <1>11 DEF ChainInv

LEMMA CommitChain ==
    ASSUME Inv, ChainInv, NEW f \in Finalizers, Commit(f)
    PROVE ChainInv'
  <1>1. /\ closes' = closes \cup pending[f] /\ calibrations' = calibrations
        /\ run'[f] = Idle /\ pending'[f] = {}
        /\ \A g \in Finalizers \ {f} : run'[g] = run[g] /\ pending'[g] = pending[g]
    BY DEF Commit, Abort, Inv
  <1>2. \A b \in closes' : b \in closes \/ ~Holds(closes, b.expression, b.day)
    BY <1>1 DEF Inv, RunsApart
  <1>3. \A x : /\ Sound(x, closes, calibrations) => Sound(x, closes', calibrations')
               /\ Ready(x, closes, calibrations) => Ready(x, closes', calibrations')
    BY <1>1, <1>2, StillSound
  <1>4. \A g \in Finalizers : Ready(run'[g], closes', calibrations')
    BY <1>1, <1>3, ReadyIdle DEF ChainInv
  <1>5. \A g \in Finalizers : \A c \in pending'[g] :
          c.expression \notin run'[g].left /\ Sound(c, closes', calibrations')
    BY <1>1, <1>3 DEF ChainInv
  <1>6. \A g \in Finalizers : OnePerDay(pending'[g])
    <2>1. OnePerDay({})
      BY DEF OnePerDay
    <2> QED BY <1>1, <2>1 DEF ChainInv
  <1>7. \A c \in closes' : Sound(c, closes', calibrations')
    BY <1>1, <1>3 DEF ChainInv
  <1>8. OnePerDay(closes')
    <2>1. OnePerDay(closes) /\ OnePerDay(pending[f])
      BY DEF ChainInv
    <2>2. \A b \in pending[f], c \in closes : ~(b.expression = c.expression /\ b.day = c.day)
      BY DEF Inv, RunsApart, Holds
    <2> QED BY <1>1, <2>1, <2>2 DEF OnePerDay
  <1> HIDE DEF Ready, Sound, OnePerDay
  <1> QED BY <1>1, <1>4, <1>5, <1>6, <1>7, <1>8 DEF ChainInv

LEMMA CalibrateChain ==
    ASSUME Inv, ChainInv, NEW last \in LastDays, Calibrate(last)
    PROVE ChainInv'
  <1>1. calibrations' = calibrations \cup {last} /\ UNCHANGED <<closes, run, pending>>
    BY DEF Calibrate
  <1>2. \A x : /\ Sound(x, closes, calibrations) => Sound(x, closes, calibrations')
               /\ Ready(x, closes, calibrations) => Ready(x, closes, calibrations')
    BY <1>1, StillSound
  <1>3. calibrations' \subseteq Nat
    BY <1>1, CloseAssumption DEF ChainInv, CloseAssumption
  <1> HIDE DEF Ready, Sound, OnePerDay
  <1> QED BY <1>1, <1>2, <1>3 DEF ChainInv

LEMMA ChainStep == Inv /\ ChainInv /\ [CloseNext]_closeVars => ChainInv'
  <1> SUFFICES ASSUME Inv, ChainInv, [CloseNext]_closeVars PROVE ChainInv'
    OBVIOUS
  <1>1. ASSUME NEW f \in Finalizers, NEW d \in Days, NEW p \in BOOLEAN, CountWindows(f, d, p)
        PROVE ChainInv'
    BY <1>1, CountChain
  <1>2. ASSUME NEW f \in Finalizers, CheckExisting(f) PROVE ChainInv'
    BY <1>2, AbortChain, ReadChain DEF CheckExisting
  <1>3. ASSUME NEW f \in Finalizers, ReadRows(f) PROVE ChainInv'
    BY <1>3, ReadChain
  <1>4. ASSUME NEW f \in Finalizers, InsertRow(f) PROVE ChainInv'
    BY <1>4, AbortChain, InsertChain DEF InsertRow
  <1>5. ASSUME NEW f \in Finalizers, Kill(f) PROVE ChainInv'
    BY <1>5, AbortChain DEF Kill
  <1>6. CASE UNCHANGED <<calibrations, closes, run, pending>>
    BY <1>6 DEF ChainInv
  <1>7. CASE \E d \in Days : Observe(d)
    BY <1>6, <1>7 DEF Observe
  <1>8. CASE UNCHANGED closeVars
    BY <1>6, <1>8 DEF closeVars
  <1> QED
    BY <1>1, <1>2, <1>3, <1>4, <1>5, <1>7, <1>8, ChooseChain, LookChain, CommitChain, CalibrateChain
    DEF CloseNext

LEMMA ChainInit == CloseInit => ChainInv
  <1> SUFFICES ASSUME CloseInit PROVE ChainInv
    OBVIOUS
  <1>1. \A f \in Finalizers : Ready(run[f], closes, calibrations)
    BY ReadyIdle DEF CloseInit
  <1> QED BY <1>1 DEF CloseInit, ChainInv, OnePerDay

\* The chosen calibrations and the snapshot of the finalizer: no interleaving of
\* runs and calibrations lets a close use an older calibration than an earlier
\* close it could see.
THEOREM CalibrationsNeverGoBack == CloseSpec => []CalibrationsAdvance
  <1>1. ChainInv => CalibrationsAdvance
    BY DEF ChainInv, Sound, Calibrated, CalibrationsAdvance
  <1>2. CloseInit => Inv /\ ChainInv
    BY InvInit, ChainInit
  <1>3. Inv /\ ChainInv /\ [CloseNext]_closeVars => (Inv /\ ChainInv)'
    BY InvStep, ChainStep
  <1> QED BY <1>1, <1>2, <1>3, PTL DEF CloseSpec

\* The chained index: for every level of prevalence and whoever runs when, the
\* index of a close moves from a close of its expression on an earlier day, and
\* never from one older than the last the run could see.
THEOREM IndexStaysChained == CloseSpec => []IndexIsChained
  <1>1. ChainInv => IndexIsChained
    <2> SUFFICES ASSUME ChainInv, NEW c \in closes,
                        {d \in Days : d < c.day /\ <<c.expression, d>> \in c.history} # {}
                 PROVE \E d \in Max({k \in Days : k < c.day /\ <<c.expression, k>> \in c.history}) .. c.day - 1 :
                         /\ Holds(closes, c.expression, d)
                         /\ SameIndex(c.index, <<CloseOf(c.expression, d).index[1] * c.smoothed,
                                                 CloseOf(c.expression, d).index[2] * CloseOf(c.expression, d).smoothed>>)
      BY DEF IndexIsChained
    <2> DEFINE known == {d \in Days : d < c.day /\ <<c.expression, d>> \in c.history}
    <2>1. SawEarlier(c.expression, c) /\ Linked(c, closes) /\ c.day \in Nat
      BY DEF SawEarlier, ChainInv, Sound
    <2>2. PICK p \in closes : /\ IsPrior(p, c.expression, c, closes)
                              /\ c.index = <<p.index[1] * c.smoothed, p.index[2] * p.smoothed>>
      BY <2>1 DEF Linked
    <2>3. p.expression = c.expression /\ p.day < c.day /\ p.day \in Nat /\ \A d \in known : d <= p.day
      BY <2>2 DEF IsPrior, ChainInv, Sound
    <2>4. CloseOf(c.expression, p.day) = p /\ Holds(closes, c.expression, p.day)
      BY <2>3 DEF CloseOf, Holds, ChainInv, OnePerDay
    <2>5. Max(known) \in known
      <3>1. known \in SUBSET Nat /\ known # {} /\ \A d \in known : d < c.day
        BY CloseAssumption DEF CloseAssumption
      <3> HIDE DEF known
      <3>2. \E m \in known : \A d \in known : d <= m
        BY <2>1, <3>1, Greatest
      <3> QED BY <3>1, <3>2 DEF Max
    <2>6. p.day \in Max(known) .. c.day - 1
      <3>1. known \subseteq Nat
        BY CloseAssumption DEF CloseAssumption
      <3> HIDE DEF known
      <3>2. Max(known) \in Nat /\ Max(known) <= p.day
        BY <2>3, <2>5, <3>1
      <3> QED BY <2>1, <2>3, <3>2
    <2>7. SameIndex(c.index, c.index)
      BY DEF SameIndex
    <2>8. \E d \in Max(known) .. c.day - 1 :
            /\ Holds(closes, c.expression, d)
            /\ SameIndex(c.index, <<CloseOf(c.expression, d).index[1] * c.smoothed,
                                    CloseOf(c.expression, d).index[2] * CloseOf(c.expression, d).smoothed>>)
      <3> HIDE DEF known, SameIndex, CloseOf, Holds
      <3> QED BY <2>2, <2>4, <2>6, <2>7
    <2> QED BY <2>8
  <1>2. CloseInit => Inv /\ ChainInv
    BY InvInit, ChainInit
  <1>3. Inv /\ ChainInv /\ [CloseNext]_closeVars => (Inv /\ ChainInv)'
    BY InvStep, ChainStep
  <1> QED BY <1>1, <1>2, <1>3, PTL DEF CloseSpec

-----------------------------------------------------------------------------
(***************************************************************************)
(* Migrations are committed once and in order for any number of            *)
(* deployments, files and starts.  The invariant adds what keeps two       *)
(* transactions apart: a file some transaction has applied is not          *)
(* committed, and no other transaction has applied it; and a process has   *)
(* passed over only files that are done.                                   *)
(***************************************************************************)

Steps == {"stopped", "select", "begin", "insert"}

TypeInv ==
    /\ done \subseteq Files
    /\ applied \in [Files -> Nat]
    /\ starts \in [Migrators -> Nat]
    /\ migrator \in [Migrators -> [at : Nat, step : Steps, mine : SUBSET Files]]

\* What a process holds: its own file, between the statements and the commit.
HoldsOwn(m) ==
    /\ migrator[m].mine = IF migrator[m].step = "insert" THEN {migrator[m].at} ELSE {}
    /\ migrator[m].step \in {"begin", "insert"} => migrator[m].at \in Files
    /\ migrator[m].step = "insert" => applied[migrator[m].at] = 0

\* Files before the one a process is at are done.
Passed(m) ==
    migrator[m].step # "stopped" => migrator[m].at >= 1 /\ \A f \in Files : f < migrator[m].at => f \in done

\* No two processes hold the same file.
Apart ==
    \A m, n \in Migrators : m # n =>
        ~(migrator[m].step = "insert" /\ migrator[n].step = "insert" /\ migrator[m].at = migrator[n].at)

MigrationInv == TypeInv /\ MigratedOnce /\ Apart /\ \A m \in Migrators : HoldsOwn(m) /\ Passed(m)

LEMMA MigrationInitInv == ASSUME MigrationInit PROVE MigrationInv
  BY DEF MigrationInit, MigrationInv, TypeInv, MigratedOnce, Apart, HoldsOwn, Passed, Stopped, Steps, Files

\* A step that only moves one process, to a place where it holds nothing.
Moves(m, at, step) ==
    /\ migrator' = [migrator EXCEPT ![m] = [at |-> at, step |-> step, mine |-> {}]]
    /\ done' = done /\ applied' = applied /\ starts' \in [Migrators -> Nat]
    /\ at \in Nat /\ step \in {"stopped", "select", "begin"}
    /\ step = "begin" => at \in Files
    /\ step # "stopped" => at >= 1 /\ \A f \in Files : f < at => f \in done

LEMMA MoveInv ==
    ASSUME MigrationInv, NEW m \in Migrators, NEW at, NEW step, Moves(m, at, step)
    PROVE  MigrationInv'
  <1> USE MigrationAssumption DEF MigrationInv, Moves
  <1>1. TypeInv'
    BY DEF TypeInv, Steps
  <1>2. MigratedOnce'
    BY DEF MigratedOnce
  <1>3. Apart'
    BY DEF Apart, TypeInv, Steps
  <1>4. ASSUME NEW n \in Migrators PROVE HoldsOwn(n)' /\ Passed(n)'
    <2>1. CASE n = m
      BY <2>1 DEF HoldsOwn, Passed, TypeInv, Steps
    <2>2. CASE n # m
      <3>1. migrator'[n] = migrator[n]
        BY <2>2 DEF TypeInv
      <3> QED
        BY <3>1 DEF HoldsOwn, Passed
    <2> QED
      BY <2>1, <2>2
  <1> QED
    BY <1>1, <1>2, <1>3, <1>4

LEMMA StartInv == ASSUME MigrationInv, NEW m \in Migrators, StartMigrator(m) PROVE MigrationInv'
  <1>1. Moves(m, 1, "select")
    BY DEF StartMigrator, Moved, Moves, MigrationInv, TypeInv, Files
  <1> QED
    BY <1>1, MoveInv

LEMMA SelectInv == ASSUME MigrationInv, NEW m \in Migrators, Select(m) PROVE MigrationInv'
  <1> DEFINE file == migrator[m].at
  <1>1. /\ file \in Nat /\ migrator[m].step = "select" /\ Passed(m) /\ starts \in [Migrators -> Nat]
        /\ done' = done /\ applied' = applied /\ starts' = starts
    BY DEF MigrationInv, TypeInv, Select
  <1>2. CASE file > MaxFile /\ migrator' = Ended(m)
    <2>1. Moves(m, 0, "stopped")
      BY <1>1, <1>2 DEF Moves, Ended, Stopped
    <2> QED
      BY <2>1, MoveInv
  <1>3. CASE file \in done /\ migrator' = Moved(m, file + 1, "select", {})
    <2>1. \A f \in Files : f < file + 1 => f \in done
      BY <1>1, <1>3 DEF Passed, Files
    <2>2. Moves(m, file + 1, "select")
      BY <1>1, <1>3, <2>1 DEF Moves, Moved
    <2> QED
      BY <2>2, MoveInv
  <1>4. CASE file \in Files \ done /\ migrator' = Moved(m, file, "begin", {})
    <2>1. file >= 1 /\ \A f \in Files : f < file => f \in done
      BY <1>1 DEF Passed
    <2>2. Moves(m, file, "begin")
      BY <1>1, <1>4, <2>1 DEF Moves, Moved
    <2> QED
      BY <2>2, MoveInv
  <1> QED
    BY <1>2, <1>3, <1>4 DEF Select

LEMMA StopInv == ASSUME MigrationInv, NEW m \in Migrators, StopMigrator(m) PROVE MigrationInv'
  <1>1. Moves(m, 0, "stopped")
    BY DEF StopMigrator, Ended, Stopped, Moves, MigrationInv, TypeInv
  <1> QED
    BY <1>1, MoveInv

LEMMA ApplyInv == ASSUME MigrationInv, NEW m \in Migrators, Apply(m) PROVE MigrationInv'
  <1> DEFINE file == migrator[m].at
  <1>1. file \in Files /\ migrator[m].step = "begin" /\ Passed(m) /\ starts \in [Migrators -> Nat]
    BY DEF MigrationInv, TypeInv, HoldsOwn, Apply
  <1>2. UNCHANGED <<done, applied, starts>>
    BY DEF Apply
  <1>3. CASE applied[file] > 0
    <2>1. Moves(m, 0, "stopped")
      BY <1>1, <1>2, <1>3 DEF Apply, Ended, Stopped, Moves
    <2> QED
      BY <2>1, MoveInv
  <1>4. CASE ~(applied[file] > 0)
    <2>1. migrator' = [migrator EXCEPT ![m] = [at |-> file, step |-> "insert", mine |-> {file}]]
      BY <1>4 DEF Apply, Moved
    <2>2. applied[file] = 0
      BY <1>1, <1>4 DEF MigrationInv, TypeInv
    <2>3. \A n \in Migrators \ {m} : ~(migrator[n].step = "insert" /\ migrator[n].at = file)
      BY DEF Apply, Blocked, MigrationInv, HoldsOwn
    <2>4. TypeInv'
      BY <1>1, <1>2, <2>1 DEF MigrationInv, TypeInv, Steps, Files
    <2>5. MigratedOnce'
      BY <1>2 DEF MigrationInv, MigratedOnce
    <2>6. Apart'
      BY <1>1, <2>1, <2>3 DEF MigrationInv, Apart, TypeInv
    <2>7. ASSUME NEW n \in Migrators PROVE HoldsOwn(n)' /\ Passed(n)'
      BY <1>1, <1>2, <2>1, <2>2 DEF MigrationInv, HoldsOwn, Passed, TypeInv
    <2> QED
      BY <2>4, <2>5, <2>6, <2>7 DEF MigrationInv
  <1> QED
    BY <1>3, <1>4

\* The commit: the file becomes done, and no other process had it applied.
LEMMA RecordInv == ASSUME MigrationInv, NEW m \in Migrators, Record(m) PROVE MigrationInv'
  <1> DEFINE file == migrator[m].at
  <1>1. /\ file \in Files /\ migrator[m].step = "insert" /\ migrator[m].mine = {file}
        /\ applied[file] = 0 /\ Passed(m)
    BY DEF MigrationInv, HoldsOwn, Record
  <1>2. /\ done' = done \union {file} /\ starts' = starts
        /\ migrator' = [migrator EXCEPT ![m] = [at |-> file + 1, step |-> "select", mine |-> {}]]
        /\ file \notin done
    BY DEF Record, Moved
  <1>3. applied' = [f \in Files |-> IF f = file THEN 1 ELSE applied[f]]
    BY <1>1 DEF Record, MigrationInv, TypeInv
  <1>4. TypeInv'
    <2> USE DEF MigrationInv, TypeInv
    <2>1. done' \subseteq Files /\ starts' \in [Migrators -> Nat]
      BY <1>1, <1>2
    <2>2. applied' \in [Files -> Nat]
      BY <1>1, <1>3
    <2>3. file + 1 \in Nat
      BY <1>1 DEF Files
    <2>4. migrator' \in [Migrators -> [at : Nat, step : Steps, mine : SUBSET Files]]
      BY <1>2, <2>3 DEF Steps
    <2> QED
      BY <2>1, <2>2, <2>3, <2>4
  <1>5. MigratedOnce'
    <2>1. \A f \in Files : applied'[f] = IF f \in done' THEN 1 ELSE 0
      BY <1>1, <1>2, <1>3 DEF MigrationInv, MigratedOnce
    <2>2. \A f \in done' : 1 .. f \subseteq done'
      BY MigrationAssumption, <1>1, <1>2 DEF MigrationInv, MigratedOnce, Passed, Files
    <2> QED
      BY <2>1, <2>2 DEF MigratedOnce
  <1>6. Apart'
    BY <1>2 DEF MigrationInv, Apart, TypeInv
  <1>7. ASSUME NEW n \in Migrators PROVE HoldsOwn(n)' /\ Passed(n)'
    <2>1. CASE n = m
      BY <1>1, <1>2, <2>1 DEF MigrationInv, HoldsOwn, Passed, TypeInv, Files
    <2>2. CASE n # m
      <3>1. migrator'[n] = migrator[n] /\ ~(migrator[n].step = "insert" /\ migrator[n].at = file)
        BY <1>1, <1>2, <2>2 DEF MigrationInv, Apart, TypeInv
      <3> QED
        BY <1>2, <1>3, <3>1 DEF MigrationInv, HoldsOwn, Passed
    <2> QED
      BY <2>1, <2>2
  <1> QED
    BY <1>4, <1>5, <1>6, <1>7 DEF MigrationInv

(***************************************************************************)
(* scripts/db-migrate.ts: whatever deployments run, die and run again, a   *)
(* migration is committed once, exactly when it is recorded, and never     *)
(* before an earlier one.                                                  *)
(***************************************************************************)
THEOREM AlwaysMigratedOnce == MigrationInit /\ [][MigrationNext]_migrationVars => []MigratedOnce
  <1>1. MigrationInit => MigrationInv
    BY MigrationInitInv
  <1>2. MigrationInv /\ [MigrationNext]_migrationVars => MigrationInv'
    <2> SUFFICES ASSUME MigrationInv, [MigrationNext]_migrationVars PROVE MigrationInv'
      OBVIOUS
    <2>1. CASE MigrationNext
      BY <2>1, StartInv, SelectInv, ApplyInv, RecordInv, StopInv DEF MigrationNext
    <2>2. CASE UNCHANGED migrationVars
      BY <2>2 DEF migrationVars, MigrationInv, TypeInv, MigratedOnce, Apart, HoldsOwn, Passed
    <2> QED
      BY <2>1, <2>2
  <1>3. MigrationInv => MigratedOnce
    BY DEF MigrationInv
  <1> QED
    BY <1>1, <1>2, <1>3, PTL
=============================================================================
