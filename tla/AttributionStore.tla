-------------------------- MODULE AttributionStore --------------------------
(***************************************************************************)
(* The post attribution store of the ingestion worker: AttributionStore    *)
(* (apps/worker/src/attribution.ts), durable, as BlueskyEventParser.parse()*)
(* (parser.ts) uses it.  The cache is in memory, the rows are in           *)
(* PostgreSQL; every write is sent through a pool of connections, not      *)
(* awaited, and only close() waits for the ones in flight.                 *)
(*                                                                         *)
(* The stream is what Jetstream sends, in order: a process delivers each   *)
(* event once (the deduplicator), the next one starts at a position before *)
(* or at the last one's (the checkpoint and its rewind).  Time is in days. *)
(***************************************************************************)
EXTENDS Integers, Sequences, FiniteSets

CONSTANTS
    Posts,
    Tagged,       \* the posts whose text has a registered expression
    Stream,       \* events: kind, post (0 for an engagement without one), target (or 0), day
    Retention,    \* retentionDays
    LastDay,      \* bound: the last day
    MaxRefusals   \* bound: crashes and failed writes

ASSUME AttributionAssumption ==
    /\ Stream \in Seq([kind : {"post", "delete", "like"}, post : Posts \cup {0},
                      target : Posts \cup {0}, day : 0 .. LastDay])
    /\ 0 \notin Posts /\ Tagged \subseteq Posts
    /\ \A i \in DOMAIN Stream : Stream[i].kind # "like" => Stream[i].post # 0
    /\ Retention \in Nat \ {0} /\ LastDay \in Nat /\ MaxRefusals \in Nat

\* A post is created once and not after its delete: a record has a key of its own.
ASSUME EventAssumption ==
    \A i, j \in DOMAIN Stream :
        Stream[i].kind = "post" /\ Stream[j].post = Stream[i].post
            => (Stream[j].kind = "post" => i = j) /\ (Stream[j].kind = "delete" => i < j)

VARIABLES
    up,         \* the process runs
    cache,      \* post -> "none", "LIVE" or "RESTORED"
    inFlight,   \* the writes the pool has not finished: [kind, post, expires]
    eligible,   \* eligibleEngagementEvents
    mapped,     \* mappedEngagementEvents
    rows,       \* post_attribution_map: post -> expires_at, or NoRow
    today,
    position,   \* the next event of the stream for this process
    reached,    \* history: the furthest position of any process
    unsaved,    \* history: posts whose last INSERT never ran
    kept,       \* history: posts whose last DELETE never ran, or ran before an INSERT
    refusals    \* history: the number of failures

cacheVars == <<cache, inFlight, eligible, mapped>>
historyVars == <<reached, unsaved, kept, refusals>>
attributionVars == <<up, cacheVars, rows, today, position, historyVars>>

NoRow == -1
Insert(p, expires) == [kind |-> "INSERT", post |-> p, expires |-> expires]
Delete(p) == [kind |-> "DELETE", post |-> p, expires |-> NoRow]

\* resolve(): what parse() asks for has a hit with expressions.
Resolves(p) == cache'[p] # "none" /\ p \in Tagged

Count(target) ==
    /\ eligible' = eligible + (IF target # 0 THEN 1 ELSE 0)
    /\ mapped' = mapped + (IF target # 0 /\ Resolves(target) THEN 1 ELSE 0)

\* recordPost(), for every post that is created, and the engagement its reply
\* or quote is.
RecordPost(event) ==
    /\ event.kind = "post"
    /\ cache' = [cache EXCEPT ![event.post] = "LIVE"]
    /\ inFlight' = inFlight \cup {Insert(event.post, event.day + Retention)}
    /\ Count(event.target)
    /\ unsaved' = unsaved \ {event.post}
    /\ kept' = kept

\* Mutant: the cache forgets and the row stays.
ForgetPostInMemory(event) ==
    /\ event.kind = "delete"
    /\ cache' = [cache EXCEPT ![event.post] = "none"]
    /\ UNCHANGED <<inFlight, eligible, mapped, unsaved>>
    /\ kept' = kept \ {event.post}

\* forgetPost().
ForgetPost(event) ==
    /\ event.kind = "delete"
    /\ cache' = [cache EXCEPT ![event.post] = "none"]
    /\ inFlight' = inFlight \cup {Delete(event.post)}
    /\ UNCHANGED <<eligible, mapped, unsaved>>
    /\ kept' = kept \ {event.post}

\* A like or a repost of a subject.
Engage(event) ==
    /\ event.kind = "like"
    /\ UNCHANGED <<cache, inFlight, unsaved, kept>>
    /\ Count(event.target)

\* parse() of the next event, synchronously.
ParseEvent ==
    /\ up /\ position <= Len(Stream)
    /\ LET event == Stream[position]
       IN event.day <= today /\ (RecordPost(event) \/ ForgetPost(event) \/ Engage(event))
    /\ position' = position + 1
    /\ reached' = IF position' > reached THEN position' ELSE reached
    /\ UNCHANGED <<up, rows, today, refusals>>

\* Each write in flight has a connection of its own: they run in any order.
\* A conflicting INSERT leaves expires_at as it was.
RunWrite(w) ==
    /\ w \in inFlight
    /\ inFlight' = inFlight \ {w}
    /\ rows' = [rows EXCEPT ![w.post] = IF w.kind = "DELETE" THEN NoRow
                                        ELSE IF @ # NoRow THEN @ ELSE w.expires]
    /\ kept' = IF w.kind = "DELETE" /\ \E v \in inFlight : v.kind = "INSERT" /\ v.post = w.post
               THEN kept \cup {w.post} ELSE kept
    /\ UNCHANGED <<up, cache, eligible, mapped, today, position, reached, unsaved, refusals>>

\* The writes ws never run.
Lost(ws) ==
    /\ unsaved' = unsaved \cup {w.post : w \in {v \in ws : v.kind = "INSERT"}}
    /\ kept' = kept \cup {w.post : w \in {v \in ws : v.kind = "DELETE"}}

\* A write is refused: its error is logged.
FailWrite(w) ==
    /\ w \in inFlight /\ refusals < MaxRefusals
    /\ inFlight' = inFlight \ {w}
    /\ Lost({w})
    /\ refusals' = refusals + 1
    /\ UNCHANGED <<up, cache, eligible, mapped, rows, today, position, reached>>

\* Mutant: the cleanup counts a day from now as past.
CleanupExpiredEarly ==
    /\ up
    /\ rows' = [p \in Posts |-> IF rows[p] <= today + 1 THEN NoRow ELSE rows[p]]
    /\ UNCHANGED <<up, cacheVars, today, position, historyVars>>

\* cleanupExpired(), every hour.
CleanupExpired ==
    /\ up
    /\ rows' = [p \in Posts |-> IF rows[p] <= today THEN NoRow ELSE rows[p]]
    /\ UNCHANGED <<up, cacheVars, today, position, historyVars>>

Empty == cache' = [p \in Posts |-> "none"] /\ inFlight' = {} /\ eligible' = 0 /\ mapped' = 0

\* close() waits for the writes in flight.
Close ==
    /\ up /\ inFlight = {}
    /\ up' = FALSE /\ Empty
    /\ UNCHANGED <<rows, today, position, historyVars>>

StoreCrash ==
    /\ up /\ refusals < MaxRefusals
    /\ up' = FALSE /\ Empty
    /\ Lost(inFlight)
    /\ refusals' = refusals + 1
    /\ UNCHANGED <<rows, today, position, reached>>

\* A new process: restore() fills the cache before the stream is consumed.
Start ==
    /\ ~up /\ up' = TRUE
    /\ cache' = [p \in Posts |-> IF rows[p] > today THEN "RESTORED" ELSE "none"]
    /\ position' \in 1 .. position
    /\ UNCHANGED <<inFlight, eligible, mapped, rows, today, historyVars>>

NextDay ==
    /\ today < LastDay /\ today' = today + 1
    /\ UNCHANGED <<up, cacheVars, rows, position, historyVars>>

AttributionInit ==
    /\ up = FALSE /\ today = 0 /\ position = 1 /\ reached = 1 /\ refusals = 0
    /\ cache = [p \in Posts |-> "none"] /\ inFlight = {} /\ eligible = 0 /\ mapped = 0
    /\ rows = [p \in Posts |-> NoRow]
    /\ unsaved = {} /\ kept = {}

AttributionNext ==
    \/ ParseEvent \/ CleanupExpired \/ Close \/ StoreCrash \/ Start \/ NextDay
    \/ \E w \in inFlight : RunWrite(w) \/ FailWrite(w)

AttributionSpec == AttributionInit /\ [][AttributionNext]_attributionVars

-----------------------------------------------------------------------------
(* Properties.                                                             *)

Happened(kind, p, before) ==
    \E i \in DOMAIN Stream : i < before /\ Stream[i].kind = kind /\ Stream[i].post = p

\* restore(), cleanupExpired() and recordPost(): through crashes and restarts a
\* post that was delivered is known as long as its retention lasts, unless it
\* was deleted or its INSERT never ran.
KnownWithinRetention ==
    up => \A i \in DOMAIN Stream :
        (i < reached /\ Stream[i].kind = "post" /\ Stream[i].post \notin unsaved
           /\ today < Stream[i].day + Retention /\ ~Happened("delete", Stream[i].post, reached))
        => cache[Stream[i].post] # "none"

\* forgetPost(): past its delete no process knows a post, not even one started
\* later, unless the DELETE never ran or a pooled INSERT ran after it.
ForgottenStaysForgotten ==
    up => \A p \in Posts \ kept : Happened("delete", p, position) => cache[p] = "none"
=============================================================================
