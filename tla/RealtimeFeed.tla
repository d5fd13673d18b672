---------------------------- MODULE RealtimeFeed ----------------------------
(***************************************************************************)
(* The price feed: the /ws endpoint (apps/api/src/realtime.ts) and the one *)
(* ConnectionManager of a browser tab (apps/web/src/realtime).             *)
(*                                                                         *)
(* Time is explicit, in seconds: FeedSecond advances every timer, and only *)
(* when nothing that takes less than a second is due: timers that have run *)
(* out, messages, pongs and close frames on a link that is up.  A link may *)
(* stall (what is sent arrives late, if it resumes) or break, for one end  *)
(* or for both.  Other tabs only matter because they make the server tick. *)
(* Ids of connections are reused once both ends are done with them.        *)
(***************************************************************************)
EXTENDS Integers, FiniteSets, FiniteSetsExt

CONSTANTS
    Heartbeat,        \* HEARTBEAT_INTERVAL_MS
    ShownAfter,       \* STALE_AFTER_MS
    DisconnectAfter,  \* DISCONNECT_AFTER_MS
    LongestBackoff,   \* MAX_BACKOFF_MS
    Burst,            \* messages of one tick, one per listed asset
    MaxFeedFaults     \* bound: stalls, drops and server restarts

Watch == 2                       \* seconds between two stale checks

ASSUME FeedAssumption ==
    /\ {Heartbeat, ShownAfter, LongestBackoff} \subseteq Nat \ {0}
    /\ DisconnectAfter \in Nat /\ DisconnectAfter >= ShownAfter + Watch
    /\ Burst \in Nat /\ Burst >= 2 /\ MaxFeedFaults \in Nat

Connections == 1 .. MaxFeedFaults + 1
Off == -1                        \* a timer that is not set
LastAttempt == 5                 \* further attempts have the same delay
MaxSilence == DisconnectAfter + Watch + 1

VARIABLES
    up,         \* the API process runs
    peer,       \* connection -> the server's socket: "none", "open"
    alive,      \* connection -> the heartbeat's alive flag
    beat,       \* connection -> seconds to the next heartbeat
    link,       \* connection -> "up", "stalled"
    ticked,     \* this second's tick has been broadcast
    sock,       \* connection -> the tab's socket: "none", "connecting", "open", "closing"
    feedState,  \* ConnectionManager.state
    attempts,   \* ConnectionManager.attempt
    reconnect,  \* seconds to the reconnect, or Off
    watch,      \* seconds to the next stale check, or Off
    silent,     \* seconds since lastMessageAt
    inbox,      \* messages that have reached the tab
    delayed,    \* messages wait behind a stalled link
    missed,     \* the next message does not continue the sequence
    feedFaults, \* history: the number of faults
    deaf        \* history: connection -> seconds its tab has not answered

serverVars == <<up, peer, alive, beat, ticked>>
clientVars == <<sock, feedState, attempts, reconnect, watch, silent, inbox, missed>>
feedVars == <<serverVars, clientVars, link, delayed, feedFaults, deaf>>

Live(c) == sock[c] = "open" /\ link[c] = "up"
Answers(c) == Live(c) /\ peer[c] = "open"

(***************************************************************************)
(* The server.                                                             *)
(***************************************************************************)
TerminateClient(c) == peer' = [peer EXCEPT ![c] = "none"]

\* Mutant: the heartbeat pings and never looks at the flag.
BeatForever(c) ==
    /\ peer[c] = "open" /\ beat[c] = 0
    /\ beat' = [beat EXCEPT ![c] = Heartbeat]
    /\ alive' = [alive EXCEPT ![c] = FALSE]
    /\ UNCHANGED <<up, ticked, peer, clientVars, link, delayed, feedFaults, deaf>>

\* The heartbeat of one socket: terminate it when the last ping got no pong.
Beat(c) ==
    /\ peer[c] = "open" /\ beat[c] = 0
    /\ beat' = [beat EXCEPT ![c] = Heartbeat]
    /\ IF alive[c] THEN UNCHANGED peer ELSE TerminateClient(c)
    /\ alive' = [alive EXCEPT ![c] = FALSE]
    /\ UNCHANGED <<up, ticked, clientVars, link, delayed, feedFaults, deaf>>

PongDue(c) == Answers(c) /\ ~alive[c]
Pong(c) ==
    /\ PongDue(c)
    /\ alive' = [alive EXCEPT ![c] = TRUE]
    /\ deaf' = [deaf EXCEPT ![c] = 0]
    /\ UNCHANGED <<up, peer, beat, ticked, clientVars, link, delayed, feedFaults>>

\* tickTimer: nothing is broadcast, and no sequence number used, with no client.
Tick ==
    /\ up /\ ~ticked
    /\ ticked' = TRUE
    /\ \E others \in BOOLEAN :
         LET sent == others \/ \E c \in Connections : peer[c] = "open"
             heard == \E c \in Connections : Answers(c)
             held == \E c \in Connections : sock[c] = "open" /\ peer[c] = "open" /\ link[c] = "stalled"
         IN /\ inbox' = IF heard THEN Burst ELSE inbox
            /\ delayed' = (delayed \/ held)
            /\ missed' = (missed \/ (sent /\ ~heard /\ ~held))
    /\ UNCHANGED <<up, peer, alive, beat, sock, feedState, attempts, reconnect, watch, silent, link, feedFaults, deaf>>

(***************************************************************************)
(* The tab's ConnectionManager.                                            *)
(***************************************************************************)
\* 500 * 2^attempt ms, capped, in whole seconds.
Backoff(n) == Min({LongestBackoff, IF n = 0 THEN 1 ELSE 2 ^ (n - 1)})

\* scheduleReconnect(): one more attempt after its delay.
ScheduleReconnect ==
    /\ reconnect' = Backoff(attempts)
    /\ attempts' = Min({attempts + 1, LastAttempt})

\* The reconnect timer: open() makes a new socket.
OpenSocket ==
    /\ reconnect = 0
    /\ reconnect' = Off
    /\ feedState' = IF attempts > 0 THEN "RECONNECTING" ELSE feedState
    /\ \E c \in Connections :
         /\ sock[c] = "none" /\ peer[c] = "none"
         /\ \A d \in Connections : d < c => sock[d] # "none" \/ peer[d] # "none"
         /\ sock' = [sock EXCEPT ![c] = "connecting"]
    /\ UNCHANGED <<serverVars, attempts, watch, silent, inbox, missed, link, delayed, feedFaults, deaf>>

\* Mutant: the stale watch is started by the first connection only.
StartStaleWatchOnce == watch' = IF attempts = 0 THEN Watch ELSE Off

\* startStaleWatch(), from the "open" listener.
StartStaleWatch == watch' = Watch

\* Mutant: the server's alive flag starts as if a ping were unanswered.
EstablishedSilent(c) ==
    /\ up /\ sock[c] = "connecting"
    /\ sock' = [sock EXCEPT ![c] = "open"]
    /\ peer' = [peer EXCEPT ![c] = "open"]
    /\ alive' = [alive EXCEPT ![c] = FALSE]
    /\ beat' = [beat EXCEPT ![c] = 0]
    /\ link' = [link EXCEPT ![c] = "up"]
    /\ attempts' = 0 /\ silent' = 0 /\ feedState' = "CONNECTED"
    /\ deaf' = [deaf EXCEPT ![c] = 0]
    /\ StartStaleWatch
    /\ UNCHANGED <<up, ticked, reconnect, inbox, missed, delayed, feedFaults>>

\* "connection" on the server and "open" in the tab.
Established(c) ==
    /\ up /\ sock[c] = "connecting"
    /\ sock' = [sock EXCEPT ![c] = "open"]
    /\ peer' = [peer EXCEPT ![c] = "open"]
    /\ alive' = [alive EXCEPT ![c] = TRUE]
    /\ beat' = [beat EXCEPT ![c] = Heartbeat]
    /\ link' = [link EXCEPT ![c] = "up"]
    /\ attempts' = 0 /\ silent' = 0 /\ feedState' = "CONNECTED"
    /\ deaf' = [deaf EXCEPT ![c] = 0]
    /\ StartStaleWatch
    /\ UNCHANGED <<up, ticked, reconnect, inbox, missed, delayed, feedFaults>>

\* The "close" listener: what waited behind the link is lost.
SocketClosed(c) ==
    /\ sock' = [sock EXCEPT ![c] = "none"]
    /\ watch' = Off /\ silent' = 0 /\ inbox' = 0 /\ delayed' = FALSE
    /\ missed' = (missed \/ delayed \/ inbox > 0)
    /\ feedState' = "DISCONNECTED"
    /\ ScheduleReconnect

\* The "close" event: refused, closed by the peer, or the closing handshake.
CloseDue(c) ==
    \/ sock[c] = "connecting" /\ ~up
    \/ sock[c] = "open" /\ link[c] = "up" /\ peer[c] = "none" /\ inbox = 0
    \/ sock[c] = "closing" /\ link[c] = "up"

CloseEvent(c) ==
    /\ CloseDue(c)
    /\ SocketClosed(c)
    /\ TerminateClient(c)
    /\ UNCHANGED <<up, alive, beat, ticked, link, feedFaults, deaf>>

\* The browser gives up on the closing handshake of a stalled link.
GiveUp(c) ==
    /\ sock[c] = "closing" /\ link[c] = "stalled"
    /\ SocketClosed(c)
    /\ UNCHANGED <<serverVars, link, feedFaults, deaf>>

\* Mutant: a gap returns early, before the sequence number is remembered.
MessageStuck ==
    /\ inbox > 0
    /\ silent' = 0
    /\ feedState' = IF missed THEN "DEGRADED" ELSE "CONNECTED"
    /\ inbox' = inbox - 1
    /\ UNCHANGED <<serverVars, sock, attempts, reconnect, watch, missed, link, delayed, feedFaults, deaf>>

\* The "message" listener: any message means CONNECTED, a gap DEGRADED.
Message ==
    /\ inbox > 0
    /\ silent' = 0
    /\ feedState' = IF missed THEN "DEGRADED" ELSE "CONNECTED"
    /\ missed' = FALSE
    /\ inbox' = inbox - 1
    /\ UNCHANGED <<serverVars, sock, attempts, reconnect, watch, link, delayed, feedFaults, deaf>>

\* Mutant: the forced close schedules the reconnect without waiting for "close".
ForceCloseAndReconnect ==
    /\ sock' = [c \in Connections |-> IF sock[c] = "open" THEN "closing" ELSE sock[c]]
    /\ inbox' = 0
    /\ missed' = (missed \/ inbox > 0)
    /\ ScheduleReconnect

\* Mutant: a silent socket is reported and kept.
ForceNothing == UNCHANGED <<sock, inbox, missed, attempts, reconnect>>

\* this.socket?.close(): a socket that is closing drops what still arrives.
ForceClose ==
    /\ sock' = [c \in Connections |-> IF sock[c] = "open" THEN "closing" ELSE sock[c]]
    /\ inbox' = 0
    /\ missed' = (missed \/ inbox > 0)
    /\ UNCHANGED <<attempts, reconnect>>

\* The stale check.
StaleCheck ==
    /\ watch = 0
    /\ watch' = Watch
    /\ IF silent > DisconnectAfter
       THEN ForceClose /\ UNCHANGED feedState
       ELSE /\ feedState' = IF silent > ShownAfter THEN "DEGRADED" ELSE feedState
            /\ UNCHANGED <<sock, attempts, reconnect, inbox, missed>>
    /\ UNCHANGED <<serverVars, silent, link, delayed, feedFaults, deaf>>

(***************************************************************************)
(* Faults.                                                                 *)
(***************************************************************************)
Fault == feedFaults < MaxFeedFaults /\ feedFaults' = feedFaults + 1

\* The link stalls.
Stall(c) ==
    /\ Fault
    /\ Answers(c)
    /\ link' = [link EXCEPT ![c] = "stalled"]
    /\ UNCHANGED <<serverVars, clientVars, delayed, deaf>>

\* It resumes before the tab has given it up: what waited arrives.
Resume(c) ==
    /\ link[c] = "stalled" /\ sock[c] \in {"open", "closing"}
    /\ link' = [link EXCEPT ![c] = "up"]
    /\ delayed' = FALSE
    /\ LET arrives == delayed /\ sock[c] = "open" /\ peer[c] = "open"
       IN /\ inbox' = IF arrives THEN Burst ELSE inbox
          /\ missed' = (missed \/ (delayed /\ ~arrives))
    /\ UNCHANGED <<serverVars, sock, feedState, attempts, reconnect, watch, silent, feedFaults, deaf>>

\* The tab loses its network: it sees the close, the server does not.
Drop(c) ==
    /\ Fault
    /\ sock[c] = "open"
    /\ SocketClosed(c)
    /\ link' = [link EXCEPT ![c] = "stalled"]
    /\ UNCHANGED <<serverVars, deaf>>

\* The API process stops and starts again, with a new sequence: the first
\* number it sends may happen to continue the last one seen.
Stop ==
    /\ Fault
    /\ up
    /\ up' = FALSE /\ ticked' = TRUE
    /\ peer' = [c \in Connections |-> "none"]
    /\ UNCHANGED <<alive, beat, clientVars, link, delayed, deaf>>

Start ==
    /\ ~up
    /\ up' = TRUE
    /\ missed' \in BOOLEAN
    /\ UNCHANGED <<peer, alive, beat, ticked, sock, feedState, attempts, reconnect, watch, silent, inbox, link, delayed, feedFaults, deaf>>

(***************************************************************************)
(* Time.                                                                   *)
(***************************************************************************)
FeedDue ==
    \/ up /\ ~ticked
    \/ inbox > 0 \/ reconnect = 0 \/ watch = 0
    \/ \E c \in Connections : \/ sock[c] = "connecting" \/ CloseDue(c) \/ PongDue(c)
                              \/ peer[c] = "open" /\ beat[c] = 0

Elapse(timer) == IF timer = Off THEN Off ELSE timer - 1

FeedSecond ==
    /\ ~FeedDue
    /\ ticked' = ~up
    /\ beat' = [c \in Connections |-> IF peer[c] = "open" THEN beat[c] - 1 ELSE 0]
    /\ reconnect' = Elapse(reconnect)
    /\ watch' = Elapse(watch)
    /\ silent' = IF \A c \in Connections : sock[c] \in {"none", "connecting"} THEN 0 ELSE Min({silent + 1, MaxSilence})
    /\ deaf' = [c \in Connections |-> IF peer[c] = "open" /\ ~Answers(c) THEN deaf[c] + 1 ELSE 0]
    /\ UNCHANGED <<up, peer, alive, sock, feedState, attempts, inbox, missed, link, delayed, feedFaults>>

\* ensureRealtimeConnected() has made the manager and called connect().
FeedInit ==
    /\ up = TRUE /\ ticked = TRUE
    /\ peer = [c \in Connections |-> "none"]
    /\ alive = [c \in Connections |-> TRUE]
    /\ beat = [c \in Connections |-> 0]
    /\ link = [c \in Connections |-> "up"]
    /\ sock = [c \in Connections |-> IF c = 1 THEN "connecting" ELSE "none"]
    /\ feedState = "DISCONNECTED" /\ attempts = 0
    /\ reconnect = Off /\ watch = Off
    /\ silent = 0 /\ inbox = 0 /\ delayed = FALSE /\ missed = FALSE
    /\ feedFaults = 0 /\ deaf = [c \in Connections |-> 0]

\* What the two event loops, their timers and a working link do.
FeedProgress ==
    \/ Tick \/ OpenSocket \/ Message \/ StaleCheck \/ FeedSecond
    \/ \E c \in Connections : Beat(c) \/ Pong(c) \/ Established(c) \/ CloseEvent(c)

FeedNext ==
    \/ FeedProgress
    \/ \E c \in Connections : GiveUp(c) \/ Stall(c) \/ Resume(c) \/ Drop(c)
    \/ Stop \/ Start

\* The event loops run, a browser ends a closing handshake that gets no
\* answer, a stopped API process is started again.  A link need not resume.
FeedFairness ==
    /\ WF_feedVars(FeedProgress)
    /\ WF_feedVars(\E c \in Connections : GiveUp(c))
    /\ WF_feedVars(Start)

FeedSpec == FeedInit /\ [][FeedNext]_feedVars /\ FeedFairness

(***************************************************************************)
(* Properties.                                                             *)
(***************************************************************************)
ConnectionStates == {"CONNECTED", "DEGRADED", "RECONNECTING", "DISCONNECTED"}

\* The feed's variables have their types; no timer runs past its due time.
FeedTypeOK ==
    /\ {up, ticked, delayed, missed} \subseteq BOOLEAN
    /\ peer \in [Connections -> {"none", "open"}]
    /\ alive \in [Connections -> BOOLEAN]
    /\ beat \in [Connections -> 0 .. Heartbeat]
    /\ link \in [Connections -> {"up", "stalled"}]
    /\ sock \in [Connections -> {"none", "connecting", "open", "closing"}]
    /\ feedState \in ConnectionStates
    /\ attempts \in 0 .. LastAttempt
    /\ reconnect \in Off .. LongestBackoff /\ watch \in Off .. Watch
    /\ silent \in 0 .. MaxSilence /\ inbox \in 0 .. Burst
    /\ feedFaults \in 0 .. MaxFeedFaults

\* The tab never has two sockets, nor a socket and a reconnect to come: the
\* forced close of a silent socket waits for the "close" event.  The variables
\* keep their types.
OneSocket ==
    FeedTypeOK /\ Cardinality({c \in Connections : sock[c] # "none"}) + (IF reconnect = Off THEN 0 ELSE 1) = 1

\* CONNECTED is never shown over prices older than the stale limit and one
\* check, whatever the socket is doing.
SilenceShown == feedState = "CONNECTED" => silent <= ShownAfter + Watch

\* Once the messages of a tick are handled, a connected tab shows the latest
\* prices and CONNECTED: a gap left by a lost connection heals in one tick.
CaughtUp ==
    \A c \in Connections :
        Answers(c) /\ silent = 0 /\ ticked /\ up /\ inbox = 0 /\ sock[c] = "open" /\ beat[c] < Heartbeat
            => ~missed /\ feedState = "CONNECTED"

\* The server keeps the socket of a tab that cannot answer for at most two
\* heartbeats.
HalfOpenDropped == \A c \in Connections : deaf[c] <= 2 * Heartbeat

\* The heartbeat terminates no socket that could answer its last ping.
ResponsiveKept ==
    [][\A c \in Connections : Answers(c) /\ deaf[c] = 0 /\ up' => peer'[c] = "open"]_feedVars

\* After the last fault the tab is connected for good, silent sockets and
\* refused attempts included.
FeedRecovers == <>[](feedState = "CONNECTED")
=============================================================================
