------------------------- MODULE RealtimeFeedProofs -------------------------
(***************************************************************************)
(* For every interval, burst and number of faults: the tab has one socket  *)
(* or one reconnect to come, shows silence in time and catches up within a *)
(* tick, and the server drops the deaf and keeps the responsive.           *)
(***************************************************************************)
EXTENDS RealtimeFeed, FiniteSetTheorems, TLAPS

FeedTypes ==
    /\ up \in BOOLEAN /\ ticked \in BOOLEAN /\ delayed \in BOOLEAN /\ missed \in BOOLEAN
    /\ peer \in [Connections -> {"none", "open"}]
    /\ alive \in [Connections -> BOOLEAN]
    /\ beat \in [Connections -> 0 .. Heartbeat]
    /\ link \in [Connections -> {"up", "stalled"}]
    /\ sock \in [Connections -> {"none", "connecting", "open", "closing"}]
    /\ feedState \in ConnectionStates
    /\ attempts \in 0 .. LastAttempt
    /\ reconnect \in Off .. LongestBackoff /\ watch \in Off .. Watch
    /\ silent \in 0 .. MaxSilence /\ inbox \in 0 .. Burst
    /\ feedFaults \in 0 .. MaxFeedFaults
    /\ deaf \in [Connections -> Nat]

(* Either a reconnect is to come, or there is exactly one socket.          *)
OneInv ==
    \/ reconnect # Off /\ \A c \in Connections : sock[c] = "none"
    \/ /\ reconnect = Off
       /\ \E c \in Connections : /\ sock[c] # "none"
                                 /\ \A d \in Connections : d # c => sock[d] = "none"

(* An established socket is watched, and only an open one has messages.    *)
WatchedInv ==
    /\ \A c \in Connections : sock[c] \in {"open", "closing"} => watch # Off
    /\ inbox > 0 => \E c \in Connections : sock[c] = "open"

(* The silence under CONNECTED is bounded by what is left to the next      *)
(* stale check.                                                            *)
SilenceInv == feedState = "CONNECTED" => watch # Off /\ silent <= ShownAfter + (Watch - watch)

(* A tick of this second has reached the tab, or reaches it in order: its  *)
(* first message closes the gap, its last one leaves CONNECTED.            *)
Followed(c) ==
    /\ sock[c] = "open" /\ peer[c] = "open" /\ up /\ ticked
    /\ link[c] = "up" \/ ~ delayed

CaughtInv ==
    \A c \in Connections : Followed(c) =>
        /\ inbox \in 1 .. Burst - 1 => ~ missed
        /\ inbox = 0 /\ silent = 0 /\ beat[c] < Heartbeat => ~ missed /\ feedState = "CONNECTED"

DownInv == ~ up => \A c \in Connections : peer[c] = "none"

(* How long a tab can have been deaf, and that one that was not has        *)
(* answered the last ping.                                                 *)
DeafInv ==
    \A c \in Connections :
        /\ deaf[c] <= 2 * Heartbeat
        /\ peer[c] = "open" => deaf[c] <= (IF alive[c] THEN Heartbeat ELSE 2 * Heartbeat) - beat[c]
        /\ peer[c] = "open" /\ ~ alive[c] /\ deaf[c] = 0 => beat[c] = Heartbeat

FeedInv ==
    FeedTypes /\ OneInv /\ WatchedInv /\ SilenceInv /\ CaughtInv /\ DownInv /\ DeafInv

-----------------------------------------------------------------------------
(* Delays and minima.                                                      *)

LEMMA MinOfTwo ==
    ASSUME NEW a \in Int, NEW b \in Int
    PROVE  Min({a, b}) = IF a <= b THEN a ELSE b
<1>1. \A m \in {a, b} : (\A y \in {a, b} : m =< y) <=> m = (IF a <= b THEN a ELSE b)
  OBVIOUS
<1>2. (IF a <= b THEN a ELSE b) \in {a, b}
  OBVIOUS
<1>3. \E m \in {a, b} : \A y \in {a, b} : m =< y
  BY <1>1, <1>2
<1>4. /\ Min({a, b}) \in {a, b}
      /\ \A y \in {a, b} : Min({a, b}) =< y
  BY <1>3, Zenon DEF Min
<1>5. QED
  BY <1>1, <1>4

LEMMA Delays == \A n \in 0 .. LastAttempt : Backoff(n) \in 1 .. LongestBackoff
<1>1. /\ 2 ^ 0 = 1 /\ 2 ^ 1 = 2 /\ 2 ^ 2 = 4 /\ 2 ^ 3 = 8 /\ 2 ^ 4 = 16
  OBVIOUS
<1>2. /\ 2 ^ 0 \in Nat \ {0} /\ 2 ^ 1 \in Nat \ {0} /\ 2 ^ 2 \in Nat \ {0}
      /\ 2 ^ 3 \in Nat \ {0} /\ 2 ^ 4 \in Nat \ {0}
  BY <1>1
<1>3. ASSUME NEW n \in 0 .. LastAttempt, n # 0 PROVE 2 ^ (n - 1) \in Nat \ {0}
  <2>1. n - 1 = 0 \/ n - 1 = 1 \/ n - 1 = 2 \/ n - 1 = 3 \/ n - 1 = 4
    BY <1>3 DEF LastAttempt
  <2> QED BY <1>2, <2>1, Zenon
<1>4. ASSUME NEW n \in 0 .. LastAttempt PROVE Backoff(n) \in 1 .. LongestBackoff
  <2> DEFINE s == IF n = 0 THEN 1 ELSE 2 ^ (n - 1)
  <2>1. s \in Nat \ {0}
    BY <1>3
  <2> HIDE DEF s
  <2>2. Min({LongestBackoff, s}) = IF LongestBackoff <= s THEN LongestBackoff ELSE s
    BY <2>1, MinOfTwo, FeedAssumption
  <2>3. Min({LongestBackoff, s}) \in 1 .. LongestBackoff
    BY <2>1, <2>2, FeedAssumption
  <2> QED BY <2>3 DEF Backoff, s
<1>5. QED
  BY <1>4

LEMMA ScheduleTypes ==
    ASSUME attempts \in 0 .. LastAttempt, ScheduleReconnect
    PROVE  /\ reconnect' \in 1 .. LongestBackoff /\ reconnect' # Off /\ reconnect' \in Off .. LongestBackoff
           /\ attempts' \in 0 .. LastAttempt
<1>1. reconnect' \in 1 .. LongestBackoff
  BY Delays DEF ScheduleReconnect
<1>2. attempts' = IF attempts + 1 <= LastAttempt THEN attempts + 1 ELSE LastAttempt
  BY MinOfTwo DEF ScheduleReconnect, LastAttempt
<1>3. QED
  BY <1>1, <1>2, FeedAssumption DEF Off, LastAttempt

LEMMA ClosedTypes ==
    ASSUME FeedTypes, NEW c \in Connections, SocketClosed(c)
    PROVE  /\ sock' \in [Connections -> {"none", "connecting", "open", "closing"}]
           /\ sock'[c] = "none" /\ \A d \in Connections : d # c => sock'[d] = sock[d]
           /\ watch' \in Off .. Watch /\ silent' = 0 /\ silent' \in 0 .. MaxSilence
           /\ inbox' = 0 /\ inbox' \in 0 .. Burst
           /\ delayed' \in BOOLEAN /\ missed' \in BOOLEAN
           /\ feedState' = "DISCONNECTED" /\ feedState' \in ConnectionStates
           /\ reconnect' # Off /\ reconnect' \in Off .. LongestBackoff /\ attempts' \in 0 .. LastAttempt
<1>1. reconnect' # Off /\ reconnect' \in Off .. LongestBackoff /\ attempts' \in 0 .. LastAttempt
  BY ScheduleTypes DEF SocketClosed, FeedTypes
<1>2. 0 \in 0 .. MaxSilence /\ 0 \in 0 .. Burst /\ Off \in Off .. Watch
  BY FeedAssumption DEF MaxSilence, Watch, Off
<1>3. QED
  BY <1>1, <1>2 DEF SocketClosed, FeedTypes, ConnectionStates

-----------------------------------------------------------------------------
(* The types.                                                              *)

LEMMA TypesStep ==
    ASSUME FeedTypes, FeedNext
    PROVE  FeedTypes'
<1>0. /\ Heartbeat \in 0 .. Heartbeat /\ 0 \in 0 .. Heartbeat
      /\ 0 \in 0 .. MaxSilence /\ MaxSilence \in Nat /\ 0 \in 0 .. Burst /\ Burst \in 0 .. Burst
      /\ Watch \in Off .. Watch /\ Off \in Off .. Watch /\ Off \in Off .. LongestBackoff
      /\ 0 \in 0 .. LastAttempt /\ Heartbeat \in Nat /\ LongestBackoff \in Nat
  BY FeedAssumption DEF MaxSilence, Watch, Off, LastAttempt
<1>1. CASE Tick
  BY <1>0, <1>1 DEF Tick, FeedTypes
<1>2. CASE OpenSocket
  <2>1. PICK c \in Connections : sock' = [sock EXCEPT ![c] = "connecting"]
    BY <1>2 DEF OpenSocket
  <2> QED BY <1>0, <1>2, <2>1 DEF OpenSocket, FeedTypes, serverVars, ConnectionStates
<1>3. CASE Message
  <2>1. inbox' \in 0 .. Burst
    BY <1>3, FeedAssumption DEF Message, FeedTypes
  <2> QED BY <1>0, <1>3, <2>1 DEF Message, FeedTypes, serverVars, ConnectionStates
<1>4. CASE StaleCheck
  <2>1. /\ sock' \in [Connections -> {"none", "connecting", "open", "closing"}]
        /\ inbox' \in 0 .. Burst /\ missed' \in BOOLEAN
        /\ attempts' = attempts /\ reconnect' = reconnect /\ feedState' \in ConnectionStates
    BY <1>0, <1>4 DEF StaleCheck, ForceClose, FeedTypes, ConnectionStates
  <2> QED BY <1>0, <1>4, <2>1 DEF StaleCheck, FeedTypes, serverVars
<1>5. CASE FeedSecond
  <2>1. beat' \in [Connections -> 0 .. Heartbeat]
    <3>1. \A c \in Connections : peer[c] = "open" => beat[c] # 0
      BY <1>5 DEF FeedSecond, FeedDue
    <3>2. \A c \in Connections : (IF peer[c] = "open" THEN beat[c] - 1 ELSE 0) \in 0 .. Heartbeat
      BY <1>0, <3>1 DEF FeedTypes
    <3> QED BY <1>5, <3>2 DEF FeedSecond
  <2>2. reconnect' \in Off .. LongestBackoff /\ watch' \in Off .. Watch
    BY <1>0, <1>5 DEF FeedSecond, FeedDue, Elapse, FeedTypes, Off, Watch
  <2>3. silent' \in 0 .. MaxSilence
    <3>1. silent + 1 \in Int /\ MaxSilence \in Int
      BY <1>0 DEF FeedTypes
    <3>2. Min({silent + 1, MaxSilence}) = IF silent + 1 <= MaxSilence THEN silent + 1 ELSE MaxSilence
      BY <3>1, MinOfTwo
    <3>3. Min({silent + 1, MaxSilence}) \in 0 .. MaxSilence
      BY <1>0, <3>2 DEF FeedTypes
    <3> QED BY <1>0, <1>5, <3>3 DEF FeedSecond
  <2>4. deaf' \in [Connections -> Nat]
    BY <1>5 DEF FeedSecond, FeedTypes
  <2> QED BY <1>5, <2>1, <2>2, <2>3, <2>4 DEF FeedSecond, FeedTypes
<1>6. CASE \E c \in Connections : Beat(c)
  BY <1>0, <1>6 DEF Beat, TerminateClient, FeedTypes, clientVars
<1>7. CASE \E c \in Connections : Pong(c)
  BY <1>0, <1>7 DEF Pong, FeedTypes, clientVars
<1>8. CASE \E c \in Connections : Established(c)
  BY <1>0, <1>8 DEF Established, StartStaleWatch, FeedTypes, ConnectionStates
<1>9. CASE \E c \in Connections : CloseEvent(c)
  <2>1. PICK c \in Connections : CloseEvent(c)
    BY <1>9
  <2>2. SocketClosed(c) /\ peer' \in [Connections -> {"none", "open"}]
    BY <2>1 DEF CloseEvent, TerminateClient, FeedTypes
  <2> QED BY <2>1, <2>2, ClosedTypes DEF CloseEvent, FeedTypes
<1>10. CASE \E c \in Connections : GiveUp(c)
  BY <1>10, ClosedTypes DEF GiveUp, FeedTypes, serverVars
<1>11. CASE \E c \in Connections : Stall(c)
  BY <1>11, FeedAssumption DEF Stall, Fault, FeedTypes, serverVars, clientVars
<1>12. CASE \E c \in Connections : Resume(c)
  BY <1>0, <1>12 DEF Resume, FeedTypes, serverVars
<1>13. CASE \E c \in Connections : Drop(c)
  <2>1. PICK c \in Connections : Drop(c)
    BY <1>13
  <2>2. /\ SocketClosed(c) /\ feedFaults' \in 0 .. MaxFeedFaults
        /\ link' \in [Connections -> {"up", "stalled"}]
    BY <2>1, FeedAssumption DEF Drop, Fault, FeedTypes
  <2> QED BY <2>1, <2>2, ClosedTypes DEF Drop, FeedTypes, serverVars
<1>14. CASE Stop
  <2>1. feedFaults' \in 0 .. MaxFeedFaults /\ peer' \in [Connections -> {"none", "open"}]
    BY <1>14, FeedAssumption DEF Stop, Fault, FeedTypes
  <2> QED BY <1>14, <2>1 DEF Stop, FeedTypes, clientVars
<1>15. CASE Start
  BY <1>15 DEF Start, FeedTypes
<1>16. QED
  BY <1>1, <1>2, <1>3, <1>4, <1>5, <1>6, <1>7, <1>8, <1>9, <1>10, <1>11, <1>12, <1>13,
     <1>14, <1>15 DEF FeedNext, FeedProgress

-----------------------------------------------------------------------------
(* One socket, watched while it is established.                            *)

LEMMA OneStep ==
    ASSUME FeedTypes, OneInv, FeedNext
    PROVE  OneInv'
<1>1. CASE OpenSocket
  <2>1. PICK c \in Connections : sock[c] = "none" /\ sock' = [sock EXCEPT ![c] = "connecting"]
    BY <1>1 DEF OpenSocket
  <2>2. reconnect' = Off /\ \A d \in Connections : sock[d] = "none"
    BY <1>1 DEF OpenSocket, OneInv, Off
  <2>3. sock'[c] = "connecting" /\ \A d \in Connections : d # c => sock'[d] = "none"
    BY <2>1, <2>2 DEF FeedTypes
  <2> QED BY <2>2, <2>3 DEF OneInv
<1>2. CASE StaleCheck
  <2>1. /\ reconnect' = reconnect
        /\ \A c \in Connections : sock'[c] = "none" <=> sock[c] = "none"
    BY <1>2 DEF StaleCheck, ForceClose
  <2> QED BY <2>1 DEF OneInv
<1>3. CASE FeedSecond
  <2>1. sock' = sock /\ (reconnect' = Off <=> reconnect = Off)
    BY <1>3 DEF FeedSecond, FeedDue, Elapse, FeedTypes, Off
  <2> QED BY <2>1 DEF OneInv
<1>4. CASE \E c \in Connections : Established(c)
  <2>1. /\ reconnect' = reconnect
        /\ \A c \in Connections : sock'[c] = "none" <=> sock[c] = "none"
    BY <1>4 DEF Established, FeedTypes
  <2> QED BY <2>1 DEF OneInv
<1>5. CASE \E c \in Connections : CloseEvent(c) \/ GiveUp(c) \/ Drop(c)
  <2>1. PICK c \in Connections : SocketClosed(c) /\ sock[c] # "none"
    BY <1>5 DEF CloseEvent, CloseDue, GiveUp, Drop
  <2>2. reconnect = Off /\ \A d \in Connections : d # c => sock[d] = "none"
    BY <2>1 DEF OneInv
  <2>3. reconnect' # Off /\ \A d \in Connections : sock'[d] = "none"
    BY <2>1, <2>2, ClosedTypes
  <2> QED BY <2>3 DEF OneInv
<1>6. CASE UNCHANGED <<sock, reconnect>>
  BY <1>6 DEF OneInv
<1>7. QED
  BY <1>1, <1>2, <1>3, <1>4, <1>5, <1>6 DEF FeedNext, FeedProgress, Tick, Message, Beat, Pong, Stall,
     Resume, Stop, Start, clientVars

LEMMA OneSock ==
    ASSUME OneInv, NEW c \in Connections, NEW d \in Connections,
           sock[c] # "none", sock[d] # "none"
    PROVE  c = d
BY DEF OneInv

LEMMA WatchedStep ==
    ASSUME FeedTypes, OneInv, WatchedInv, FeedNext
    PROVE  WatchedInv'
<1>1. CASE \E c \in Connections : Established(c)
  <2>1. PICK c \in Connections : Established(c)
    BY <1>1
  <2>2. watch' # Off /\ inbox' = inbox
    BY <2>1 DEF Established, StartStaleWatch, Watch, Off
  <2>3. sock'[c] = "open"
    BY <2>1 DEF Established, FeedTypes
  <2> QED BY <2>2, <2>3 DEF WatchedInv
<1>2. CASE \E c \in Connections : CloseEvent(c) \/ GiveUp(c) \/ Drop(c)
  <2>1. PICK c \in Connections : SocketClosed(c) /\ sock[c] # "none"
    BY <1>2 DEF CloseEvent, CloseDue, GiveUp, Drop
  <2>2. \A d \in Connections : sock'[d] = "none"
    BY <2>1, OneSock, ClosedTypes
  <2>3. ~ (inbox' > 0)
    BY <2>1 DEF SocketClosed
  <2> QED BY <2>2, <2>3 DEF WatchedInv
<1>3. CASE OpenSocket
  <2>1. PICK c \in Connections : sock' = [sock EXCEPT ![c] = "connecting"] /\ sock[c] = "none"
    BY <1>3 DEF OpenSocket
  <2>2. \A d \in Connections : sock'[d] \in {"open", "closing"} => sock'[d] = sock[d]
    BY <2>1 DEF FeedTypes
  <2>3. \A d \in Connections : sock[d] = "open" => sock'[d] = "open"
    BY <2>1 DEF FeedTypes
  <2> QED BY <1>3, <2>2, <2>3 DEF OpenSocket, WatchedInv
<1>4. CASE StaleCheck
  <2>1. watch' # Off
    BY <1>4 DEF StaleCheck, Watch, Off
  <2>2. inbox' > 0 => UNCHANGED <<sock, inbox>>
    BY <1>4 DEF StaleCheck, ForceClose
  <2> QED BY <2>1, <2>2 DEF WatchedInv
<1>5. CASE FeedSecond
  <2>1. UNCHANGED <<sock, inbox>> /\ (watch # Off => watch' # Off)
    BY <1>5 DEF FeedSecond, FeedDue, Elapse, FeedTypes, Off
  <2> QED BY <2>1 DEF WatchedInv
<1>6. CASE Message
  BY <1>6 DEF Message, WatchedInv, FeedTypes
<1>7. CASE Tick
  <2>1. inbox' > 0 => inbox > 0 \/ \E c \in Connections : sock[c] = "open"
    BY <1>7 DEF Tick, Answers, Live
  <2>2. UNCHANGED <<sock, watch>>
    BY <1>7 DEF Tick
  <2> QED BY <2>1, <2>2 DEF WatchedInv
<1>8. CASE \E c \in Connections : Resume(c)
  <2>1. inbox' > 0 => inbox > 0 \/ \E c \in Connections : sock[c] = "open"
    BY <1>8 DEF Resume
  <2>2. UNCHANGED <<sock, watch>>
    BY <1>8 DEF Resume
  <2> QED BY <2>1, <2>2 DEF WatchedInv
<1>9. CASE UNCHANGED <<sock, watch, inbox>>
  BY <1>9 DEF WatchedInv
<1>10. QED
  BY <1>1, <1>2, <1>3, <1>4, <1>5, <1>6, <1>7, <1>8, <1>9 DEF FeedNext, FeedProgress, Beat, Pong,
     Stall, Stop, Start, clientVars

LEMMA SilenceStep ==
    ASSUME FeedTypes, OneInv, WatchedInv, SilenceInv, FeedNext
    PROVE  SilenceInv'
<1>1. CASE \E c \in Connections : Established(c)
  <2>1. watch' = Watch /\ silent' = 0
    BY <1>1 DEF Established, StartStaleWatch
  <2> QED BY <2>1, FeedAssumption DEF SilenceInv, Watch, Off
<1>2. CASE \E c \in Connections : CloseEvent(c) \/ GiveUp(c) \/ Drop(c)
  BY <1>2 DEF CloseEvent, GiveUp, Drop, SocketClosed, SilenceInv
<1>3. CASE OpenSocket
  <2>1. UNCHANGED <<watch, silent>> /\ (feedState' = "CONNECTED" => feedState = "CONNECTED")
    BY <1>3 DEF OpenSocket
  <2> QED BY <2>1 DEF SilenceInv
<1>4. CASE StaleCheck
  <2> SUFFICES ASSUME feedState' = "CONNECTED" PROVE watch' # Off /\ silent' <= ShownAfter + (Watch - watch')
    BY DEF SilenceInv
  <2>1. watch = 0 /\ watch' = Watch /\ silent' = silent
    BY <1>4 DEF StaleCheck
  <2>2. feedState = "CONNECTED" /\ (silent > DisconnectAfter \/ ~ (silent > ShownAfter))
    BY <1>4 DEF StaleCheck
  <2>3. silent <= ShownAfter + Watch
    BY <2>1, <2>2, FeedAssumption DEF SilenceInv, Watch
  <2>4. silent <= ShownAfter
    BY <2>2, <2>3, FeedAssumption DEF FeedTypes, Watch
  <2> QED BY <2>1, <2>4, FeedAssumption DEF Watch, Off
<1>5. CASE FeedSecond
  <2> SUFFICES ASSUME feedState' = "CONNECTED" PROVE watch' # Off /\ silent' <= ShownAfter + (Watch - watch')
    BY DEF SilenceInv
  <2>1. watch # Off /\ silent <= ShownAfter + (Watch - watch)
    BY <1>5 DEF FeedSecond, SilenceInv
  <2>2. watch \in 1 .. Watch /\ watch' = watch - 1
    BY <1>5, <2>1 DEF FeedSecond, FeedDue, Elapse, FeedTypes, Off, Watch
  <2>3. silent' <= silent + 1
    <3>1. silent + 1 \in Int /\ MaxSilence \in Int /\ silent \in Nat
      BY FeedAssumption DEF FeedTypes, MaxSilence, Watch
    <3>2. Min({silent + 1, MaxSilence}) = IF silent + 1 <= MaxSilence THEN silent + 1 ELSE MaxSilence
      BY <3>1, MinOfTwo
    <3>3. silent' = 0 \/ silent' = Min({silent + 1, MaxSilence})
      BY <1>5 DEF FeedSecond
    <3> QED BY <3>1, <3>2, <3>3
  <2>4. silent' \in Nat
    BY TypesStep, FeedAssumption DEF FeedTypes, MaxSilence, Watch
  <2> QED BY <2>1, <2>2, <2>3, <2>4, FeedAssumption DEF FeedTypes, Watch, Off, MaxSilence
<1>6. CASE Message
  <2>1. watch # Off /\ watch' = watch /\ silent' = 0
    BY <1>6 DEF Message, WatchedInv
  <2> QED BY <2>1, FeedAssumption DEF SilenceInv, FeedTypes, Watch, Off
<1>7. CASE UNCHANGED <<feedState, watch, silent>>
  BY <1>7 DEF SilenceInv
<1>8. QED
  BY <1>1, <1>2, <1>3, <1>4, <1>5, <1>6, <1>7 DEF FeedNext, FeedProgress, Tick, Beat, Pong,
     Stall, Resume, Stop, Start, clientVars

-----------------------------------------------------------------------------
(* A tick is followed to its end.                                          *)

LEMMA DownStep ==
    ASSUME FeedTypes, DownInv, FeedNext
    PROVE  DownInv'
<1>1. CASE Stop
  BY <1>1 DEF Stop, DownInv
<1>2. CASE Start
  BY <1>2 DEF Start, DownInv
<1>3. CASE \E c \in Connections : Established(c)
  BY <1>3 DEF Established, DownInv
<1>4. CASE \E c \in Connections : Beat(c) \/ CloseEvent(c)
  <2>1. /\ up' = up
        /\ \A c \in Connections : peer[c] = "none" => peer'[c] = "none"
    BY <1>4 DEF Beat, CloseEvent, TerminateClient, FeedTypes
  <2> QED BY <2>1 DEF DownInv
<1>5. CASE UNCHANGED <<up, peer>>
  BY <1>5 DEF DownInv
<1>6. QED
  BY <1>1, <1>2, <1>3, <1>4, <1>5 DEF FeedNext, FeedProgress, Tick, OpenSocket, Message, StaleCheck, FeedSecond,
     Pong, GiveUp, Stall, Resume, Drop, serverVars

LEMMA CaughtStep ==
    ASSUME FeedTypes, OneInv, WatchedInv, DownInv, CaughtInv, FeedNext
    PROVE  CaughtInv'
<1> SUFFICES ASSUME NEW c \in Connections, Followed(c)'
             PROVE  /\ inbox' \in 1 .. Burst - 1 => ~ missed'
                    /\ inbox' = 0 /\ silent' = 0 /\ beat'[c] < Heartbeat
                           => ~ missed' /\ feedState' = "CONNECTED"
  BY DEF CaughtInv
<1>0. /\ sock'[c] = "open" /\ peer'[c] = "open" /\ up' /\ ticked'
      /\ link'[c] = "up" \/ ~ delayed'
  BY DEF Followed
<1>1. CASE Tick
  <2>1. Answers(c) => inbox' = Burst
    BY <1>1 DEF Tick
  <2>2. sock[c] = "open" /\ peer[c] = "open" /\ link' = link
    BY <1>0, <1>1 DEF Tick
  <2>3. link[c] = "stalled" => delayed'
    BY <1>1, <2>2 DEF Tick
  <2>4. inbox' = Burst
    BY <1>0, <2>1, <2>2, <2>3 DEF Answers, Live, FeedTypes
  <2> QED BY <2>4, FeedAssumption
<1>2. CASE OpenSocket
  <2>1. \A d \in Connections : sock[d] = "none"
    BY <1>2 DEF OpenSocket, OneInv, Off
  <2>2. sock'[c] # "open"
    BY <1>2, <2>1 DEF OpenSocket, FeedTypes
  <2> QED BY <1>0, <2>2
<1>3. CASE Message
  <2>1. Followed(c) /\ missed' = FALSE /\ inbox' = inbox - 1
    BY <1>0, <1>3 DEF Message, Followed, serverVars
  <2>2. inbox' = 0 => feedState' = "CONNECTED"
    <3> SUFFICES ASSUME inbox' = 0 PROVE feedState' = "CONNECTED"
      OBVIOUS
    <3>1. inbox \in 1 .. Burst - 1
      BY <2>1, FeedAssumption DEF FeedTypes
    <3>2. ~ missed
      BY <2>1, <3>1 DEF CaughtInv
    <3> QED BY <1>3, <3>2 DEF Message
  <2> QED BY <2>1, <2>2
<1>4. CASE StaleCheck
  <2>1. /\ UNCHANGED <<sock, inbox, missed, silent, beat>> /\ Followed(c)
        /\ feedState' = IF silent > ShownAfter THEN "DEGRADED" ELSE feedState
    BY <1>0, <1>4 DEF StaleCheck, ForceClose, Followed, serverVars
  <2>2. silent = 0 => feedState' = feedState
    BY <2>1, FeedAssumption
  <2> QED BY <2>1, <2>2 DEF CaughtInv
<1>5. CASE FeedSecond
  BY <1>0, <1>5 DEF FeedSecond
<1>6. CASE \E d \in Connections : Beat(d)
  <2>1. PICK d \in Connections : Beat(d)
    BY <1>6
  <2>2. /\ Followed(c) /\ UNCHANGED <<inbox, missed, silent, feedState>>
        /\ beat'[c] = (IF c = d THEN Heartbeat ELSE beat[c])
    BY <1>0, <2>1 DEF Beat, TerminateClient, Followed, FeedTypes, clientVars
  <2>3. ~ (Heartbeat < Heartbeat)
    BY FeedAssumption
  <2> QED BY <2>2, <2>3 DEF CaughtInv
<1>7. CASE \E d \in Connections : Established(d)
  <2>1. PICK d \in Connections : Established(d)
    BY <1>7
  <2>2. sock[d] = "connecting" /\ (c # d => sock[c] = "open")
    BY <1>0, <2>1 DEF Established, FeedTypes
  <2>3. c = d
    BY <2>2, OneSock
  <2>4. inbox = 0
    <3>1. \A e \in Connections : sock[e] # "open"
      BY <2>2, OneSock
    <3> QED BY <3>1, FeedAssumption DEF WatchedInv, FeedTypes
  <2>5. inbox' = 0 /\ beat'[c] = Heartbeat
    BY <2>1, <2>3, <2>4 DEF Established, FeedTypes
  <2> QED BY <2>5, FeedAssumption
<1>8. CASE \E d \in Connections : CloseEvent(d) \/ GiveUp(d) \/ Drop(d)
  <2>1. PICK d \in Connections : SocketClosed(d) /\ sock[d] # "none"
    BY <1>8 DEF CloseEvent, CloseDue, GiveUp, Drop
  <2>2. sock'[c] = "none"
    BY <2>1, OneSock, ClosedTypes
  <2> QED BY <1>0, <2>2
<1>9. CASE \E d \in Connections : Stall(d)
  <2>1. Followed(c) /\ UNCHANGED <<inbox, missed, silent, feedState, beat>>
    BY <1>0, <1>9 DEF Stall, Followed, FeedTypes, serverVars, clientVars
  <2> QED BY <2>1 DEF CaughtInv
<1>10. CASE \E d \in Connections : Resume(d)
  <2>1. PICK d \in Connections : Resume(d)
    BY <1>10
  <2>2. /\ sock[c] = "open" /\ peer[c] = "open" /\ sock[d] # "none"
        /\ up /\ ticked /\ UNCHANGED <<silent, feedState, beat>>
    BY <1>0, <2>1 DEF Resume, serverVars
  <2>3. c = d
    BY <2>2, OneSock
  <2>4. CASE delayed
    <3>1. inbox' = Burst
      BY <2>1, <2>2, <2>3, <2>4 DEF Resume
    <3> QED BY <3>1, FeedAssumption
  <2>5. CASE ~ delayed
    <3>1. Followed(c) /\ inbox' = inbox /\ missed' = missed
      BY <2>1, <2>2, <2>5 DEF Resume, Followed, FeedTypes
    <3> QED BY <2>2, <3>1 DEF CaughtInv
  <2> QED BY <2>4, <2>5
<1>11. CASE Stop \/ Start
  BY <1>0, <1>11 DEF Stop, Start, DownInv
<1>12. CASE \E d \in Connections : Pong(d)
  <2>1. Followed(c) /\ UNCHANGED <<inbox, missed, silent, feedState, beat>>
    BY <1>0, <1>12 DEF Pong, Followed, clientVars
  <2> QED BY <2>1 DEF CaughtInv
<1>13. QED
  BY <1>1, <1>2, <1>3, <1>4, <1>5, <1>6, <1>7, <1>8, <1>9, <1>10, <1>11, <1>12 DEF FeedNext, FeedProgress

-----------------------------------------------------------------------------
(* The heartbeat.                                                          *)

LEMMA DeafStep ==
    ASSUME FeedTypes, DeafInv, FeedNext
    PROVE  DeafInv'
<1> SUFFICES ASSUME NEW c \in Connections
             PROVE  /\ deaf'[c] <= 2 * Heartbeat
                    /\ peer'[c] = "open" =>
                           deaf'[c] <= (IF alive'[c] THEN Heartbeat ELSE 2 * Heartbeat) - beat'[c]
                    /\ peer'[c] = "open" /\ ~ alive'[c] /\ deaf'[c] = 0 => beat'[c] = Heartbeat
  BY DEF DeafInv
<1>0. /\ Heartbeat \in Nat \ {0} /\ beat[c] \in 0 .. Heartbeat /\ deaf[c] \in Nat
      /\ deaf[c] <= 2 * Heartbeat
      /\ peer[c] = "open" => deaf[c] <= (IF alive[c] THEN Heartbeat ELSE 2 * Heartbeat) - beat[c]
      /\ peer[c] = "open" /\ ~ alive[c] /\ deaf[c] = 0 => beat[c] = Heartbeat
  BY FeedAssumption DEF DeafInv, FeedTypes
<1>1. CASE Beat(c)
  <2>1. /\ peer[c] = "open" /\ beat[c] = 0 /\ beat'[c] = Heartbeat /\ deaf' = deaf
        /\ ~ alive'[c] /\ peer'[c] = (IF alive[c] THEN "open" ELSE "none")
    BY <1>1 DEF Beat, TerminateClient, FeedTypes
  <2> QED BY <1>0, <2>1
<1>2. CASE Pong(c)
  <2>1. alive'[c] /\ deaf'[c] = 0 /\ beat' = beat /\ peer' = peer
    BY <1>2 DEF Pong, FeedTypes
  <2> QED BY <1>0, <2>1
<1>3. CASE Established(c)
  <2>1. alive'[c] /\ deaf'[c] = 0 /\ beat'[c] = Heartbeat
    BY <1>3 DEF Established, FeedTypes
  <2> QED BY <1>0, <2>1
<1>4. CASE CloseEvent(c) \/ Stop
  <2>1. UNCHANGED deaf /\ peer'[c] = "none"
    BY <1>4 DEF CloseEvent, TerminateClient, Stop, FeedTypes
  <2> QED BY <1>0, <2>1
<1>5. CASE FeedSecond
  <2>1. /\ UNCHANGED <<peer, alive>>
        /\ beat'[c] = IF peer[c] = "open" THEN beat[c] - 1 ELSE 0
        /\ deaf'[c] = IF peer[c] = "open" /\ ~ Answers(c) THEN deaf[c] + 1 ELSE 0
    BY <1>5 DEF FeedSecond
  <2>2. (peer[c] = "open" => beat[c] # 0) /\ ~ PongDue(c)
    BY <1>5 DEF FeedSecond, FeedDue
  <2>3. ~ alive[c] => ~ Answers(c)
    BY <2>2 DEF PongDue
  <2> QED BY <1>0, <2>1, <2>2, <2>3
<1>6. CASE deaf'[c] = deaf[c] /\ peer'[c] = peer[c] /\ alive'[c] = alive[c] /\ beat'[c] = beat[c]
  BY <1>0, <1>6
<1>7. ASSUME NEW d \in Connections, d # c, Beat(d) \/ Pong(d) \/ Established(d) \/ CloseEvent(d)
      PROVE  deaf'[c] = deaf[c] /\ peer'[c] = peer[c] /\ alive'[c] = alive[c] /\ beat'[c] = beat[c]
  BY <1>7 DEF Beat, TerminateClient, Pong, Established, CloseEvent, FeedTypes
<1>8. CASE Tick \/ OpenSocket \/ Message \/ StaleCheck \/ Start
           \/ \E d \in Connections : GiveUp(d) \/ Stall(d) \/ Resume(d) \/ Drop(d)
  BY <1>6, <1>8 DEF Tick, OpenSocket, Message, StaleCheck, Start, GiveUp, Stall, Resume, Drop, serverVars
<1>9. QED
  BY <1>1, <1>2, <1>3, <1>4, <1>5, <1>6, <1>7, <1>8 DEF FeedNext, FeedProgress

-----------------------------------------------------------------------------
(* The invariant.                                                          *)

LEMMA FeedStarts == FeedInit => FeedInv
<1> SUFFICES ASSUME FeedInit PROVE FeedInv
  OBVIOUS
<1>1. 1 \in Connections /\ \A c \in Connections : c # 1 => sock[c] = "none"
  BY FeedAssumption DEF FeedInit, Connections
<1>2. FeedTypes
  <2>1. /\ 0 \in 0 .. Heartbeat /\ 0 \in 0 .. LastAttempt /\ Off \in Off .. LongestBackoff
        /\ Off \in Off .. Watch /\ 0 \in 0 .. MaxSilence /\ 0 \in 0 .. Burst
        /\ 0 \in 0 .. MaxFeedFaults
    BY FeedAssumption DEF LastAttempt, Off, Watch, MaxSilence
  <2> QED BY <2>1 DEF FeedInit, FeedTypes, ConnectionStates
<1>3. OneInv /\ WatchedInv
  BY <1>1 DEF FeedInit, OneInv, WatchedInv
<1>4. SilenceInv /\ DownInv /\ CaughtInv
  BY DEF FeedInit, SilenceInv, DownInv, CaughtInv, Followed
<1>5. DeafInv
  BY FeedAssumption DEF FeedInit, DeafInv
<1>6. QED
  BY <1>2, <1>3, <1>4, <1>5 DEF FeedInv

LEMMA FeedStep == FeedInv /\ [FeedNext]_feedVars => FeedInv'
<1>1. ASSUME FeedInv, FeedNext PROVE FeedInv'
  BY <1>1, TypesStep, OneStep, WatchedStep, SilenceStep, CaughtStep, DownStep, DeafStep DEF FeedInv
<1>2. ASSUME FeedInv, UNCHANGED feedVars PROVE FeedInv'
  BY <1>2 DEF feedVars, serverVars, clientVars, FeedInv, FeedTypes, OneInv, WatchedInv, SilenceInv,
     CaughtInv, Followed, DownInv, DeafInv
<1>3. QED
  BY <1>1, <1>2

LEMMA FeedAlways == FeedSpec => []FeedInv
BY FeedStarts, FeedStep, PTL DEF FeedSpec

(***************************************************************************)
(* The tab has one socket or one reconnect to come, never both and never   *)
(* none: the forced close of a silent socket waits for its "close" event.  *)
(***************************************************************************)
THEOREM AlwaysOneSocket == FeedSpec => []OneSocket
<1> DEFINE S == {c \in Connections : sock[c] # "none"}
<1>1. FeedInv => OneSocket
  <2> SUFFICES ASSUME FeedInv PROVE OneSocket
    OBVIOUS
  <2>1. {up, ticked, delayed, missed} \subseteq BOOLEAN
    BY Zenon DEF FeedInv, FeedTypes
  <2>2. FeedTypeOK
    BY <2>1 DEF FeedInv, FeedTypes, FeedTypeOK
  <2>3. CASE reconnect # Off /\ \A c \in Connections : sock[c] = "none"
    <3>1. S = {}
      BY <2>3
    <3>2. Cardinality(S) = 0
      BY <3>1, FS_EmptySet
    <3> QED BY <2>2, <2>3, <3>2 DEF OneSocket
  <2>4. CASE reconnect = Off /\ \E c \in Connections : /\ sock[c] # "none"
                                                   /\ \A d \in Connections : d # c => sock[d] = "none"
    <3>1. PICK c \in Connections : S = {c}
      BY <2>4
    <3>2. Cardinality(S) = 1
      BY <3>1, FS_Singleton
    <3> QED BY <2>2, <2>4, <3>2 DEF OneSocket
  <2> QED BY <2>3, <2>4 DEF FeedInv, OneInv
<1>2. QED
  BY <1>1, FeedAlways, PTL

(***************************************************************************)
(* CONNECTED is never shown over prices older than the stale limit and one *)
(* stale check.                                                            *)
(***************************************************************************)
THEOREM SilenceIsShown == FeedSpec => []SilenceShown
<1>1. FeedInv => SilenceShown
  BY FeedAssumption DEF FeedInv, FeedTypes, SilenceInv, SilenceShown, Watch, Off, MaxSilence
<1>2. QED
  BY <1>1, FeedAlways, PTL

(***************************************************************************)
(* When the messages of a tick are handled, a connected tab has the latest *)
(* prices and says so, whatever was lost before.                           *)
(***************************************************************************)
THEOREM CaughtUpInOneTick == FeedSpec => []CaughtUp
<1>1. FeedInv => CaughtUp
  BY DEF FeedInv, CaughtInv, Followed, CaughtUp, Answers, Live
<1>2. QED
  BY <1>1, FeedAlways, PTL

(***************************************************************************)
(* The server keeps the socket of a tab that cannot answer for at most two *)
(* heartbeats.                                                             *)
(***************************************************************************)
THEOREM HalfOpenAlwaysDropped == FeedSpec => []HalfOpenDropped
<1>1. FeedInv => HalfOpenDropped
  BY DEF FeedInv, DeafInv, HalfOpenDropped
<1>2. QED
  BY <1>1, FeedAlways, PTL

(***************************************************************************)
(* The heartbeat terminates no socket whose tab could answer its last      *)
(* ping: only the end of the server takes a responsive socket away.        *)
(***************************************************************************)
THEOREM ResponsiveAlwaysKept == FeedSpec => ResponsiveKept
<1> DEFINE Kept == \A c \in Connections : Answers(c) /\ deaf[c] = 0 /\ up' => peer'[c] = "open"
<1>1. FeedInv /\ [FeedNext]_feedVars => [Kept]_feedVars
  <2> SUFFICES ASSUME FeedInv, FeedNext, NEW c \in Connections, Answers(c), deaf[c] = 0, up',
                      peer'[c] # "open"
               PROVE  FALSE
    OBVIOUS
  <2>1. /\ sock[c] = "open" /\ link[c] = "up" /\ peer[c] = "open" /\ Heartbeat # 0
        /\ ~ alive[c] => beat[c] = Heartbeat
        /\ peer \in [Connections -> {"none", "open"}]
    BY FeedAssumption DEF Answers, Live, FeedInv, FeedTypes, DeafInv
  <2>2. \A d \in Connections : ~ Beat(d) /\ ~ CloseEvent(d)
    BY <2>1 DEF Beat, CloseEvent, CloseDue, TerminateClient
  <2>3. \A d \in Connections : ~ Established(d)
    BY <2>1 DEF Established
  <2> QED BY <2>1, <2>2, <2>3 DEF FeedNext, FeedProgress, Tick, OpenSocket, Message, StaleCheck, FeedSecond, Pong,
             GiveUp, Stall, Resume, Drop, Stop, Start, serverVars
<1>2. QED
  BY <1>1, FeedAlways, PTL DEF FeedSpec, ResponsiveKept
=============================================================================
