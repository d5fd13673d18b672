--------------------------- MODULE MCSupervision ---------------------------
(***************************************************************************)
(* The two supervised connections, for TLC: the worker's to its source and *)
(* the browser tab's to the API.  They share no state, so a behavior is    *)
(* one of either: `part` says which.  The worker's seconds are scaled      *)
(* down, the silence being two health periods and the longest delay half   *)
(* of one; the feed has the intervals of the code.                         *)
(***************************************************************************)
EXTENDS WorkerSupervision, RealtimeFeed

VARIABLE part

MCInit == part \in {"worker", "feed"} /\ Init /\ FeedInit

MCNext ==
    \/ part = "worker" /\ Next /\ UNCHANGED <<part, feedVars>>
    \/ part = "feed" /\ FeedNext /\ UNCHANGED <<part, vars>>

\* The fairness of each module, for the part that runs.
MCFairness ==
    /\ WF_vars(part = "worker" /\ Progress)
    /\ WF_feedVars(part = "feed" /\ FeedProgress)
    /\ WF_feedVars(part = "feed" /\ \E c \in Connections : GiveUp(c))
    /\ WF_feedVars(part = "feed" /\ Start)

MCSpec == MCInit /\ [][MCNext]_<<part, vars, feedVars>> /\ MCFairness

\* live() and the health timer: whatever dies or drops, the worker ends up
\* connected and HEALTHY again, unless its connection is an unwatched one.
WorkerRecovers == part = "worker" => Recovers

\* The ConnectionManager and the API's heartbeat: after the last fault the tab
\* is connected for good, silent sockets and refused attempts included.
TabRecovers == part = "feed" => FeedRecovers
=============================================================================
