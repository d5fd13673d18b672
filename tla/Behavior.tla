------------------------------ MODULE Behavior ------------------------------
(***************************************************************************)
(* The behavior accumulator (cpp/src/expression/behavior.cpp) behind the   *)
(* replay controls of SimulationHandle                                     *)
(* (cpp/include/cult/exchange/simulation_api.hpp).  Events arrive late,    *)
(* twice and out of order; a replay may be paused, stepped and loaded      *)
(* again, and what was applied before stays.                               *)
(*                                                                         *)
(* Engagement weights, decay and the statistics over cascades are floating *)
(* point and stay out.                                                     *)
(***************************************************************************)
EXTENDS Naturals, Sequences, SequencesExt

CONSTANTS Expressions,
          Events,      \* the events a replay may hold, see EventType
          Parent,      \* record -> the record it answers, 0 for a root
          MaxApplied   \* bound: events applied in all

Records == DOMAIN Parent
EventType == [type : {"create", "reply", "repost", "like"},
              record : Records \union {0},   \* record_id, 0 when absent
              parent : Records \union {0},   \* parent_cascade_id
              cascade : Records,             \* cascade_id
              expressions : SUBSET Expressions]

ASSUME BehaviorAssumption ==
    /\ Events \subseteq EventType /\ Records \subseteq Nat \ {0}
    /\ \A r \in Records : Parent[r] \in Records \union {0} /\ Parent[r] < r
    /\ \A v \in Events : v.record # 0 => v.parent = Parent[v.record]

VARIABLES
    tape, cursor, status,  \* expression_tape_, cursor_, status_
    inRun,                 \* whether the call in flight is run()
    depthOf,               \* expression -> depth_by_record
    cascades,              \* expression -> cascade -> CascadeState
    creationFlow,          \* expression -> creation_flow
    applied                \* history: the events applied

states == <<depthOf, cascades, creationFlow>>
behaviorVars == <<tape, cursor, status, inRun, states, applied>>

NoCascade == [size |-> 0, breadth |-> 0, depth |-> 0, internal |-> {}]

BehaviorInit ==
    /\ tape = <<>> /\ cursor = 0 /\ status = "idle" /\ inRun = FALSE
    /\ depthOf = [e \in Expressions |-> <<>>]
    /\ cascades = [e \in Expressions |-> [c \in Records |-> NoCascade]]
    /\ creationFlow = [e \in Expressions |-> 0]
    /\ applied = <<>>

\* The larger of two depths, and one if a condition holds.
Larger(m, n) == IF m > n THEN m ELSE n
One(condition) == IF condition THEN 1 ELSE 0

\* The mutant that takes the depth of the thread for the parent's.
OwnDepthOfThread(e, v) ==
    IF v.parent = 0 THEN 1
    ELSE IF v.parent \in DOMAIN depthOf[e] THEN cascades[e][v.cascade].depth + 1 ELSE 2

\* own_depth: one more than the parent's, if this expression knows the parent.
OwnDepth(e, v) ==
    IF v.parent = 0 THEN 1
    ELSE IF v.parent \in DOMAIN depthOf[e] THEN depthOf[e][v.parent] + 1 ELSE 2

\* The cascade of expression e after event v.
Grown(e, v) ==
    LET c == cascades[e][v.cascade] IN
    [size |-> c.size + One(v.type = "create"),
     breadth |-> c.breadth + One(v.type \in {"reply", "repost"}),
     depth |-> Larger(c.depth, OwnDepth(e, v)),
     internal |-> c.internal \union ({v.parent} \ {0})]

\* apply(): each expression of the event on its own; an event without any is
\* ignored.
Apply(v) ==
    /\ creationFlow' = [e \in Expressions |->
           creationFlow[e] + One(e \in v.expressions /\ v.type = "create")]
    /\ cascades' = [e \in Expressions |->
           IF e \in v.expressions THEN [cascades[e] EXCEPT ![v.cascade] = Grown(e, v)]
           ELSE cascades[e]]
    /\ depthOf' = [e \in Expressions |->
           IF e \in v.expressions /\ v.record # 0
           THEN [r \in DOMAIN depthOf[e] \union {v.record} |->
                    IF r = v.record THEN OwnDepth(e, v) ELSE depthOf[e][r]]
           ELSE depthOf[e]]
    /\ applied' = Append(applied, v)

Exhausted == cursor >= Len(tape)

\* load_replay(): a new tape; what was accumulated is kept.
LoadReplay ==
    /\ ~inRun
    /\ \E t \in SeqOf(Events, MaxApplied - Len(applied)) :
           /\ tape' = t
           /\ status' = IF t = <<>> THEN "finished" ELSE "loaded"
    /\ cursor' = 0
    /\ UNCHANGED <<inRun, states, applied>>

\* step(), called by the client or by run(); run() ends when nothing runs.
StepReplay ==
    /\ IF Exhausted
       THEN status' = "finished" /\ UNCHANGED <<cursor, states, applied>>
       ELSE /\ Apply(tape[cursor + 1])
            /\ cursor' = cursor + 1
            /\ status' = IF status = "paused" THEN status
                         ELSE IF cursor' >= Len(tape) THEN "finished" ELSE "running"
    /\ inRun' = (inRun /\ status' = "running")
    /\ UNCHANGED tape

Run ==
    /\ ~inRun
    /\ status' = "running" /\ inRun' = TRUE
    /\ UNCHANGED <<tape, cursor, states, applied>>

Pause ==
    /\ ~inRun /\ status = "running"
    /\ status' = "paused"
    /\ UNCHANGED <<tape, cursor, inRun, states, applied>>

Resume ==
    /\ ~inRun /\ status = "paused"
    /\ status' = "running"
    /\ UNCHANGED <<tape, cursor, inRun, states, applied>>

BehaviorNext == LoadReplay \/ StepReplay \/ Run \/ Pause \/ Resume

(***************************************************************************)
(* Properties                                                              *)
(***************************************************************************)

\* How deep a record really lies in its thread.
TrueDepth[r \in Records] == IF Parent[r] = 0 THEN 1 ELSE TrueDepth[Parent[r]] + 1

\* Whether the i-th applied event told expression e of a record after the same
\* was told of its parent, and before that of the grandparent, up to the root.
InOrder(e) ==
    LET lineage[i \in 1 .. Len(applied)] ==
            /\ e \in applied[i].expressions
            /\ \/ applied[i].parent = 0
               \/ \E j \in 1 .. i - 1 : applied[j].record = applied[i].parent /\ lineage[j]
    IN lineage

\* Replies that overtake their parents, duplicates, threads that begin outside
\* the window or under another expression: a depth is never overstated, a child
\* is never taken for a root, a lineage that arrived in order is measured
\* exactly and stays so, a record told again is corrected, and a cascade is as
\* deep as the deepest event in it, likes and reposts included.  (apply().)
DepthIsEarned ==
    \A e \in Expressions :
        /\ \A r \in DOMAIN depthOf[e] :
               /\ depthOf[e][r] <= TrueDepth[r]
               /\ Parent[r] # 0 => depthOf[e][r] >= 2
        /\ \A i \in 1 .. Len(applied) : LET v == applied[i] IN
               InOrder(e)[i] =>
                   LET depth == IF v.parent = 0 THEN 1 ELSE TrueDepth[v.parent] + 1 IN
                   /\ v.record # 0 => depthOf[e][v.record] = depth
                   /\ cascades[e][v.cascade].depth >= depth
        /\ \A c \in Records : cascades[e][c].depth # 0 =>
               \E i \in 1 .. Len(applied) :
                   LET v == applied[i] IN
                   /\ v.cascade = c /\ e \in v.expressions
                   /\ cascades[e][c].depth <= IF v.parent = 0 THEN 1 ELSE TrueDepth[v.parent] + 1
=============================================================================
