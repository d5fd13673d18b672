----------------------------- MODULE Scheduler -----------------------------
(***************************************************************************)
(* The event clock of CULT-X (cpp/src/exchange/simulator.cpp): actions are *)
(* queued by time and by the order they were scheduled in, and step() runs *)
(* the first.  An action may schedule further ones; it does so after it    *)
(* left the queue and before the next step(), as any caller does, so one   *)
(* Schedule stands for both.                                               *)
(***************************************************************************)
EXTENDS Naturals, Sequences

CONSTANTS MaxTime,   \* bound: the last time anything is scheduled for
          MaxActions \* bound: actions scheduled

ASSUME SchedulerAssumption == MaxTime \in Nat /\ MaxActions \in Nat

VARIABLES
    now,        \* now_ns_
    sequence,   \* sequence_
    queue,      \* queue_: {[time, sequence]}
    ran         \* history: the actions run, in the order they ran

schedulerVars == <<now, sequence, queue, ran>>

Times == 0 .. MaxTime
Scheduled == [time : Times, sequence : 1 .. MaxActions]

SchedulerInit == now = 0 /\ sequence = 0 /\ queue = {} /\ ran = <<>>

\* Compare without its second part: equal times leave the heap in any order.
BeforeByTime(a, b) == a.time < b.time \/ (a.time = b.time /\ a.sequence # b.sequence)

\* Compare: the earlier time, then the earlier call of schedule().
Before(a, b) == a.time < b.time \/ (a.time = b.time /\ a.sequence < b.sequence)

MaySchedule(time) == time >= now

\* schedule(): a time in the past throws and changes nothing.
Schedule(time) ==
    /\ sequence < MaxActions
    /\ MaySchedule(time)
    /\ sequence' = sequence + 1
    /\ queue' = queue \union {[time |-> time, sequence |-> sequence + 1]}
    /\ UNCHANGED <<now, ran>>

\* step(): the clock jumps to the action it runs.
Step ==
    \E next \in queue :
        /\ \A other \in queue \ {next} : Before(next, other)
        /\ queue' = queue \ {next}
        /\ now' = next.time
        /\ ran' = Append(ran, next)
        /\ UNCHANGED sequence

SchedulerNext == Step \/ \E time \in Times : Schedule(time)

SchedulerSpec == SchedulerInit /\ [][SchedulerNext]_schedulerVars

(***************************************************************************)
(* Properties                                                              *)
(***************************************************************************)

\* Whatever is scheduled while the queue runs, from inside an action or for
\* the time it already is: the actions run in the order of their times and,
\* at one time, in the order they were scheduled; each runs once and none is
\* dropped.  (DeterministicScheduler::schedule and step.)
RunsInOrder ==
    /\ \A i, j \in 1 .. Len(ran) : i < j =>
           \/ ran[i].time < ran[j].time
           \/ ran[i].time = ran[j].time /\ ran[i].sequence < ran[j].sequence
    /\ \A n \in 1 .. sequence :
           \/ \E i \in 1 .. Len(ran) : ran[i].sequence = n
           \/ \E a \in queue : a.sequence = n
=============================================================================
