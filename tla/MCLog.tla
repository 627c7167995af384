------------------------------- MODULE MCLog -------------------------------
(* The queue of log records and the log writer, for TLC.  A behaviour is one of the two; the  *)
(* other rests in its initial state.                                                           *)
EXTENDS MpscQueue

CONSTANTS p1, p2, f1, f2,
          MaxEnqueued  \* bound: positions won in the queue's part

VARIABLES
    part,
    \* LogWriter
    queue, signal, progress, writer, sink, producer, flusher, main

logVars == <<queue, signal, progress, writer, sink, producer, flusher, main>>

L == INSTANCE LogWriter WITH Producers <- {p1, p2}, Urgent <- {p2}, Flushers <- {f1, f2},
                             Capacity <- 2, WakeDepth <- 2, MaxLines <- 2, MaxDropped <- 1

\* The queue, and small casts of the log writer's threads: who takes part, how many lines are
\* queued and refused, and whether the sink may fail or rotate.
Parts ==
    {[of |-> "queue"],
     [of |-> "log", producers |-> {p1, p2}, flushers |-> {f1}, lines |-> 2, dropped |-> 0,
      faults |-> FALSE],
     [of |-> "log", producers |-> {p1}, flushers |-> {f1, f2}, lines |-> 1, dropped |-> 0,
      faults |-> TRUE],
     [of |-> "log", producers |-> {p2}, flushers |-> {}, lines |-> 2, dropped |-> 1, faults |-> TRUE]}

\* What a cell, a producer and the consumer hold before the first push is never read.
MCInit ==
    /\ part \in Parts
    /\ Init /\ item = [c \in Cells |-> got] /\ mine = [p \in Producers |-> got]
    /\ got = CHOOSE i \in Items : TRUE
    /\ L!Init

QueueNext == part.of = "queue" /\ Next /\ enqueuePos' <= MaxEnqueued /\ UNCHANGED logVars

LogNext ==
    /\ part.of = "log" /\ L!Next
    /\ Len(queue'.items) + queue'.deq <= part.lines /\ queue'.dropped <= part.dropped
    /\ sink'.failed \/ sink'.left # {} => part.faults
    /\ \A p \in {p1, p2} \ part.producers : producer'[p].at = "idle"
    /\ \A f \in {f1, f2} \ part.flushers : flusher'[f].at = "idle"
    /\ UNCHANGED vars

MCNext == (QueueNext \/ LogNext) /\ UNCHANGED part

\* Nothing that is fair in the log writer is enabled while it rests.
MCSpec == MCInit /\ [][MCNext]_<<part, vars, logVars>> /\ L!Fairness

\* The properties of LogWriter.
FlushCovers == L!FlushCovers
NoLostWake == L!NoLostWake
CallersReturn == L!CallersReturn
=============================================================================
