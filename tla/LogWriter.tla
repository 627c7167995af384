----------------------------- MODULE LogWriter -----------------------------
(***************************************************************************)
(* The log writer (core/log_writer.cpp) and the log file behind it.        *)
(*                                                                         *)
(* Any thread submits lines: it reserves a position of the bounded queue,  *)
(* fills it and wakes the writer when the line is worth it.  One writer    *)
(* thread drains the queue in passes, writes what it took to a sink,       *)
(* flushes the sink when it is asked to and sleeps with an idle timeout.   *)
(* flush() waits for a pass that covers everything queued at its call;     *)
(* stop() waits for a last pass.                                           *)
(*                                                                         *)
(* A line keeps the number of its position in the queue, counted from 1;   *)
(* how producers win a position is the subject of MpscQueue.               *)
(* Between the store that brings work and the look at whoever may sleep    *)
(* over it there is always a step boundary; neighbouring accesses whose    *)
(* order nobody can tell share a step.                                     *)
(***************************************************************************)
EXTENDS Integers, Sequences, FiniteSets

CONSTANTS Producers,   \* threads that log
          Urgent,      \* those of them that log warnings and errors
          Flushers,    \* threads that call flush()
          Capacity,    \* LOG_QUEUE_CAPACITY
          WakeDepth,   \* LOG_WAKE_DEPTH
          MaxLines,    \* bound: lines ever queued
          MaxDropped   \* bound: lines ever refused

VARIABLES
    queue,     \* [items, deq, dropped]: LogQueue; of an item whether it is urgent,
               \* whether it is filled and whether it was queued after stop() was called
    signal,    \* [urgent, sleeping, wake, running, stopping]: the flags and the wake semaphore
    progress,  \* [target, durable, lostFrom, waiters, ack]: what flush() and the writer share
    writer,    \* the writer thread: where it is and the members only it uses
    sink,      \* [page, disk, left, failed]: lines not flushed, flushed, rotated away unflushed
    producer,  \* [Producers -> [at, pos]]
    flusher,   \* [Flushers -> [at, target]]
    main       \* where the thread is that starts and stops the writer

vars == <<queue, signal, progress, writer, sink, producer, flusher, main>>

Never == MaxLines + 1  \* numeric_limits<uint64_t>::max(): above every position

depth == Len(queue.items)
enqueued == queue.deq + depth
flushPending == progress.target > writer.handled
covered(target) == progress.durable >= target /\ progress.lostFrom >= target
workWaiting == signal.urgent \/ depth >= WakeDepth \/ flushPending \/ signal.stopping

Init ==
    /\ queue = [items |-> <<>>, deq |-> 0, dropped |-> 0]
    /\ signal = [urgent |-> FALSE, sleeping |-> FALSE, wake |-> 0,
                 running |-> FALSE, stopping |-> FALSE]
    /\ progress = [target |-> 0, durable |-> 0, lostFrom |-> Never, waiters |-> 0, ack |-> 0]
    /\ writer = [at |-> "none", stopping |-> FALSE, final |-> 0, start |-> 0,
                 queuedAtStart |-> 0, droppedNow |-> 0, dropLine |-> FALSE, urgentLine |-> FALSE,
                 lastDropped |-> 0, handled |-> 0, unflushed |-> FALSE,
                 ackDurable |-> 0, ackLost |-> Never]
    /\ sink = [page |-> {}, disk |-> {}, left |-> {}, failed |-> FALSE]
    /\ producer = [p \in Producers |-> [at |-> "idle", pos |-> 0]]
    /\ flusher = [f \in Flushers |-> [at |-> "idle", target |-> 0]]
    /\ main = "new"

-----------------------------------------------------------------------------
(* submit() *)

idleProducer == [at |-> "idle", pos |-> 0]

\* queue_.push reserves the next position; a full queue refuses the line and counts it.
reserve(p) ==
    /\ producer[p].at = "idle"
    /\ depth < Capacity
    /\ enqueued < MaxLines
    /\ queue' = [queue EXCEPT !.items = Append(@, [urgent |-> p \in Urgent, full |-> FALSE,
                                                     late |-> signal.stopping])]
    /\ producer' = [producer EXCEPT ![p] = [at |-> "fill", pos |-> enqueued + 1]]
    /\ UNCHANGED <<signal, progress, writer, sink, flusher, main>>

refuse(p) ==
    /\ producer[p].at = "idle"
    /\ depth >= Capacity
    /\ queue.dropped < MaxDropped
    /\ queue' = [queue EXCEPT !.dropped = @ + 1]
    /\ signal' = [signal EXCEPT !.urgent = @ \/ p \in Urgent]
    /\ producer' = [producer EXCEPT ![p] = [at |-> "wake", pos |-> 0]]
    /\ UNCHANGED <<progress, writer, sink, flusher, main>>

submit(p) == reserve(p) \/ refuse(p)

\* The record is stored; a warning or an error raises the urgent flag, any other line counts on
\* the depth of the queue.
fill(p) ==
    LET i == producer[p].pos - queue.deq
        urgent == queue.items[i].urgent
    IN  /\ producer[p].at = "fill"
        /\ queue' = [queue EXCEPT !.items[i].full = TRUE]
        /\ signal' = [signal EXCEPT !.urgent = @ \/ urgent]
        /\ producer' = [producer EXCEPT ![p] = IF urgent \/ depth >= WakeDepth
                                               THEN [at |-> "wake", pos |-> 0]
                                               ELSE idleProducer]
        /\ UNCHANGED <<progress, writer, sink, flusher, main>>

\* Whoever flips the flag back releases the semaphore.
wakeIfSleeping ==
    signal' = [signal EXCEPT !.sleeping = FALSE,
                             !.wake = IF signal.sleeping THEN @ + 1 ELSE @]

submitWakes(p) ==
    /\ producer[p].at = "wake"
    /\ wakeIfSleeping
    /\ producer' = [producer EXCEPT ![p] = idleProducer]
    /\ UNCHANGED <<queue, progress, writer, sink, flusher, main>>

Submitting(p) == fill(p) \/ submitWakes(p)

-----------------------------------------------------------------------------
(* run() and pass() *)

\* The top of the loop, after the flag of the sleep before it is taken down: a stop is seen with
\* what is queued at that moment, the urgent flag is cleared before the queue is looked at.
beginPass ==
    /\ writer.at = "top"
    /\ signal' = [signal EXCEPT !.sleeping = FALSE, !.urgent = FALSE]
    /\ writer' = [writer EXCEPT !.at = "pop",
                                !.stopping = signal.stopping,
                                !.final = IF signal.stopping /\ ~ writer.stopping
                                          THEN enqueued ELSE @,
                                !.start = queue.deq, !.queuedAtStart = enqueued,
                                !.droppedNow = queue.dropped]
    /\ UNCHANGED <<queue, progress, sink, producer, flusher, main>>

dropLinePending == writer.droppedNow # writer.lastDropped

\* The line about the refused ones goes before the first record queued after the pass began.
takeRecord ==
    LET record == Head(queue.items)
        dropHere == dropLinePending /\ queue.deq >= writer.queuedAtStart
    IN  writer' = [writer EXCEPT !.lastDropped = IF dropHere THEN writer.droppedNow ELSE @,
                                 !.dropLine = @ \/ dropHere,
                                 !.urgentLine = @ \/ dropHere \/ record.urgent]

\* A pass takes at most a queue's worth, and stops at a position that is not filled yet.
canPop ==
    /\ queue.deq - writer.start < Capacity
    /\ queue.items # <<>>
    /\ Head(queue.items).full

pop ==
    /\ writer.at = "pop"
    /\ canPop
    /\ takeRecord
    /\ queue' = [queue EXCEPT !.items = Tail(@), !.deq = @ + 1]
    /\ UNCHANGED <<signal, progress, sink, producer, flusher, main>>

endDrain ==
    /\ writer.at = "pop"
    /\ ~ canPop
    /\ writer' = [writer EXCEPT !.at = "write",
                                !.queuedAtStart = 0, !.droppedNow = 0,
                                !.lastDropped = writer.droppedNow,
                                !.dropLine = @ \/ dropLinePending,
                                !.urgentLine = @ \/ dropLinePending]
    /\ UNCHANGED <<queue, signal, progress, sink, producer, flusher, main>>

batch == writer.start + 1 .. queue.deq

\* The file sinks close the old file when they rotate; what was not flushed in it never is.
rotateIfDue(due) ==
    IF due THEN [sink EXCEPT !.left = @ \cup sink.page, !.page = {}] ELSE sink

lowerTo(value, target) == IF value > target THEN target ELSE value
raiseTo(value, target) == IF value < target THEN target ELSE value

\* Bounds of write and flushSink: one rotation leaves lines behind, one failure is reported.
\* Mutant: a failed write does not record what was lost.
write_ForgetsLoss(due, ok) ==
    /\ writer.at = "write"
    /\ due => sink.left = {}
    /\ ok \/ ~ sink.failed
    /\ IF batch = {} /\ ~ writer.dropLine
       THEN /\ sink' = rotateIfDue(due)
            /\ writer' = [writer EXCEPT !.at = "flush"]
       ELSE /\ sink' = [rotateIfDue(due) EXCEPT !.page = IF ok THEN @ \cup batch ELSE @,
                                                !.failed = @ \/ ~ ok]
            /\ writer' = [writer EXCEPT !.at = "flush", !.unflushed = @ \/ ok]
    /\ UNCHANGED <<queue, signal, progress, producer, flusher, main>>

write(due, ok) ==
    /\ writer.at = "write"
    /\ due => sink.left = {}
    /\ ok \/ ~ sink.failed
    /\ IF batch = {} /\ ~ writer.dropLine
       THEN /\ sink' = rotateIfDue(due)
            /\ writer' = [writer EXCEPT !.at = "flush"]
            /\ UNCHANGED progress
       ELSE /\ sink' = [rotateIfDue(due) EXCEPT !.page = IF ok THEN @ \cup batch ELSE @,
                                                !.failed = @ \/ ~ ok]
            /\ writer' = [writer EXCEPT !.at = "flush", !.unflushed = @ \/ ok]
            /\ progress' = [progress EXCEPT !.lostFrom =
                                IF ok THEN @ ELSE lowerTo(@, writer.start)]
    /\ UNCHANGED <<queue, signal, producer, flusher, main>>

\* `interval' stands for the second since the last flush.  A target that the pass reached is
\* handled whether the flush succeeds or not; what was consumed is durable when nothing is left
\* to flush.
flushSink(interval, ok) ==
    LET asked == flushPending /\ queue.deq >= progress.target
        due == writer.unflushed /\ (writer.urgentLine \/ asked \/ writer.stopping \/ interval)
        unflushed == writer.unflushed /\ ~ (due /\ ok)
    IN  /\ writer.at = "flush"
        /\ ok \/ ~ sink.failed
        /\ sink' = IF ~ due THEN sink
                   ELSE IF ok THEN [sink EXCEPT !.disk = @ \cup sink.page, !.page = {}]
                              ELSE [sink EXCEPT !.failed = TRUE]
        /\ writer' = [writer EXCEPT !.at = "ack", !.unflushed = unflushed,
                                    !.urgentLine = FALSE, !.dropLine = FALSE,
                                    !.handled = IF asked THEN progress.target ELSE @]
        /\ progress' = [progress EXCEPT !.durable = IF unflushed THEN @ ELSE queue.deq]
        /\ UNCHANGED <<queue, signal, producer, flusher, main>>

\* acknowledge() gives a permit for every waiter there is when anything they wait for has changed.
\* Then run() decides: a full pass is followed by another, a stop or a flush that is not served
\* yet by a yield.
acknowledge ==
    LET changed == \/ progress.durable # writer.ackDurable
                   \/ progress.lostFrom # writer.ackLost
        full == queue.deq - writer.start >= Capacity
        ended == writer.stopping /\ queue.deq >= writer.final
        again == full \/ writer.stopping \/ flushPending
    IN  /\ writer.at = "ack"
        /\ progress' = [progress EXCEPT !.ack = IF changed THEN @ + progress.waiters ELSE @]
        /\ writer' = [writer EXCEPT
               !.at = IF ended THEN "done" ELSE IF again THEN "top" ELSE "lie",
               !.start = 0, !.ackDurable = progress.durable, !.ackLost = progress.lostFrom]
        /\ UNCHANGED <<queue, signal, sink, producer, flusher, main>>

-----------------------------------------------------------------------------
(* sleepUntilWoken() *)

lieDown ==
    /\ writer.at = "lie"
    /\ signal' = [signal EXCEPT !.sleeping = TRUE]
    /\ writer' = [writer EXCEPT !.at = "look"]
    /\ UNCHANGED <<queue, progress, sink, producer, flusher, main>>

\* Mutant: the writer does not look for a flush before it sleeps.
look_NoFlush ==
    /\ writer.at = "look"
    /\ writer' = [writer EXCEPT !.at = IF signal.urgent \/ depth >= WakeDepth \/ signal.stopping
                                       THEN "top" ELSE "asleep"]
    /\ UNCHANGED <<queue, signal, progress, sink, producer, flusher, main>>

look ==
    /\ writer.at = "look"
    /\ writer' = [writer EXCEPT !.at = IF workWaiting THEN "top" ELSE "asleep"]
    /\ UNCHANGED <<queue, signal, progress, sink, producer, flusher, main>>

wakeUp ==
    /\ writer.at = "asleep"
    /\ signal.wake > 0
    /\ signal' = [signal EXCEPT !.wake = @ - 1]
    /\ writer' = [writer EXCEPT !.at = "top"]
    /\ UNCHANGED <<queue, progress, sink, producer, flusher, main>>

idleTimeout ==
    /\ writer.at = "asleep"
    /\ signal.wake = 0
    /\ writer' = [writer EXCEPT !.at = "top"]
    /\ UNCHANGED <<queue, signal, progress, sink, producer, flusher, main>>

Writing ==
    \/ beginPass \/ pop \/ endDrain
    \/ \E due, ok \in BOOLEAN : write(due, ok) \/ flushSink(due, ok)
    \/ acknowledge \/ lieDown \/ look \/ wakeUp

-----------------------------------------------------------------------------
(* flush() *)

\* With no writer there is nobody to wait for; what is covered already, or lost, needs no wait.
\* Otherwise the target is raised to what is queued.
flush(f) ==
    /\ flusher[f].at = "idle"
    /\ signal.running
    /\ \/ /\ covered(enqueued) \/ progress.lostFrom < enqueued
          /\ flusher' = [flusher EXCEPT ![f] = [at |-> IF covered(enqueued) THEN "true" ELSE "false",
                                                target |-> enqueued]]
          /\ UNCHANGED progress
       \/ /\ ~ covered(enqueued) /\ progress.lostFrom >= enqueued
          /\ flusher' = [flusher EXCEPT ![f] = [at |-> "wake", target |-> enqueued]]
          /\ progress' = [progress EXCEPT !.target = raiseTo(@, enqueued)]
    /\ UNCHANGED <<queue, signal, writer, sink, producer, main>>

flushWakes(f) ==
    /\ flusher[f].at = "wake"
    /\ wakeIfSleeping
    /\ flusher' = [flusher EXCEPT ![f].at = "join"]
    /\ UNCHANGED <<queue, progress, writer, sink, producer, main>>

joinWaiters(f) ==
    /\ flusher[f].at = "join"
    /\ progress' = [progress EXCEPT !.waiters = @ + 1]
    /\ flusher' = [flusher EXCEPT ![f].at = "check"]
    /\ UNCHANGED <<queue, signal, writer, sink, producer, main>>

\* `done || covered(target)': what was covered once stays covered.
leaveWaiters(f) ==
    /\ progress' = [progress EXCEPT !.waiters = @ - 1]
    /\ flusher' = [flusher EXCEPT ![f].at = IF covered(flusher[f].target) THEN "true" ELSE "false"]

\* The condition of the loop; with nothing decided yet the flush waits for a permit.
checkCovered(f) ==
    LET target == flusher[f].target
        over == covered(target) \/ ~ signal.running \/ progress.lostFrom < target
    IN  /\ flusher[f].at = "check"
        /\ IF over THEN leaveWaiters(f)
           ELSE UNCHANGED progress /\ flusher' = [flusher EXCEPT ![f].at = "acquire"]
        /\ UNCHANGED <<queue, signal, writer, sink, producer, main>>

acquireAck(f) ==
    /\ flusher[f].at = "acquire"
    /\ progress.ack > 0
    /\ progress' = [progress EXCEPT !.ack = @ - 1]
    /\ flusher' = [flusher EXCEPT ![f].at = "check"]
    /\ UNCHANGED <<queue, signal, writer, sink, producer, main>>

flushTimeout(f) ==
    /\ flusher[f].at = "acquire"
    /\ progress.ack = 0
    /\ leaveWaiters(f)
    /\ UNCHANGED <<queue, signal, writer, sink, producer, main>>

Flushing(f) ==
    flushWakes(f) \/ joinWaiters(f) \/ checkCovered(f) \/ acquireAck(f)

-----------------------------------------------------------------------------
(* start() and stop() *)

start ==
    /\ main = "new"
    /\ signal' = [signal EXCEPT !.running = TRUE]
    /\ main' = "starting"
    /\ UNCHANGED <<queue, progress, writer, sink, producer, flusher>>

startThread ==
    /\ main = "starting"
    /\ main' = "up"
    /\ writer' = [writer EXCEPT !.at = "top"]
    /\ UNCHANGED <<queue, signal, progress, sink, producer, flusher>>

\* The thread cannot be created; a flush that came in between waits for its deadline.
startFails ==
    /\ main = "starting"
    /\ main' = "failed"
    /\ signal' = [signal EXCEPT !.running = FALSE]
    /\ sink' = [sink EXCEPT !.failed = TRUE]
    /\ UNCHANGED <<queue, progress, writer, producer, flusher>>

stop ==
    /\ main = "up"
    /\ signal' = [signal EXCEPT !.stopping = TRUE, !.wake = @ + 1]
    /\ main' = "join"
    /\ UNCHANGED <<queue, progress, writer, sink, producer, flusher>>

\* Joining the thread also closes the sink.
joinWriter ==
    /\ main = "join"
    /\ writer.at = "done"
    /\ signal' = [signal EXCEPT !.running = FALSE]
    /\ main' = "dismiss"
    /\ UNCHANGED <<queue, progress, writer, sink, producer, flusher>>

\* Mutant: stop() does not dismiss the flushes that still wait.
dismissWaiters_Forgets ==
    /\ main = "dismiss"
    /\ main' = "stopped"
    /\ UNCHANGED <<queue, signal, progress, writer, sink, producer, flusher>>

dismissWaiters ==
    /\ main = "dismiss"
    /\ progress' = [progress EXCEPT !.ack = @ + progress.waiters]
    /\ main' = "stopped"
    /\ UNCHANGED <<queue, signal, writer, sink, producer, flusher>>

Stopping == joinWriter \/ dismissWaiters

-----------------------------------------------------------------------------
Next ==
    \/ \E p \in Producers : submit(p) \/ Submitting(p)
    \/ Writing
    \/ idleTimeout
    \/ \E f \in Flushers : flush(f) \/ Flushing(f) \/ flushTimeout(f)
    \/ start \/ startThread \/ startFails \/ stop \/ Stopping

Spec == Init /\ [][Next]_vars

\* Every thread that is not blocked goes on; neither timeout is counted on.
Fairness ==
    /\ \A p \in Producers : WF_vars(Submitting(p))
    /\ WF_vars(Writing)
    /\ \A f \in Flushers : WF_vars(Flushing(f))
    /\ WF_vars(Stopping) /\ WF_vars(startThread \/ startFails)

FairSpec == Spec /\ Fairness

-----------------------------------------------------------------------------
(* Properties *)

Idle == {"idle", "true", "false"}

TypeOK ==
    /\ queue \in [items : Seq([urgent : BOOLEAN, full : BOOLEAN, late : BOOLEAN]), deq : Nat, dropped : Nat]
    /\ signal \in [urgent : BOOLEAN, sleeping : BOOLEAN, wake : Nat,
                   running : BOOLEAN, stopping : BOOLEAN]
    /\ progress \in [target : Nat, durable : Nat, lostFrom : Nat, waiters : Nat, ack : Nat]

\* stop() (log_writer.cpp:147) returns after everything queued at its call was taken from the
\* queue, and after what was taken was written and flushed, unless the sink failed.
StopDrains ==
    main \in {"dismiss", "stopped"} =>
        /\ \A i \in 1 .. depth : queue.items[i].late
        /\ ~ sink.failed => 1 .. queue.deq \subseteq sink.disk \cup sink.left

\* flush() answers true (log_writer.cpp:158) only when every line that was queued at its call was
\* written without an error and the sink was flushed after it; lines of a file that was rotated
\* away in between count as flushed here.  The last flush, stop(), covers what was queued.
FlushCovers ==
    /\ \A f \in Flushers :
           flusher[f].at = "true" => 1 .. flusher[f].target \subseteq sink.disk \cup sink.left
    /\ StopDrains

\* The writer does not sleep over work (sleepUntilWoken, wakeIfSleeping): while it waits for its
\* semaphore with an urgent line, a deep queue, a flush or a stop outstanding, the thread that
\* brought the work is still on its way to wake it.
NoLostWake ==
    LET owed == \/ \E p \in Producers : producer[p].at = "wake"
                \/ \E f \in Flushers : flusher[f].at = "wake"
    IN  writer.at = "asleep" /\ signal.wake = 0 =>
            /\ signal.urgent \/ flushPending \/ signal.stopping => owed
            /\ depth >= WakeDepth => owed \/ \E p \in Producers : producer[p].at = "fill"

\* A flush comes back without its deadline as long as the sink works, and stop() comes back,
\* whatever the others do and without the writer's idle timeout: no acknowledgement goes to the
\* wrong waiter for good and none is lost.
CallersReturn ==
    /\ \A f \in Flushers :
           (flusher[f].at \notin Idle) ~> (flusher[f].at \in Idle \/ sink.failed)
    /\ (main \in {"join", "dismiss"}) ~> (main = "stopped")

=============================================================================
