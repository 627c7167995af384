--------------------------- MODULE PointerWorker ---------------------------
(***************************************************************************)
(* The pointer thread (core/pointer_worker.cpp) with the threads that feed *)
(* it: the receive thread pushes mouse-mode touchpad frames to a single-   *)
(* producer ring, a topology change posts releases and the maintenance     *)
(* tick posts retries to a multi-producer queue.  The worker sleeps on the *)
(* semaphore of core/worker_wake.h, without a timeout.  Between the store  *)
(* that brings work and the look at whoever may sleep over it there is     *)
(* always a step boundary.                                                 *)
(*                                                                         *)
(* The pads are those of one session, that is of one slot of the hot       *)
(* table.  A pad is known by its backend serial.  Its pointer stamp tells  *)
(* the presses of one binding of the serial from those of the next.  One   *)
(* button stands for the three; motion, wheel and log lines are left out,  *)
(* as no decision depends on them.                                         *)
(***************************************************************************)
EXTENDS Integers, Sequences, FiniteSets

CONSTANTS Serials,          \* backend serials of the pads of one session
          FrameCapacity,    \* POINTER_FRAME_CAPACITY
          CommandCapacity,  \* POINTER_COMMAND_CAPACITY
          MaxStamp,         \* bound: stamps ever taken
          MaxPermits        \* bound: permits of the semaphore; one more would be spurious too

VARIABLES
    pad,       \* [Serials -> [mode, stamp]]: the Controller rows, under mtx_
    hot,       \* the same as the hot table publishes it
    change,    \* the topology change: where it is, what it releases, its command
    tick,      \* the maintenance tick: where it is, its command
    rx,        \* the receive thread: where it is, the frame it read
    frames,    \* frames_: frames in the ring
    commands,  \* commands_: [full, cmd] by position
    wake,      \* [sleeping, permits]: WorkerWake
    worker,    \* [at, frame, worked]: where the worker is
    held,      \* [Serials -> [by, releaseStamp]]: pads_, by the stamp of the frame that holds the button
    retry,     \* retryPending_
    host,      \* [button, accepts]: what the desktop holds, and whether it takes input now
    main       \* the thread that owns the service: "up", in the destructor "notify", "join"

vars == <<pad, hot, change, tick, rx, frames, commands, wake, worker, held, retry, host, main>>

Modes == {"gone", "off", "mouse"}  \* "off" is any mode whose frames do not reach the pointer
NoFrame == [serial |-> 0, stamp |-> 0, pressed |-> FALSE]
Retry == [kind |-> "retry", serial |-> 0, stamp |-> 0]
Release(s, stamp) == [kind |-> "release", serial |-> s, stamp |-> stamp]

stopping == main # "up"
nextStamp == change.stamp + 1
depth == Len(commands)

\* Mutant: a stop is not counted as work.
hasWork_NoStop == frames # <<>> \/ depth # 0

hasWork == frames # <<>> \/ depth # 0 \/ stopping
union == \E s \in Serials : held[s].by # 0

Init ==
    /\ pad = [s \in Serials |-> [mode |-> "gone", stamp |-> 0]]
    /\ hot = pad
    /\ change = [at |-> "idle", todo |-> {}, cmd |-> Retry, stamp |-> 0]
    /\ tick = "idle"
    /\ rx = [at |-> "idle", frame |-> NoFrame]
    /\ frames = <<>>
    /\ commands = <<>>
    /\ wake = [sleeping |-> FALSE, permits |-> 0]
    /\ worker = [at |-> "frames", frame |-> NoFrame, worked |-> FALSE]
    /\ held = [s \in Serials |-> [by |-> 0, releaseStamp |-> 0]]
    /\ retry = FALSE
    /\ host \in [button : {FALSE}, accepts : BOOLEAN]
    /\ main = "up"

\* notify(): whoever flips the flag back releases the semaphore.
notify ==
    LET released == wake.sleeping /\ wake.permits < MaxPermits
    IN  wake' = [sleeping |-> FALSE, permits |-> wake.permits + (IF released THEN 1 ELSE 0)]

-----------------------------------------------------------------------------
(* The topology change, one at a time under mtx_ *)

\* A re-PUT, a removal, a replug or a change of mode begins with the pads it releases; what they
\* become is published at its end.
beginChange(S, mode) ==
    /\ change.at = "idle" /\ ~ stopping
    /\ S # {} /\ \A s \in S : pad[s].mode # "gone"
    /\ change.stamp + Cardinality(S) <= MaxStamp
    /\ pad' = [s \in Serials |-> [pad[s] EXCEPT !.mode = IF s \in S THEN mode ELSE @]]
    /\ change' = [change EXCEPT !.at = "release", !.todo = S]
    /\ UNCHANGED <<hot, tick, rx, frames, commands, wake, worker, held, retry, host, main>>

releasePointerLocked(s) ==
    /\ change.at = "release" /\ s \in change.todo
    /\ pad' = [pad EXCEPT ![s].stamp = nextStamp]
    /\ change' = [at |-> "post", todo |-> change.todo \ {s},
                  cmd |-> Release(s, nextStamp), stamp |-> nextStamp]
    /\ UNCHANGED <<hot, tick, rx, frames, commands, wake, worker, held, retry, host, main>>

\* A pad is bound to a serial that is free: a new stamp and no release.
bindPadLocked(s, mode) ==
    /\ change.at = "idle" /\ ~ stopping
    /\ pad[s].mode = "gone" /\ change.stamp < MaxStamp
    /\ pad' = [pad EXCEPT ![s] = [mode |-> mode, stamp |-> nextStamp]]
    /\ change' = [change EXCEPT !.at = "grace", !.stamp = nextStamp]
    /\ UNCHANGED <<hot, tick, rx, frames, commands, wake, worker, held, retry, host, main>>

\* post() wins a position when there is room, yielding until then, fills it and wakes the worker.
reserve(cmd) ==
    /\ depth < CommandCapacity
    /\ commands' = Append(commands, [full |-> FALSE, cmd |-> cmd])

fill(cmd) ==
    \E i \in DOMAIN commands :
        /\ commands[i] = [full |-> FALSE, cmd |-> cmd]
        /\ commands' = [commands EXCEPT ![i].full = TRUE]

changePosts ==
    /\ \/ /\ change.at = "post" /\ reserve(change.cmd)
          /\ change' = [change EXCEPT !.at = "fill"] /\ UNCHANGED wake
       \/ /\ change.at = "fill" /\ fill(change.cmd) /\ notify
          /\ change' = [change EXCEPT !.at = IF change.todo = {} THEN "grace" ELSE "release",
                                      !.cmd = Retry]
    /\ UNCHANGED <<pad, hot, tick, rx, frames, worker, held, retry, host, main>>

\* The seqlock write makes the slot unreadable, waits for the receive thread to leave its bracket
\* and stores the rows.
publish ==
    /\ change.at = "grace"
    /\ rx.at = "idle"
    /\ hot' = pad
    /\ change' = [change EXCEPT !.at = "idle"]
    /\ UNCHANGED <<pad, tick, rx, frames, commands, wake, worker, held, retry, host, main>>

Changing == changePosts \/ publish \/ \E s \in Serials : releasePointerLocked(s)

-----------------------------------------------------------------------------
(* refreshIdleInput(): the maintenance tick, which takes no lock *)

\* Mutant: the tick never posts the retry.
refreshIdleInput_NoRetry ==
    /\ tick = "idle" /\ ~ stopping /\ retry /\ FALSE
    /\ UNCHANGED vars

refreshIdleInput ==
    /\ tick = "idle" /\ ~ stopping
    /\ retry
    /\ tick' = "post"
    /\ UNCHANGED <<pad, hot, change, rx, frames, commands, wake, worker, held, retry, host, main>>

tickPosts ==
    /\ \/ tick = "post" /\ reserve(Retry) /\ tick' = "fill" /\ UNCHANGED wake
       \/ tick = "fill" /\ fill(Retry) /\ notify /\ tick' = "idle"
    /\ UNCHANGED <<pad, hot, change, rx, frames, worker, held, retry, host, main>>

Ticking == refreshIdleInput \/ tickPosts

-----------------------------------------------------------------------------
(* handleTouchpadData(): the receive thread, inside its bracket *)

readPad(s, pressed) ==
    /\ rx.at = "idle" /\ ~ stopping
    /\ change.at # "grace"
    /\ hot[s].mode = "mouse"
    /\ rx' = [at |-> "push", frame |-> [serial |-> s, stamp |-> hot[s].stamp, pressed |-> pressed]]
    /\ UNCHANGED <<pad, hot, change, tick, frames, commands, wake, worker, held, retry, host, main>>

\* A full ring drops the frame and wakes nobody.
pushFrame ==
    /\ rx.at = "push"
    /\ IF Len(frames) < FrameCapacity
       THEN frames' = Append(frames, rx.frame) /\ rx' = [at |-> "notify", frame |-> NoFrame]
       ELSE UNCHANGED frames /\ rx' = [at |-> "idle", frame |-> NoFrame]
    /\ UNCHANGED <<pad, hot, change, tick, commands, wake, worker, held, retry, host, main>>

rxNotifies ==
    /\ rx.at = "notify"
    /\ notify
    /\ rx' = [rx EXCEPT !.at = "idle"]
    /\ UNCHANGED <<pad, hot, change, tick, frames, commands, worker, held, retry, host, main>>

Receiving == pushFrame \/ rxNotifies

-----------------------------------------------------------------------------
(* run() *)

\* The flag of a sleep before it is taken down; a frame is taken first, then the commands queued
\* ahead of it.
popFrame ==
    /\ worker.at = "frames"
    /\ wake' = [wake EXCEPT !.sleeping = FALSE]
    /\ IF frames = <<>>
       THEN UNCHANGED frames /\ worker' = [worker EXCEPT !.at = "drain"]
       ELSE /\ frames' = Tail(frames)
            /\ worker' = [at |-> "drainFirst", frame |-> Head(frames), worked |-> TRUE]
    /\ UNCHANGED <<pad, hot, change, tick, rx, commands, held, retry, host, main>>

\* submitRelativeMouse, external: a desktop that refuses may have taken the button event already,
\* when only the prefix of the events was inserted.
submit(button) ==
    \/ host.accepts /\ host' = [host EXCEPT !.button = button] /\ retry' = FALSE
    \/ ~ host.accepts /\ host' \in {host, [host EXCEPT !.button = button]} /\ retry' = TRUE

\* Mutant: only the pad at hand counts.
unionWith_Own(s, button) == button

unionWith(s, button) == button \/ \E t \in Serials \ {s} : held[t].by # 0

applyRelease(cmd) ==
    LET h == held[cmd.serial]
    IN  /\ held' = [held EXCEPT ![cmd.serial] =
                       [h EXCEPT !.by = 0,
                                 !.releaseStamp = IF cmd.stamp > @ THEN cmd.stamp ELSE @]]
        /\ IF h.by # 0 THEN submit(unionWith(cmd.serial, FALSE)) ELSE UNCHANGED <<retry, host>>

apply(cmd) ==
    \/ cmd.kind = "release" /\ applyRelease(cmd)
    \/ /\ cmd.kind = "retry" /\ UNCHANGED held
       /\ IF retry THEN submit(union) ELSE UNCHANGED <<retry, host>>

\* pop() stops at a position that is not filled yet.
canPop == commands # <<>> /\ Head(commands).full

drainCommands ==
    /\ worker.at \in {"drainFirst", "drain"}
    /\ canPop
    /\ commands' = Tail(commands)
    /\ apply(Head(commands).cmd)
    /\ worker' = [worker EXCEPT !.worked = TRUE]
    /\ UNCHANGED <<pad, hot, change, tick, rx, frames, wake, main>>

\* Mutant: a frame is taken whatever its stamp.
process_AnyStamp ==
    /\ worker.at = "drainFirst" /\ ~ canPop
    /\ LET f == worker.frame
       IN  /\ held' = [held EXCEPT ![f.serial].by = IF f.pressed THEN f.stamp ELSE 0]
           /\ submit(unionWith(f.serial, f.pressed))
    /\ worker' = [worker EXCEPT !.at = "frames", !.frame = NoFrame]
    /\ UNCHANGED <<pad, hot, change, tick, rx, frames, commands, wake, main>>

\* A frame older than the latest release of its serial is dropped.
process ==
    /\ worker.at = "drainFirst" /\ ~ canPop
    /\ LET f == worker.frame
       IN  IF f.stamp < held[f.serial].releaseStamp
           THEN UNCHANGED <<held, retry, host>>
           ELSE /\ held' = [held EXCEPT ![f.serial].by = IF f.pressed THEN f.stamp ELSE 0]
                /\ submit(unionWith(f.serial, f.pressed))
    /\ worker' = [worker EXCEPT !.at = "frames", !.frame = NoFrame]
    /\ UNCHANGED <<pad, hot, change, tick, rx, frames, commands, wake, main>>

\* Work done means another round; a stop is seen only by a round without work.
endRound ==
    /\ worker.at = "drain" /\ ~ canPop
    /\ worker' = [worker EXCEPT !.at = IF worker.worked THEN "frames"
                                       ELSE IF stopping THEN "done" ELSE "lie",
                                !.worked = FALSE]
    /\ UNCHANGED <<pad, hot, change, tick, rx, frames, commands, wake, held, retry, host, main>>

\* sleepUnless() puts the flag up before it looks.
lieDown ==
    /\ worker.at = "lie"
    /\ wake' = [wake EXCEPT !.sleeping = TRUE]
    /\ worker' = [worker EXCEPT !.at = "look"]
    /\ UNCHANGED <<pad, hot, change, tick, rx, frames, commands, held, retry, host, main>>

look ==
    /\ worker.at = "look"
    /\ worker' = [worker EXCEPT !.at = IF hasWork THEN "frames" ELSE "asleep"]
    /\ UNCHANGED <<pad, hot, change, tick, rx, frames, commands, wake, held, retry, host, main>>

acquire ==
    /\ worker.at = "asleep" /\ wake.permits > 0
    /\ wake' = [wake EXCEPT !.permits = @ - 1]
    /\ worker' = [worker EXCEPT !.at = "frames"]
    /\ UNCHANGED <<pad, hot, change, tick, rx, frames, commands, held, retry, host, main>>

Working ==
    \/ popFrame \/ drainCommands \/ process \/ endRound
    \/ lieDown \/ look \/ acquire

-----------------------------------------------------------------------------
(* The destructor, after the threads that feed the worker are gone; and the desktop *)

destroy ==
    /\ main = "up" /\ change.at = "idle" /\ tick = "idle" /\ rx.at = "idle"
    /\ main' = "notify"
    /\ UNCHANGED <<pad, hot, change, tick, rx, frames, commands, wake, worker, held, retry, host>>

destroyNotifies ==
    /\ main = "notify"
    /\ notify
    /\ main' = "join"
    /\ UNCHANGED <<pad, hot, change, tick, rx, frames, commands, worker, held, retry, host>>

\* The foreground window changes, and with it whether the desktop takes injected input.
foreground ==
    /\ host' = [host EXCEPT !.accepts = ~ @]
    /\ UNCHANGED <<pad, hot, change, tick, rx, frames, commands, wake, worker, held, retry, main>>

-----------------------------------------------------------------------------
Next ==
    \/ \E S \in SUBSET Serials, mode \in Modes : beginChange(S, mode)
    \/ \E s \in Serials, mode \in Modes \ {"gone"} : bindPadLocked(s, mode)
    \/ Changing \/ Ticking
    \/ \E s \in Serials, pressed \in BOOLEAN : readPad(s, pressed)
    \/ Receiving \/ Working
    \/ destroy \/ destroyNotifies \/ foreground

Spec == Init /\ [][Next]_vars

\* Every thread goes on when it can, and the tick comes round; frames, changes and the destructor
\* come when they like.  A change that waits for room finds it some time: the tick posts once in
\* its period, and the queue is long against what the worker takes in one.
Fairness ==
    /\ SF_vars(Changing) /\ WF_vars(Ticking) /\ WF_vars(Receiving) /\ WF_vars(Working)
    /\ WF_vars(destroyNotifies)

FairSpec == Spec /\ Fairness

-----------------------------------------------------------------------------
(* Properties *)

TypeOK ==
    /\ pad \in [Serials -> [mode : Modes, stamp : 0 .. MaxStamp]]
    /\ hot \in [Serials -> [mode : Modes, stamp : 0 .. MaxStamp]]
    /\ change.todo \subseteq Serials /\ change.stamp \in 0 .. MaxStamp
    /\ Len(frames) <= FrameCapacity /\ depth <= CommandCapacity
    /\ wake \in [sleeping : BOOLEAN, permits : 0 .. MaxPermits]
    /\ held \in [Serials -> [by : 0 .. MaxStamp, releaseStamp : 0 .. MaxStamp]]
    /\ host \in [button : BOOLEAN, accepts : BOOLEAN] /\ retry \in BOOLEAN

\* The releases of a serial that are still to be applied, the one being posted included.
releasesOf(s) ==
    {commands[i].cmd.stamp : i \in {j \in DOMAIN commands : /\ commands[j].cmd.kind = "release"
                                                            /\ commands[j].cmd.serial = s}}
        \cup (IF change.at = "post" /\ change.cmd.serial = s THEN {change.cmd.stamp} ELSE {})

\* A button that the worker still holds for a binding that is gone (process, apply) is on its way
\* to be let go: a release with a later stamp is queued or about to be.  The next owner of the
\* serial never inherits it.
PressesEndWithTheirBinding ==
    \A s \in Serials :
        held[s].by # 0 =>
            \/ held[s].by = pad[s].stamp /\ pad[s].mode = "mouse"
            \/ \E stamp \in releasesOf(s) : stamp > held[s].by
            \/ s \in change.todo

\* The host holds the union of the buttons of all pads (submit), unless a retry is pending: letting
\* one pad go does not let another's button go.
HostHoldsTheUnion == ~ retry => host.button = union

\* The last pad in mouse mode is gone: the host's button is let go (releasePointerLocked,
\* refreshIdleInput, apply), unless the desktop keeps refusing, another pad takes over or the
\* service is destroyed before the retry.
NoMousePad == \A s \in Serials : pad[s].mode # "mouse"

ButtonIsLetGo ==
    \/ []<>(~ host.accepts)
    \/ (NoMousePad /\ host.button) ~> (~ host.button \/ ~ NoMousePad \/ stopping)

\* A change that posts a release while it holds mtx_ (post yields until there is room) gets through
\* to its publication, and the destructor's join returns.
PostersReturn ==
    /\ (change.at # "idle") ~> (change.at = "idle")
    /\ (main = "notify") ~> (worker.at = "done")

=============================================================================
