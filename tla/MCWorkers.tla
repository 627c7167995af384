----------------------------- MODULE MCWorkers -----------------------------
(* The jitter window and the pointer thread, for TLC.  A behaviour is one of the two; the other  *)
(* rests in its initial state.                                                                   *)
EXTENDS AudioJitter, Sequences

VARIABLES
    part,
    \* PointerWorker
    pad, hot, change, tick, rx, frames, commands, wake, worker, held, retry, host, main

pointerVars ==
    <<pad, hot, change, tick, rx, frames, commands, wake, worker, held, retry, host, main>>

W == INSTANCE PointerWorker WITH Serials <- {1, 2}, FrameCapacity <- 2, CommandCapacity <- 2,
                                 MaxStamp <- 3, MaxPermits <- 1

\* The jitter window, and small casts of the pointer thread: the serials that take part, the stamps
\* taken, the frames in the ring when another one is read, the modes, whether a frame may lift the
\* finger, and whether the desktop refuses input at first.
Parts ==
    {[of |-> "jitter"],
     [of |-> "pointer", serials |-> {1}, stamps |-> 3, frames |-> 0 .. 2,
      modes |-> {"gone", "off", "mouse"}, lifts |-> TRUE, refuses |-> FALSE],
     [of |-> "pointer", serials |-> {1}, stamps |-> 2, frames |-> {0},
      modes |-> {"gone", "mouse"}, lifts |-> FALSE, refuses |-> TRUE],
     [of |-> "pointer", serials |-> {1, 2}, stamps |-> 3, frames |-> {0},
      modes |-> {"gone", "mouse"}, lifts |-> FALSE, refuses |-> FALSE]}

MCInit ==
    /\ part \in Parts
    /\ Init /\ W!Init
    /\ host.accepts = (part.of = "pointer" => ~ part.refuses)

JitterNext == part.of = "jitter" /\ Next /\ UNCHANGED pointerVars

PointerNext ==
    /\ part.of = "pointer" /\ W!Next
    /\ \A s \in {1, 2} \ part.serials : pad'[s].mode = "gone"
    /\ \A s \in part.serials : pad'[s].mode \in part.modes
    /\ change'.stamp + Cardinality(change'.todo) <= part.stamps
    /\ rx'.at = "push" => Len(frames) \in part.frames /\ (rx'.frame.pressed \/ part.lifts)
    /\ host.accepts => host'.accepts
    /\ UNCHANGED vars

MCNext == (JitterNext \/ PointerNext) /\ UNCHANGED part

\* The fairness of PointerWorker, in its part.
Runs == part.of = "pointer"
MCFairness ==
    /\ SF_pointerVars(Runs /\ W!Changing) /\ WF_pointerVars(Runs /\ W!Ticking)
    /\ WF_pointerVars(Runs /\ W!Receiving) /\ WF_pointerVars(Runs /\ W!Working)
    /\ WF_pointerVars(Runs /\ W!destroyNotifies)

MCSpec == MCInit /\ [][MCNext]_<<part, vars, pointerVars>> /\ MCFairness

\* The properties of PointerWorker.
PressesEndWithTheirBinding == W!PressesEndWithTheirBinding
HostHoldsTheUnion == W!HostHoldsTheUnion
ButtonIsLetGo == W!ButtonIsLetGo
PostersReturn == W!PostersReturn
=============================================================================
