---------------------------- MODULE AudioJitter ----------------------------
(***************************************************************************)
(* The reorder window of an audio stream (core/audio/audio_jitter.h):      *)
(* packets with wrapping sequence numbers go in, packets in order and gap  *)
(* signals come out.                                                       *)
(*                                                                         *)
(* One push is one call: it inserts the packet, then drain() runs, a step  *)
(* for each turn of its loop.  The slots are the set of the sequence       *)
(* numbers they hold.                                                      *)
(***************************************************************************)
EXTENDS Integers, FiniteSets

CONSTANTS Half,       \* 2^15: sequence numbers are 0 .. 2 * Half - 1
          Window,     \* AUDIO_JITTER_WINDOW_FRAMES, also the number of slots
          MaxConceal  \* AUDIO_JITTER_MAX_CONCEAL_FRAMES

ASSUME JitterAssumption ==
    /\ Window \in Nat \ {0} /\ MaxConceal \in Nat \ {0}
    /\ Half \in Nat /\ Half > Window

Seqs == 0 .. 2 * Half - 1
MaxEvents == Window * (MaxConceal + 1)  \* AUDIO_JITTER_MAX_EVENTS_PER_PUSH

VARIABLES
    window,  \* [primed, next, held, gaps]: AudioJitterWindow
    result,  \* [accept, count]: what the push in progress, or the last one, returns
    busy,    \* inside drain()
    out      \* [last, gapRun]: the number of the last event, and the gaps since the last packet

vars == <<window, result, busy, out>>

\* uint16_t arithmetic, and the cast of a difference to int16_t.
after(seq) == IF seq = 2 * Half - 1 THEN 0 ELSE seq + 1

distance(seq, from) ==
    LET d == seq - from
    IN  IF d >= Half THEN d - 2 * Half ELSE IF d < -Half THEN d + 2 * Half ELSE d

deltaFromNext(seq) == distance(seq, window.next)

None == -1

Init ==
    /\ window = [primed |-> FALSE, next |-> 0, held |-> {}, gaps |-> 0]
    /\ result = [accept |-> "ok", count |-> 0]
    /\ busy = FALSE
    /\ out = [last |-> None, gapRun |-> 0]

-----------------------------------------------------------------------------
(* push() *)

\* The packet is empty or too long.
pushRejected ==
    /\ ~ busy
    /\ result' = [accept |-> "rejected", count |-> 0]
    /\ UNCHANGED <<window, busy, out>>

\* Mutant: an empty window starts over with any packet.
primedFor_WhenEmpty(seq) ==
    IF window.held # {} THEN window ELSE [window EXCEPT !.primed = TRUE, !.next = seq, !.gaps = 0]

\* The first packet says where the stream starts.
primedFor(seq) ==
    IF window.primed THEN window ELSE [window EXCEPT !.primed = TRUE, !.next = seq, !.gaps = 0]

emitted(seq) == [last |-> seq, gapRun |-> 0]

push(seq) ==
    LET w == primedFor(seq)
        delta == distance(seq, w.next)
    IN  /\ ~ busy
        /\ \/ /\ delta < 0
              /\ window' = w /\ result' = [accept |-> "late", count |-> 0]
              /\ UNCHANGED <<busy, out>>
           \/ /\ delta = 0 /\ w.held = {}
              /\ window' = [w EXCEPT !.next = after(@), !.gaps = 0]
              /\ result' = [accept |-> "ok", count |-> 1]
              /\ out' = emitted(seq)
              /\ UNCHANGED busy
           \/ /\ delta >= 0 /\ seq \in w.held
              /\ window' = w /\ result' = [accept |-> "duplicate", count |-> 0]
              /\ UNCHANGED <<busy, out>>
           \/ /\ delta > 0 \/ (delta = 0 /\ w.held # {})
              /\ seq \notin w.held
              /\ IF Cardinality(w.held) < Window
                 THEN /\ window' = [w EXCEPT !.held = @ \cup {seq}]
                      /\ result' = [accept |-> "ok", count |-> 0]
                      /\ busy' = TRUE
                 ELSE /\ window' = w /\ result' = [accept |-> "rejected", count |-> 0]
                      /\ UNCHANGED busy
              /\ UNCHANGED out

reset ==
    /\ ~ busy
    /\ window' = [primed |-> FALSE, next |-> 0, held |-> {}, gaps |-> 0]
    /\ out' = [last |-> None, gapRun |-> 0]
    /\ UNCHANGED <<result, busy>>

-----------------------------------------------------------------------------
(* drain() *)

maxAheadAtLeast(n) == \E seq \in window.held : deltaFromNext(seq) >= n

going == busy /\ result.count < MaxEvents

drainPacket ==
    /\ going
    /\ window.next \in window.held
    /\ result' = [result EXCEPT !.count = @ + 1]
    /\ out' = emitted(window.next)
    /\ window' = [window EXCEPT !.held = @ \ {window.next}, !.next = after(@), !.gaps = 0]
    /\ UNCHANGED busy

\* A packet a window ahead proves the loss.
drainGap ==
    /\ going
    /\ window.next \notin window.held
    /\ maxAheadAtLeast(Window)
    /\ window.gaps < MaxConceal
    /\ result' = [result EXCEPT !.count = @ + 1]
    /\ out' = [last |-> window.next, gapRun |-> out.gapRun + 1]
    /\ window' = [window EXCEPT !.next = after(@), !.gaps = @ + 1]
    /\ UNCHANGED busy

\* Enough concealed: on to the nearest packet in hand.
drainResync ==
    /\ going
    /\ window.next \notin window.held
    /\ maxAheadAtLeast(Window)
    /\ window.gaps >= MaxConceal
    /\ \E oldest \in window.held :
           /\ \A seq \in window.held : deltaFromNext(oldest) <= deltaFromNext(seq)
           /\ window' = [window EXCEPT !.next = oldest, !.gaps = 0]
    /\ UNCHANGED <<result, busy, out>>

drainEnds ==
    /\ busy
    /\ \/ result.count >= MaxEvents
       \/ window.next \notin window.held /\ ~ maxAheadAtLeast(Window)
    /\ busy' = FALSE
    /\ UNCHANGED <<window, result, out>>

Next ==
    \/ pushRejected \/ reset
    \/ \E seq \in Seqs : push(seq)
    \/ drainPacket \/ drainGap \/ drainResync \/ drainEnds

Spec == Init /\ [][Next]_vars

-----------------------------------------------------------------------------
(* Properties *)

TypeOK ==
    /\ window \in [primed : BOOLEAN, next : Seqs, held : SUBSET Seqs, gaps : 0 .. MaxConceal]
    /\ result \in [accept : {"ok", "late", "duplicate", "rejected"}, count : 0 .. MaxEvents]
    /\ busy \in BOOLEAN
    /\ out \in [last : Seqs \cup {None}, gapRun : Nat]

\* The slots_ invariant (audio_jitter.h): between pushes every held packet is ahead of the awaited
\* one by less than the window, so a place is free for the next push, the branch the code calls
\* unreachable is, and a drain is never cut short by the bound on its events.
HeldIsAhead ==
    /\ ~ busy => \A seq \in window.held : deltaFromNext(seq) \in 1 .. Window - 1
    /\ ~ busy => Cardinality(window.held) < Window
    /\ busy => result.count < MaxEvents \/ window.held = {}

\* What comes out goes forward (push, drain): no event has the number of an earlier one of the
\* stream or falls behind it, across the wrap of the numbers too.
PlaysForward ==
    [][out'.last # out.last /\ out.last # None /\ out'.last # None
           => distance(out'.last, out.last) \in 1 .. Half - 1]_vars

\* No more than MaxConceal frames in a row are concealed, counted over all pushes: a resync is
\* followed by a packet.
ConcealmentIsShort == out.gapRun <= MaxConceal
=============================================================================
