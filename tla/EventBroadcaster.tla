-------------------------- MODULE EventBroadcaster --------------------------
(***************************************************************************)
(* The dashboard's event streams (src/core/event_broadcaster.cpp and        *)
(* src/net/event_stream.cpp): one thread builds a frame per period while    *)
(* anybody listens, every stream waits for a generation newer than the one  *)
(* it wrote last, and the server's shutdown closes the broadcaster before   *)
(* it waits for its pool.                                                   *)
(*                                                                         *)
(* A frame is the version of the state it was built from.  The generation   *)
(* is only ever compared with the one a stream has seen, so it is kept as     *)
(* the set of streams it is newer for.  A thread that waits on a condition  *)
(* variable is asleep until somebody notifies it; notifying is a step of    *)
(* its own, after the lock is given back.                                   *)
(***************************************************************************)
EXTENDS Integers, FiniteSets

CONSTANTS
    Streams,         \* connections of the dashboard
    maxSubscribers,  \* options.maxSubscribers
    MaxVersion,      \* bound: changes of the state the frames show
    MaxOpens         \* bound: times a connection asks for the stream

NoFrame == MaxVersion + 1

VARIABLES
    version,      \* of the state the frames show
    latest,       \* the latest frame or NoFrame
    published,    \* generation > 0
    subscribers,
    freshWanted,
    closed,
    thread,       \* where the broadcaster's thread is
    frame,        \* the frame it is building
    at,           \* at[s]: where a stream is
    unseen,       \* streams with generation > seen_
    shown,        \* shown[s]: history, the frame it wrote last
    opens,        \* opens[s]: history, how often it asked
    closer        \* where the server's shutdown is

shared  == <<latest, published, subscribers, freshWanted, closed>>
streams == <<at, unseen, shown, opens>>
vars    == <<version, shared, thread, frame, streams, closer>>

\* Streams that hold a subscription.
Attached == {s \in Streams : at[s] \notin {"away", "refused"}}

Init ==
    /\ version = 0 /\ frame = NoFrame
    /\ latest = NoFrame /\ published = FALSE /\ subscribers = 0
    /\ freshWanted = FALSE /\ closed = FALSE
    /\ thread = "none" /\ closer = "serving"
    /\ at = [s \in Streams |-> "away"] /\ unseen = {}
    /\ shown = [s \in Streams |-> 0]
    /\ opens = [s \in Streams |-> 0]

Goes(s, where) == at' = [at EXCEPT ![s] = where]

\* Sleepers on a condition variable look at their predicate again.
NotifyPublished(pc) == [s \in Streams |-> IF pc[s] = "asleep" THEN "next" ELSE pc[s]]
NotifyWake(t) == IF t = "idleAsleep" THEN "idle" ELSE IF t = "asleep" THEN "wait" ELSE t

\* The state the frames show moves on.
Change ==
    /\ version < MaxVersion
    /\ version' = version + 1
    /\ UNCHANGED <<shared, thread, frame, streams, closer>>
-----------------------------------------------------------------------------
(* A stream.                                                                *)

\* subscribe() under the lock; a refused stream gets its 503.
subscribe(s) ==
    /\ at[s] = "away" /\ opens[s] < MaxOpens /\ closer = "serving"
    /\ opens' = [opens EXCEPT ![s] = @ + 1]
    /\ \/ /\ closed \/ subscribers >= maxSubscribers
          /\ Goes(s, "refused")
          /\ UNCHANGED <<shared, thread, unseen>>
       \/ /\ ~closed /\ subscribers < maxSubscribers
          /\ latest' = IF subscribers = 0 THEN NoFrame ELSE latest
          /\ freshWanted' = (subscribers = 0 \/ freshWanted)
          /\ subscribers' = subscribers + 1
          /\ thread' = IF thread = "none" THEN "idle" ELSE thread
          /\ Goes(s, "subscribed")
          /\ unseen' = IF published THEN unseen \cup {s} ELSE unseen \ {s}
          /\ UNCHANGED <<published, closed>>
    /\ UNCHANGED <<version, frame, shown, closer>>

\* Mutant: the thread is left to find out by itself.
subscribedQuietly(s) ==
    /\ at[s] = "subscribed" /\ Goes(s, "next")
    /\ UNCHANGED <<version, shared, thread, frame, unseen, shown, opens, closer>>

\* Its notify.
subscribed(s) ==
    /\ at[s] = "subscribed" /\ Goes(s, "next")
    /\ thread' = NotifyWake(thread)
    /\ UNCHANGED <<version, shared, frame, unseen, shown, opens, closer>>

refused(s) ==
    /\ at[s] = "refused" /\ Goes(s, "away")
    /\ UNCHANGED <<version, shared, thread, frame, unseen, shown, opens, closer>>

NewerThanSeen(s) == latest # NoFrame /\ s \in unseen

\* next(): sleeps until there is a newer frame, or ends with the broadcaster.
next(s) ==
    /\ at[s] = "next"
    /\ \/ closed /\ Goes(s, "ending") /\ UNCHANGED <<unseen, shown>>
       \/ /\ ~closed /\ NewerThanSeen(s)
          /\ unseen' = unseen \ {s}
          /\ shown' = [shown EXCEPT ![s] = latest]
          /\ Goes(s, "write")
       \/ ~closed /\ ~NewerThanSeen(s) /\ Goes(s, "asleep") /\ UNCHANGED <<unseen, shown>>
    /\ UNCHANGED <<version, shared, thread, frame, opens, closer>>

\* relayFrames writes the frame; a client that has gone ends the stream.
relayFrames(s) ==
    /\ at[s] = "write"
    /\ Goes(s, "next") \/ Goes(s, "ending")
    /\ UNCHANGED <<version, shared, thread, frame, unseen, shown, opens, closer>>

\* ~Subscription under the lock, and its notify.
endSubscription(s) ==
    /\ at[s] = "ending" /\ Goes(s, "ended")
    /\ subscribers' = subscribers - 1
    /\ UNCHANGED <<version, latest, published, freshWanted, closed, thread, frame, unseen, shown, opens, closer>>

ended(s) ==
    /\ at[s] = "ended" /\ Goes(s, "away")
    /\ thread' = NotifyWake(thread)
    /\ unseen' = unseen \ {s} /\ shown' = [shown EXCEPT ![s] = 0]
    /\ UNCHANGED <<version, shared, frame, opens, closer>>
-----------------------------------------------------------------------------
(* The broadcaster's thread: run() and tick().                              *)

\* It waits for the first stream.
waitForStreams ==
    /\ thread = "idle"
    /\ thread' = IF closed THEN "done" ELSE IF subscribers = 0 THEN "idleAsleep" ELSE "tick"
    /\ freshWanted' = (freshWanted /\ (closed \/ subscribers = 0))
    /\ UNCHANGED <<version, latest, published, subscribers, closed, frame, streams, closer>>

\* tick() before the build: nobody to build for.
beginTick ==
    /\ thread = "tick"
    /\ thread' = IF closed \/ subscribers = 0 THEN "wait" ELSE "build"
    /\ UNCHANGED <<version, shared, frame, streams, closer>>

\* build_() outside the lock.
build ==
    /\ thread = "build"
    /\ frame' = version
    /\ thread' = "publish"
    /\ UNCHANGED <<version, shared, streams, closer>>

publish ==
    /\ thread = "publish"
    /\ frame' = NoFrame
    /\ \/ closed /\ thread' = "wait" /\ UNCHANGED <<latest, published, unseen>>
       \/ /\ ~closed
          /\ latest' = frame
          /\ published' = TRUE /\ unseen' = Attached
          /\ thread' = "notify"
    /\ UNCHANGED <<version, subscribers, freshWanted, closed, at, shown, opens, closer>>

notifyPublished ==
    /\ thread = "notify"
    /\ thread' = "wait"
    /\ at' = NotifyPublished(at)
    /\ UNCHANGED <<version, shared, frame, unseen, shown, opens, closer>>

\* It sleeps out the period, unless there is something else to do.
sleepPeriod ==
    /\ thread = "wait"
    /\ thread' = IF closed THEN "done"
                 ELSE IF subscribers = 0 \/ freshWanted THEN "idle" ELSE "asleep"
    /\ UNCHANGED <<version, shared, frame, streams, closer>>

periodOver ==
    /\ thread = "asleep"
    /\ thread' = IF closed THEN "done" ELSE "idle"
    /\ UNCHANGED <<version, shared, frame, streams, closer>>
-----------------------------------------------------------------------------
(* The server stops: close(), then the pool waits for its connections.      *)

close ==
    /\ closer = "serving"
    /\ closed' = TRUE
    /\ closer' = "notify"
    /\ UNCHANGED <<version, latest, published, subscribers, freshWanted, thread, frame, streams>>

\* Mutant: only the thread is told.
notifyThread ==
    /\ closer = "notify"
    /\ closer' = "join"
    /\ thread' = NotifyWake(thread)
    /\ UNCHANGED <<version, shared, frame, streams>>

notifyClosed ==
    /\ closer = "notify"
    /\ closer' = "join"
    /\ at' = NotifyPublished(at)
    /\ thread' = NotifyWake(thread)
    /\ UNCHANGED <<version, shared, frame, unseen, shown, opens>>

join ==
    /\ closer = "join" /\ thread \in {"none", "done"}
    /\ closer' = "pool"
    /\ UNCHANGED <<version, shared, thread, frame, streams>>

shutdown ==
    /\ closer = "pool" /\ \A s \in Streams : at[s] = "away"
    /\ closer' = "down"
    /\ UNCHANGED <<version, shared, thread, frame, streams>>

ThreadStep ==
    \/ waitForStreams \/ beginTick \/ build \/ publish \/ notifyPublished \/ sleepPeriod
    \/ periodOver

StreamStep(s) ==
    \/ subscribed(s) \/ refused(s) \/ next(s) \/ relayFrames(s) \/ endSubscription(s) \/ ended(s)

CloserStep == notifyClosed \/ join \/ shutdown

Next ==
    \/ Change \/ ThreadStep \/ close \/ CloserStep
    \/ \E s \in Streams : subscribe(s) \/ StreamStep(s)

Spec == Init /\ [][Next]_vars

\* The broadcaster, the connections and the shutdown run on; a client's socket takes a
\* frame or fails.  Nobody has to come, and nobody wakes without a notify.
Fairness ==
    /\ WF_vars(ThreadStep) /\ WF_vars(CloserStep)
    /\ \A s \in Streams : WF_vars(StreamStep(s))

FairSpec == Spec /\ Fairness
-----------------------------------------------------------------------------
\* The broadcaster and its streams stay in their types.
TypeOK ==
    /\ version \in 0..MaxVersion
    /\ latest \in 0..NoFrame /\ frame \in 0..NoFrame /\ published \in BOOLEAN
    /\ subscribers \in 0..maxSubscribers
    /\ freshWanted \in BOOLEAN /\ closed \in BOOLEAN
    /\ thread \in {"none", "idle", "idleAsleep", "tick", "build", "publish", "notify", "wait",
                   "asleep", "done"}
    /\ at \in [Streams -> {"away", "refused", "subscribed", "next", "asleep", "write", "ending",
                           "ended"}]
    /\ unseen \subseteq Streams
    /\ shown \in [Streams -> 0..NoFrame]
    /\ opens \in [Streams -> Nat]
    /\ closer \in {"serving", "notify", "join", "pool", "down"}

\* Whoever stays is shown every lasting change.
ChangesAreShown ==
    \A s \in Streams :
        (at[s] \in {"subscribed", "next", "asleep", "write"} /\ version = MaxVersion) ~>
            (shown[s] = MaxVersion \/ at[s] = "ending" \/ closed)

\* The server stops although its streams have no reason to end, and every one of them gives
\* its place back.
ServerStops == (closer = "notify") ~> (closer = "down" /\ subscribers = 0)
=============================================================================
