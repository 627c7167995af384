------------------------------- MODULE MCNet -------------------------------
(* The datagrams that come in and the dashboard's event streams, for TLC.  A behaviour is one of *)
(* the two; the other rests in its initial state.                                                *)
EXTENDS ReceivePath

CONSTANTS s1, s2

VARIABLES
    part,
    \* EventBroadcaster
    version, latest, evPublished, subscribers, freshWanted, closed, thread, frame,
    evAt, unseen, shown, opens, closer

eventVars ==
    <<version, latest, evPublished, subscribers, freshWanted, closed, thread, frame,
      evAt, unseen, shown, opens, closer>>

E == INSTANCE EventBroadcaster WITH
         Streams <- {s1, s2}, maxSubscribers <- 1, MaxVersion <- 1, MaxOpens <- 2,
         published <- evPublished, at <- evAt

MCInit == part \in {"receive", "events"} /\ Init /\ E!Init

MCNext ==
    /\ \/ part = "receive" /\ Next /\ UNCHANGED eventVars
       \/ part = "events" /\ E!Next /\ UNCHANGED vars
    /\ UNCHANGED part

\* The fairness of each part.
Receives == part = "receive"
Broadcasts == part = "events"
MCFairness ==
    /\ WF_vars(Receives /\ ReceiveStep) /\ WF_vars(Receives /\ (store \/ publish))
    /\ SF_vars(Receives /\ refreshRumble)
    /\ WF_eventVars(Broadcasts /\ E!ThreadStep) /\ WF_eventVars(Broadcasts /\ E!CloserStep)
    /\ \A s \in {s1, s2} : WF_eventVars(Broadcasts /\ E!StreamStep(s))

MCSpec == MCInit /\ [][MCNext]_<<part, vars, eventVars>> /\ MCFairness

\* The properties of EventBroadcaster.
ChangesAreShown == E!ChangesAreShown
ServerStops == E!ServerStops
=============================================================================
