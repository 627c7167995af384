----------------------------- MODULE ReceivePath -----------------------------
(***************************************************************************)
(* A datagram on its way from the socket to a handler (handleDatagram of    *)
(* src/net/receiver.cpp and the entry points of SessionService it calls),   *)
(* while sessions are created, rotated and closed in its slot and pads come *)
(* and go.  The network loses, repeats and reorders datagrams.              *)
(*                                                                         *)
(* The receive thread looks the session up outside any bracket, records the *)
(* datagram inside one, and, unless the message is input, opens a second    *)
(* one for the handler: whatever it learned may be stale at the next step.  *)
(* The slot's seqlock and grace wait are taken as AtomicSlot describes      *)
(* them.  A token stands for its session key, and for the address its       *)
(* client sends from.                                                       *)
(***************************************************************************)
EXTENDS Naturals

CONSTANTS
    MaxSessions,  \* bound: tokens minted into the slot
    MaxCounter,   \* bound: counters a client sends under a token
    Inputs,       \* the counters that carry MSG_GAMEPAD_DATA; the others another stream
    MaxReceived   \* bound: datagrams the receive thread takes from the socket

ASSUME ReceiveAssumption == MaxSessions \in Nat /\ MaxCounter \in Nat

VARIABLES
    \* published half of the slot, and its entry in HotTable::tokens
    packed, token, keyEpoch, pad, open,
    \* receive-owned half
    replayKeyEpoch, lastCounter, clientAddr, feedbackPending,
    \* the receive thread
    at,       \* "idle", "decrypted", "recording", "marking", "flagging", "submit", "dispatch"
    datagram, \* the one it works on
    epochRead,
    \* the topology change, which holds mtx_
    minted, change, step,
    \* history
    received, \* datagrams taken so far
    recorded, \* token of the datagram lastCounter comes from
    applied,  \* per stream, the last datagram a handler applied and how many
    answered  \* key epoch whose feedback state was resent last

published == <<packed, token, keyEpoch, pad, open>>
owned     == <<replayKeyEpoch, lastCounter, clientAddr, feedbackPending>>
receiver  == <<at, datagram, epochRead>>
service   == <<minted, change, step>>
history   == <<received, recorded, applied, answered>>
vars      == <<published, owned, receiver, service, history>>

Streams == {"input", "other"}
StreamOf(d) == IF d.counter \in Inputs THEN "input" ELSE "other"
NoDatagram == [token |-> 0, counter |-> 0]

Init ==
    /\ packed = 0 /\ token = 0 /\ keyEpoch = 0 /\ pad = FALSE /\ open = FALSE
    /\ replayKeyEpoch = 0 /\ lastCounter = 0 /\ clientAddr = 0 /\ feedbackPending = FALSE
    /\ at = "idle" /\ datagram = NoDatagram /\ epochRead = 0
    /\ minted = 0 /\ change = "none" /\ step = "none"
    /\ received = 0 /\ recorded = 0 /\ answered = 0
    /\ applied = [s \in Streams |-> [token |-> 0, counter |-> 0, count |-> 0]]

\* Mutant: the slot's own token is not compared.
StableSlot(t) == packed = t /\ ~open

\* find() and a stable read of the slot that carries the datagram's token.
Stable(t) == packed = t /\ ~open /\ token = t
-----------------------------------------------------------------------------
(* The receive thread.                                                      *)

GoTo(where) == at' = where /\ UNCHANGED <<datagram, epochRead>>

Drop == at' = "idle" /\ datagram' = NoDatagram /\ epochRead' = 0

\* Mutant: the last counter itself passes the replay check.
receiveAgain(t, c) ==
    /\ at = "idle" /\ received < MaxReceived
    /\ received' = received + 1
    /\ Stable(t)
    /\ ~(replayKeyEpoch = keyEpoch /\ c < lastCounter)
    /\ at' = "decrypted" /\ datagram' = [token |-> t, counter |-> c]
    /\ UNCHANGED <<epochRead, published, owned, service, recorded, applied, answered>>

\* A datagram some client sent: getDecryptInfo, outside any bracket, and the replay
\* check.  One that fails to decrypt or to parse is as good as lost.
receive(t, c) ==
    /\ at = "idle" /\ received < MaxReceived
    /\ received' = received + 1
    /\ Stable(t)
    /\ ~(replayKeyEpoch = keyEpoch /\ c <= lastCounter)
    /\ at' = "decrypted" /\ datagram' = [token |-> t, counter |-> c]
    /\ UNCHANGED <<epochRead, published, owned, service, recorded, applied, answered>>

\* submitHotFrame for input, recordHotDatagram for the rest: the bracket opens and the
\* slot is read.  A refused read ends input here; other messages go on to their handler.
enterRecord ==
    /\ at = "decrypted"
    /\ IF Stable(datagram.token)
       THEN at' = "recording" /\ epochRead' = keyEpoch /\ UNCHANGED datagram
       ELSE IF StreamOf(datagram) = "input" THEN Drop ELSE GoTo("dispatch")
    /\ UNCHANGED <<published, owned, service, history>>

\* recordDatagram, in the order of its stores.
recordDatagram ==
    /\ at = "recording"
    /\ clientAddr' = datagram.token
    /\ lastCounter' = datagram.counter
    /\ recorded' = datagram.token
    /\ GoTo(IF replayKeyEpoch # epochRead THEN "marking"
            ELSE IF StreamOf(datagram) = "input" THEN "submit" ELSE "dispatch")
    /\ UNCHANGED <<replayKeyEpoch, feedbackPending, published, service, received, applied, answered>>

markKeyEpoch ==
    /\ at = "marking"
    /\ replayKeyEpoch' = epochRead
    /\ GoTo("flagging")
    /\ UNCHANGED <<lastCounter, clientAddr, feedbackPending, published, service, history>>

\* Mutant: input does not count as a first datagram.
flagOthers ==
    /\ at = "flagging"
    /\ feedbackPending' = (StreamOf(datagram) # "input")
    /\ GoTo(IF StreamOf(datagram) = "input" THEN "submit" ELSE "dispatch")
    /\ UNCHANGED <<replayKeyEpoch, lastCounter, clientAddr, published, service, history>>

flagFeedback ==
    /\ at = "flagging"
    /\ feedbackPending' = TRUE
    /\ GoTo(IF StreamOf(datagram) = "input" THEN "submit" ELSE "dispatch")
    /\ UNCHANGED <<replayKeyEpoch, lastCounter, clientAddr, published, service, history>>

Apply ==
    applied' = [applied EXCEPT ![StreamOf(datagram)] =
                    [token |-> datagram.token, counter |-> datagram.counter, count |-> @.count + 1]]

\* The tail of submitHotFrame, still in the bracket of the record.
submitHotFrame ==
    /\ at = "submit"
    /\ IF pad THEN Apply ELSE UNCHANGED applied
    /\ Drop
    /\ UNCHANGED <<published, owned, service, received, recorded, answered>>

\* dispatchInnerMessage: the handler reads the slot in a bracket of its own.
dispatchInnerMessage ==
    /\ at = "dispatch"
    /\ IF Stable(datagram.token) /\ pad THEN Apply ELSE UNCHANGED applied
    /\ Drop
    /\ UNCHANGED <<published, owned, service, received, recorded, answered>>

Bracketed == at \in {"recording", "marking", "flagging", "submit"}
-----------------------------------------------------------------------------
(* The topology change and the maintenance tick, which exclude each other   *)
(* through mtx_.                                                            *)

\* A session is created or rotated, its pads change, or it is closed; a close takes the
\* token out of the packed array before the write.
beginWrite(c) ==
    /\ change = "none"
    /\ IF c = "create" THEN token = 0 ELSE token # 0
    /\ c \in {"create", "rotate"} => minted < MaxSessions
    /\ change' = c /\ step' = "grace"
    /\ open' = TRUE
    /\ packed' = IF c = "close" THEN 0 ELSE packed
    /\ UNCHANGED <<token, keyEpoch, pad, minted, owned, receiver, history>>

\* After the grace wait: publishSessionKeyLocked, publishControllers or the stores of
\* retireConnectionLocked.
store ==
    /\ step = "grace" /\ ~Bracketed
    /\ \/ /\ change \in {"create", "rotate"}
          /\ minted' = minted + 1 /\ token' = minted + 1
          /\ keyEpoch' = keyEpoch + 1
          /\ clientAddr' = 0 /\ feedbackPending' = FALSE
          /\ pad' \in BOOLEAN
       \/ /\ change = "pads"
          /\ pad' = ~pad
          /\ UNCHANGED <<minted, token, keyEpoch, clientAddr, feedbackPending>>
       \/ /\ change = "close"
          /\ token' = 0 /\ pad' = FALSE
          /\ UNCHANGED <<minted, keyEpoch, clientAddr, feedbackPending>>
    /\ open' = FALSE
    /\ step' = "publish"
    /\ UNCHANGED <<packed, change, replayKeyEpoch, lastCounter, receiver, history>>

\* hot_.publish, for a new token.
publish ==
    /\ step = "publish"
    /\ packed' = token
    /\ change' = "none" /\ step' = "none"
    /\ UNCHANGED <<token, keyEpoch, pad, open, minted, owned, receiver, history>>

\* refreshRumble takes the flag and resends the feedback state of the session.
refreshRumble ==
    /\ change = "none" /\ token # 0 /\ feedbackPending
    /\ feedbackPending' = FALSE
    /\ answered' = keyEpoch
    /\ UNCHANGED <<published, replayKeyEpoch, lastCounter, clientAddr, receiver, service, received,
                   recorded, applied>>

ReceiveStep ==
    \/ enterRecord \/ recordDatagram \/ markKeyEpoch \/ flagFeedback
    \/ submitHotFrame \/ dispatchInnerMessage

Rest == at = "idle" /\ change = "none" /\ UNCHANGED vars

Next ==
    \/ \E t \in 1..minted, c \in 1..MaxCounter : receive(t, c)
    \/ ReceiveStep
    \/ \E c \in {"create", "rotate", "pads", "close"} : beginWrite(c)
    \/ store \/ publish \/ refreshRumble
    \/ Rest

Spec == Init /\ [][Next]_vars

\* The receive thread and a change under way run on, and the tick comes round.
Fairness == WF_vars(ReceiveStep) /\ WF_vars(store \/ publish) /\ SF_vars(refreshRumble)

FairSpec == Spec /\ Fairness
-----------------------------------------------------------------------------
Tokens == 0..MaxSessions
Datagrams == [token : Tokens, counter : 0..MaxCounter]

\* The types of the slot, the receive thread and the change.
TypeOK ==
    /\ packed \in Tokens /\ token \in Tokens /\ keyEpoch \in Nat
    /\ pad \in BOOLEAN /\ open \in BOOLEAN
    /\ replayKeyEpoch \in Nat /\ lastCounter \in 0..MaxCounter /\ clientAddr \in Tokens
    /\ feedbackPending \in BOOLEAN
    /\ at \in {"idle", "decrypted", "recording", "marking", "flagging", "submit", "dispatch"}
    /\ datagram \in Datagrams /\ epochRead \in Nat
    /\ minted \in Tokens
    /\ change \in {"none", "create", "rotate", "pads", "close"}
    /\ step \in {"none", "grace", "publish"}
    /\ received \in Nat /\ recorded \in Tokens /\ answered \in Nat
    /\ applied \in [Streams -> [token : Tokens, counter : 0..MaxCounter, count : Nat]]

\* Once a key has carried a datagram, the replay counter and the address are a datagram's
\* of that very session: one that arrives mid-change is never recorded into the slot's
\* next owner.  And when the maintenance tick takes the first-datagram flag, the client's
\* address is known, so the feedback it resends can go out.
RecordedIntoItsOwner ==
    token # 0 => /\ replayKeyEpoch = keyEpoch => recorded = token
                 /\ clientAddr \in {0, token}
                 /\ feedbackPending => clientAddr = token /\ replayKeyEpoch = keyEpoch

\* What a step applies to a stream is newer than what was applied before.
Newer(s) ==
    applied'[s].count # applied[s].count =>
        \/ applied'[s].token > applied[s].token
        \/ /\ applied'[s].token = applied[s].token
           /\ applied'[s].counter > applied[s].counter

\* Input is applied at most once and in the order it was sent, whatever the network
\* repeats or reorders and whatever is published meanwhile: the replay check of
\* handleDatagram and the fused record of submitHotFrame.
InputsInOrder == [][Newer("input")]_vars

\* The same of the other streams, which are recorded and handled in two brackets.
StreamsInOrder == [][Newer("other")]_vars

\* The first datagram under a key gets the session's feedback state resent, unless the
\* session ends or rotates first.
FirstDatagramAnswered ==
    \A e \in 1..MaxSessions :
        keyEpoch = e /\ replayKeyEpoch = e ~> answered = e \/ keyEpoch # e \/ token = 0
=============================================================================
