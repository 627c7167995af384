------------------------------ MODULE SendGate ------------------------------
(***************************************************************************)
(* Everything the satellite sends to one session's slot                     *)
(* (src/adapters/client_adapter.cpp): the send gate, the counter, the       *)
(* heartbeat ack the receive thread leaves behind when the gate is taken,   *)
(* and what replaces the key under the senders: a session rotated, closed   *)
(* or created in the slot, and the socket closed at shutdown.               *)
(*                                                                         *)
(* Audio lanes and the receive thread send inside a bracket of RxEpoch and  *)
(* hold no lock; backend callbacks, the maintenance tick and the topology   *)
(* change send with mtx_ held.  The slot's seqlock and grace wait are taken *)
(* as AtomicSlot describes them: a write is announced, refuses readers, and *)
(* stores once no bracket holds the old content.                            *)
(***************************************************************************)
EXTENDS Naturals

CONSTANTS
    Lanes,         \* audio lanes: participants of RxEpoch
    Handlers,      \* threads that send with mtx_ held
    CounterSpace,  \* 2^32: values of the u32 txCounter
    MaxOps,        \* bound: sends and heartbeats started
    MaxKeys        \* bound: session keys minted into the slot

ASSUME SendGateAssumption ==
    /\ CounterSpace \in Nat \ {0}
    /\ MaxOps \in Nat /\ MaxKeys \in Nat
    /\ {"rx", "topo", "free"} \cap (Lanes \cup Handlers) = {}
    /\ Lanes \cap Handlers = {}

Senders == Lanes \cup Handlers \cup {"rx", "topo"}

VARIABLES
    \* the slot
    key,        \* the session key it holds, numbered; 0 when it has no session
    open,       \* a write of the slot is announced
    txCounter, clientAddr, txGate, txDeferredAck,
    \* the service
    minted,     \* keys minted so far
    mtx,        \* who holds mtx_
    change,     \* the topology change at work: "none", "rotate", "close", "create"
    step,       \* its step: "none", "notify", "grace", "seed"
    listening,  \* the receiver: "serve", "closing", "unset", "down"
    sock,       \* sock_ is set
    socketOpen, \* the socket itself is open
    \* a sender
    pc, with,   \* where it is, and the key it sends with
    counter,    \* the counter it claimed
    ack,        \* the deferred ack it took
    \* history
    ops,        \* sends and heartbeats started
    heard,      \* heartbeats handled
    handedOver, \* newest ack handed to sealAndSend
    wire        \* the last datagram that left

slot    == <<key, open, txCounter, clientAddr, txGate, txDeferredAck>>
service == <<minted, mtx, change, step>>
socket  == <<listening, sock, socketOpen>>
sender  == <<pc, with, counter, ack>>
history == <<ops, heard, handedOver, wire>>
vars    == <<slot, service, socket, sender, history>>

NoAck == [n |-> 0, key |-> 0]

Init ==
    /\ key = 0 /\ open = FALSE /\ txCounter = 0 /\ clientAddr = FALSE
    /\ txGate = 0 /\ txDeferredAck = NoAck
    /\ minted = 0 /\ mtx = "free" /\ change = "none" /\ step = "none"
    /\ listening = "serve" /\ sock = TRUE /\ socketOpen = TRUE
    /\ pc = [s \in Senders |-> "out"]
    /\ with = [s \in Senders |-> 0]
    /\ counter = [s \in Senders |-> 0]
    /\ ack = [s \in Senders |-> NoAck]
    /\ ops = 0 /\ heard = 0 /\ handedOver = 0
    /\ wire = [key |-> 0, counter |-> 0]

Go(s, where) == pc' = [pc EXCEPT ![s] = where]

\* A bracketed read of the slot succeeds.
Readable == key # 0 /\ ~open

\* Mutant: the audio lanes do not take part in the grace wait.
BracketedReceiver == {s \in {"rx"} : pc[s] \notin {"out", "record", "ping"}}

\* Participants inside a bracket that holds the slot's content.
Bracketed ==
    {s \in Lanes : pc[s] # "out"} \cup
    {s \in {"rx"} : pc[s] \notin {"out", "record", "ping"}}

\* A sender has returned: it leaves its bracket or lets go of mtx_.
Return(s) ==
    /\ Go(s, "out")
    /\ with' = [with EXCEPT ![s] = 0]
    /\ counter' = [counter EXCEPT ![s] = 0]
    /\ ack' = [ack EXCEPT ![s] = NoAck]
    /\ mtx' = IF mtx = s /\ s # "topo" THEN "free" ELSE mtx
    /\ UNCHANGED <<minted, change, step>>
-----------------------------------------------------------------------------
(* Who sends.                                                               *)

\* sendAudioWindow: the lane enters its bracket and reads the endpoint.
sendAudioWindow(l) ==
    /\ pc[l] = "out" /\ Readable /\ ops < MaxOps
    /\ ops' = ops + 1
    /\ Go(l, "holdGate")
    /\ with' = [with EXCEPT ![l] = key]
    /\ UNCHANGED <<slot, service, socket, counter, ack, heard, handedOver, wire>>

\* A rumble, lightbar, trigger or LED update: the session is found under mtx_.
sendFeedback(h) ==
    /\ pc[h] = "out" /\ mtx = "free" /\ key # 0 /\ ops < MaxOps
    /\ ops' = ops + 1
    /\ mtx' = h
    /\ Go(h, "holdGate")
    /\ with' = [with EXCEPT ![h] = key]
    /\ UNCHANGED <<slot, minted, change, step, socket, counter, ack, heard, handedOver, wire>>

\* handleDatagram finds the datagram's session; from here to handleHeartbeat's read
\* the receive thread is in no bracket that holds the slot.
getDecryptInfo ==
    /\ listening = "serve" /\ pc["rx"] = "out" /\ Readable /\ ops < MaxOps
    /\ ops' = ops + 1
    /\ Go("rx", "record")
    /\ with' = [with EXCEPT !["rx"] = key]
    /\ UNCHANGED <<slot, service, socket, counter, ack, heard, handedOver, wire>>

recordHotDatagram ==
    /\ pc["rx"] = "record"
    /\ clientAddr' = (clientAddr \/ (Readable /\ key = with["rx"]))
    /\ Go("rx", "ping")
    /\ UNCHANGED <<key, open, txCounter, txGate, txDeferredAck, service, socket, with, counter,
                   ack, history>>

handleHeartbeat ==
    /\ pc["rx"] = "ping"
    /\ IF Readable /\ key = with["rx"]
       THEN Go("rx", "defer") /\ heard' = heard + 1 /\ UNCHANGED <<service, with, counter, ack>>
       ELSE Return("rx") /\ UNCHANGED heard
    /\ UNCHANGED <<slot, socket, ops, handedOver, wire>>

\* sendHeartbeatAck leaves the ack first and tries the gate second.
sendHeartbeatAck ==
    /\ pc["rx"] = "defer"
    /\ txDeferredAck' = [n |-> heard, key |-> with["rx"]]
    /\ Go("rx", "tryGate")
    /\ UNCHANGED <<key, open, txCounter, clientAddr, txGate, service, socket, with, counter, ack,
                   history>>

tryHoldGate(s) ==
    /\ pc[s] \in {"tryGate", "retake"}
    /\ IF txGate = 0
       THEN txGate' = 1 /\ Go(s, "exchange") /\ UNCHANGED <<service, with, counter, ack>>
       ELSE UNCHANGED txGate /\ Return(s)
    /\ UNCHANGED <<key, open, txCounter, clientAddr, txDeferredAck, socket, history>>
-----------------------------------------------------------------------------
(* Sending: sendSealed, sealAndSend and releaseGate.                        *)

\* Mutant: the gate is taken without looking.
passGate(s) ==
    /\ pc[s] = "holdGate"
    /\ txGate' = 1
    /\ Go(s, "claim")
    /\ UNCHANGED <<key, open, txCounter, clientAddr, txDeferredAck, service, socket, with, counter,
                   ack, history>>

holdGate(s) ==
    /\ pc[s] = "holdGate" /\ txGate = 0
    /\ txGate' = 1
    /\ Go(s, "claim")
    /\ UNCHANGED <<key, open, txCounter, clientAddr, txDeferredAck, service, socket, with, counter,
                   ack, history>>

\* The head of sealAndSend: no socket or no address drops the message, and otherwise
\* it claims the next counter.
claimCounter(s) ==
    /\ pc[s] \in {"claim", "claimAck"}
    /\ IF sock /\ clientAddr
       THEN /\ txCounter' = (txCounter + 1) % CounterSpace
            /\ counter' = [counter EXCEPT ![s] = txCounter']
            /\ Go(s, IF pc[s] = "claim" THEN "sendto" ELSE "sendAck")
       ELSE /\ Go(s, IF pc[s] = "claim" THEN "exchange" ELSE "openGate")
            /\ UNCHANGED <<txCounter, counter>>
    /\ UNCHANGED <<key, open, clientAddr, txGate, txDeferredAck, service, socket, with, ack, history>>

\* Its tail: the datagram leaves, or sealing or sending it failed.
sealAndSend(s) ==
    /\ pc[s] \in {"sendto", "sendAck"}
    /\ wire' \in {wire, [key |-> with[s], counter |-> counter[s]]}
    /\ Go(s, IF pc[s] = "sendto" THEN "exchange" ELSE "openGate")
    /\ counter' = [counter EXCEPT ![s] = 0]
    /\ UNCHANGED <<slot, service, socket, with, ack, ops, heard, handedOver>>

\* releaseGate takes the deferred ack, ...
exchangeAck(s) ==
    /\ pc[s] = "exchange"
    /\ ack' = [ack EXCEPT ![s] = txDeferredAck]
    /\ txDeferredAck' = NoAck
    /\ handedOver' = IF txDeferredAck = NoAck THEN handedOver ELSE txDeferredAck.n
    /\ Go(s, IF txDeferredAck = NoAck THEN "openGate" ELSE "claimAck")
    /\ UNCHANGED <<key, open, txCounter, clientAddr, txGate, service, socket, with, counter,
                   ops, heard, wire>>

\* ... opens the gate, ...
openGate(s) ==
    /\ pc[s] = "openGate"
    /\ txGate' = 0
    /\ Go(s, "recheck")
    /\ UNCHANGED <<key, open, txCounter, clientAddr, txDeferredAck, service, socket, with, counter,
                   ack, history>>

\* Mutant: the gate is opened and nobody looks again.
returnAtOnce(s) ==
    /\ pc[s] = "recheck"
    /\ Return(s)
    /\ UNCHANGED <<slot, socket, history>>

\* ... and looks once more for an ack left meanwhile.
recheckAck(s) ==
    /\ pc[s] = "recheck"
    /\ IF txDeferredAck = NoAck
       THEN Return(s)
       ELSE Go(s, "retake") /\ UNCHANGED <<service, with, counter, ack>>
    /\ UNCHANGED <<slot, socket, history>>

SendStep(s) ==
    \/ holdGate(s) \/ tryHoldGate(s) \/ claimCounter(s) \/ sealAndSend(s)
    \/ exchangeAck(s) \/ openGate(s) \/ recheckAck(s)
-----------------------------------------------------------------------------
(* The topology change, with mtx_ held from the close notice to the seeded  *)
(* rumble.                                                                  *)

\* A rotation always tells the client that its session was replaced, a close may.
beginChange(c, notify) ==
    /\ change = "none" /\ mtx = "free"
    /\ change' = c /\ step' = "notify" /\ mtx' = "topo"
    /\ pc' = IF notify THEN [pc EXCEPT !["topo"] = "holdGate"] ELSE pc
    /\ with' = IF notify THEN [with EXCEPT !["topo"] = key] ELSE with
    /\ UNCHANGED <<slot, minted, counter, ack, history>>

rotateSession == key # 0 /\ minted < MaxKeys /\ beginChange("rotate", TRUE) /\ UNCHANGED socket

createSession == key = 0 /\ minted < MaxKeys /\ beginChange("create", FALSE) /\ UNCHANGED socket

closeSession ==
    /\ key # 0 /\ UNCHANGED socket
    /\ \E notify \in BOOLEAN : beginChange("close", notify)

beginWrite ==
    /\ step = "notify" /\ pc["topo"] = "out"
    /\ open' = TRUE
    /\ step' = "grace"
    /\ UNCHANGED <<key, txCounter, clientAddr, txGate, txDeferredAck, minted, mtx, change, socket,
                   sender, history>>

\* publishSessionKeyLocked, or retireConnectionLocked for a close, after the grace wait.
publishSessionKey ==
    /\ step = "grace" /\ Bracketed = {}
    /\ IF change = "close"
       THEN key' = 0 /\ UNCHANGED <<minted, txCounter, clientAddr>>
       ELSE /\ minted' = minted + 1 /\ key' = minted + 1
            /\ txCounter' = 0 /\ clientAddr' = FALSE
    /\ open' = FALSE
    /\ step' = "seed"
    /\ UNCHANGED <<txGate, txDeferredAck, mtx, change, socket, sender, history>>

sendSeededRumble ==
    /\ step = "seed" /\ key # 0 /\ pc["topo"] = "out"
    /\ step' = "end"
    /\ Go("topo", "holdGate")
    /\ with' = [with EXCEPT !["topo"] = key]
    /\ UNCHANGED <<slot, minted, mtx, change, socket, counter, ack, history>>

endChange ==
    /\ step \in {"seed", "end"} /\ pc["topo"] = "out"
    /\ change' = "none" /\ step' = "none" /\ mtx' = "free"
    /\ listening' = IF listening = "closing" THEN "unset" ELSE listening
    /\ UNCHANGED <<slot, minted, sock, socketOpen, sender, history>>
-----------------------------------------------------------------------------
(* Shutdown: stopListening on the receive thread.                           *)

\* closeAllSessions, which notifies every client, runs as a change of this slot when
\* it holds a session.
stopListening ==
    /\ listening = "serve" /\ pc["rx"] = "out"
    /\ IF key = 0
       THEN /\ change = "none" /\ mtx = "free"
            /\ listening' = "unset"
            /\ UNCHANGED <<slot, service, sender, history>>
       ELSE listening' = "closing" /\ beginChange("close", TRUE)
    /\ UNCHANGED <<sock, socketOpen>>

setSocket ==
    /\ listening = "unset" /\ sock
    /\ sock' = FALSE
    /\ UNCHANGED <<slot, service, listening, socketOpen, sender, history>>

closesocket ==
    /\ listening = "unset" /\ ~sock
    /\ socketOpen' = FALSE /\ listening' = "down"
    /\ UNCHANGED <<slot, service, sock, sender, history>>

\* Nobody is sending and no change is at work.
Quiet == (\A s \in Senders : pc[s] = "out") /\ change = "none"

Rest == Quiet /\ UNCHANGED vars

ReceiveStep == recordHotDatagram \/ handleHeartbeat \/ sendHeartbeatAck

ChangeStep == beginWrite \/ publishSessionKey \/ endChange

Next ==
    \/ \E l \in Lanes : sendAudioWindow(l)
    \/ \E h \in Handlers : sendFeedback(h)
    \/ getDecryptInfo \/ ReceiveStep
    \/ \E s \in Senders : SendStep(s)
    \/ rotateSession \/ createSession \/ closeSession
    \/ ChangeStep \/ sendSeededRumble
    \/ stopListening \/ setSocket \/ closesocket
    \/ Rest

Spec == Init /\ [][Next]_vars

\* Threads keep running; nothing is assumed of when a send, a heartbeat or a change
\* starts.
Fairness ==
    /\ WF_vars(ReceiveStep) /\ WF_vars(ChangeStep)
    /\ \A s \in Senders : WF_vars(SendStep(s))

FairSpec == Spec /\ Fairness
-----------------------------------------------------------------------------
Places == {"out", "record", "ping", "defer", "tryGate", "holdGate", "claim", "sendto", "exchange",
           "claimAck", "sendAck", "openGate", "recheck", "retake"}

Acks == [n : Nat, key : Nat]

\* The types of the slot, the service, the socket and the senders.
TypeOK ==
    /\ key \in Nat /\ minted \in Nat /\ open \in BOOLEAN
    /\ txCounter \in 0..(CounterSpace - 1) /\ clientAddr \in BOOLEAN /\ txGate \in {0, 1}
    /\ txDeferredAck \in Acks
    /\ mtx \in Handlers \cup {"topo", "free"}
    /\ change \in {"none", "rotate", "close", "create"}
    /\ step \in {"none", "notify", "grace", "seed", "end"}
    /\ listening \in {"serve", "closing", "unset", "down"}
    /\ sock \in BOOLEAN /\ socketOpen \in BOOLEAN
    /\ pc \in [Senders -> Places]
    /\ with \in [Senders -> Nat] /\ counter \in [Senders -> Nat] /\ ack \in [Senders -> Acks]
    /\ ops \in Nat /\ heard \in Nat /\ handedOver \in Nat
    /\ wire \in [key : Nat, counter : Nat]

Sending == {"sendto", "sendAck"}
Holding == {"claim", "sendto", "exchange", "claimAck", "sendAck", "openGate"}

\* Datagrams leave in counter order, and no key's counter is used twice: what the gate
\* from the claim to the sendto is for, with the reset of txCounter at a new key.
CountersIncrease ==
    [][wire' # wire => \/ wire'.key > wire.key
                       \/ wire'.key = wire.key /\ wire'.counter > wire.counter]_vars

\* Whatever leaves is sealed with the key the slot holds while it leaves, and an ack
\* with the key of the session whose heartbeat it answers, through rotations and
\* reuse of the slot.
SealedWithTheSessionsKey ==
    \A s \in Senders : pc[s] \in Sending =>
        /\ with[s] = key
        /\ pc[s] = "sendAck" => ack[s].key = key

\* An ack left behind is never stranded: as long as one is there, some sender has still
\* to look at it before it returns.
AckNeverStranded ==
    txDeferredAck # NoAck =>
        \E s \in Senders : pc[s] \in Holding \cup {"tryGate", "recheck", "retake"}

\* sendto never meets the closed socket: after closeAllSessions a session has no client
\* address until a datagram arrives, and none does.
SendMeetsOpenSocket ==
    \A s \in Senders : pc[s] \in Sending => socketOpen

\* Every heartbeat handled is answered by its own ack or by a newer one.
HeartbeatsAnswered ==
    \A n \in 1..MaxOps : heard >= n ~> handedOver >= n
=============================================================================
