--------------------------- MODULE SendGateProofs ---------------------------
(***************************************************************************)
(* Proofs about SendGate for any number of lanes and handlers, sends, and   *)
(* keys: its types, that no deferred ack is stranded, that what leaves is   *)
(* sealed with the session's key, that sendto never meets a closed socket,  *)
(* and, as long as the counter has not run through its 32 bits, that        *)
(* datagrams leave in counter order.                                        *)
(*                                                                         *)
(* The inductive invariant says who may be where: one sender behind the     *)
(* gate, mtx_ around every handler and every change, and every sender that  *)
(* has read the slot still using the key the slot holds.                    *)
(***************************************************************************)
EXTENDS SendGate, TLAPS

\* Senders that have read the slot and not yet returned.
Busy == Places \ {"out", "record", "ping"}

\* The gate is taken exactly while one sender is behind it.
GateHasOneHolder ==
    /\ txGate = 1 <=> \E s \in Senders : pc[s] \in Holding
    /\ \A s, t \in Senders : pc[s] \in Holding /\ pc[t] \in Holding => s = t

\* Handlers and changes send with mtx_ held, and only the receive thread walks through
\* the places of a datagram.
LocksAreHeld ==
    /\ \A h \in Handlers : pc[h] # "out" => mtx = h
    /\ pc["topo"] # "out" => step \in {"notify", "end"}
    /\ mtx = "topo" <=> step # "none"
    /\ open <=> step = "grace"
    /\ change # "none" <=> step # "none"
    /\ \A s \in Senders \ {"rx"} : pc[s] \notin {"record", "ping", "defer", "tryGate"}

\* A busy sender uses the key the slot holds, which is the last one minted.
KeysAgree ==
    /\ key \in {0, minted}
    /\ \A s \in Senders : pc[s] \in Busy => with[s] = key /\ key # 0
    /\ txDeferredAck # NoAck => txDeferredAck.key = key
    /\ \A s \in Senders : pc[s] \in {"claimAck", "sendAck"} => ack[s].key = key

\* Once the receiver has closed the sessions, no session knows its client's address.
ShutdownSilences ==
    /\ listening # "serve" => pc["rx"] = "out"
    /\ listening = "closing" => change = "close"
    /\ change = "close" /\ step \in {"seed", "end"} => key = 0
    /\ listening \in {"unset", "down"} => key = 0 \/ ~clientAddr
    /\ ~socketOpen => listening = "down"
    /\ \A s \in Senders : pc[s] \in Sending => clientAddr

IInv ==
    /\ TypeOK
    /\ GateHasOneHolder /\ LocksAreHeld /\ AckNeverStranded /\ KeysAgree /\ ShutdownSilences

\* Counters claimed and sent under the slot's key, in order.
CountersFollow ==
    /\ wire.key <= minted
    /\ wire.key = key /\ key # 0 => wire.counter <= txCounter
    /\ \A s \in Senders : pc[s] \in Sending =>
          /\ counter[s] = txCounter
          /\ wire.key = key => wire.counter < txCounter
-----------------------------------------------------------------------------
\* Counters stay within their width.
LEMMA Wraps == \A n \in Nat : n % CounterSpace \in 0..(CounterSpace - 1)
  BY SendGateAssumption

\* Every step keeps the types.
LEMMA TypeStep == TypeOK /\ [Next]_vars => TypeOK'
  <1> SUFFICES ASSUME TypeOK, [Next]_vars PROVE TypeOK'
    OBVIOUS
  <1> USE SendGateAssumption
      DEF TypeOK, Senders, Places, Acks, NoAck, Go, slot, service, socket, sender, history
  <1>1. ASSUME NEW l \in Lanes, sendAudioWindow(l) PROVE TypeOK'
    BY <1>1 DEF sendAudioWindow
  <1>2. ASSUME NEW h \in Handlers, sendFeedback(h) PROVE TypeOK'
    BY <1>2 DEF sendFeedback
  <1>3. CASE getDecryptInfo
    BY <1>3 DEF getDecryptInfo
  <1>4. CASE recordHotDatagram
    BY <1>4 DEF recordHotDatagram
  <1>5. CASE handleHeartbeat
    BY <1>5 DEF handleHeartbeat, Return
  <1>6. CASE sendHeartbeatAck
    BY <1>6 DEF sendHeartbeatAck
  <1>7. ASSUME NEW s \in Senders, holdGate(s) PROVE TypeOK'
    BY <1>7 DEF holdGate
  <1>8. ASSUME NEW s \in Senders, tryHoldGate(s) PROVE TypeOK'
    BY <1>8 DEF tryHoldGate, Return
  <1>9. ASSUME NEW s \in Senders, claimCounter(s) PROVE TypeOK'
    <2>1. txCounter' \in 0..(CounterSpace - 1) /\ txCounter' \in Nat
      <3>1. (txCounter + 1) % CounterSpace \in 0..(CounterSpace - 1)
        <4>1. txCounter + 1 \in Nat OBVIOUS
        <4> HIDE SendGateAssumption DEF TypeOK
        <4> QED BY <4>1, Wraps
      <3>2. txCounter' = txCounter \/ txCounter' = (txCounter + 1) % CounterSpace
        BY <1>9 DEF claimCounter
      <3>3. \A n \in 0..(CounterSpace - 1) : n \in Nat OBVIOUS
      <3> QED BY <3>1, <3>2, <3>3
    <2>2. pc' \in [Senders -> Places] /\ counter' \in [Senders -> Nat]
      BY <1>9, <2>1 DEF claimCounter
    <2>3. UNCHANGED <<key, open, clientAddr, txGate, txDeferredAck, service, socket, with, ack,
                      history>>
      BY <1>9 DEF claimCounter
    <2> QED BY <2>1, <2>2, <2>3
  <1>10. ASSUME NEW s \in Senders, sealAndSend(s) PROVE TypeOK'
    BY <1>10 DEF sealAndSend
  <1>11. ASSUME NEW s \in Senders, exchangeAck(s) PROVE TypeOK'
    BY <1>11 DEF exchangeAck
  <1>12. ASSUME NEW s \in Senders, openGate(s) PROVE TypeOK'
    BY <1>12 DEF openGate
  <1>13. ASSUME NEW s \in Senders, recheckAck(s) PROVE TypeOK'
    BY <1>13 DEF recheckAck, Return
  <1>14. CASE rotateSession
    BY <1>14 DEF rotateSession, beginChange
  <1>15. CASE createSession
    BY <1>15 DEF createSession, beginChange
  <1>16. CASE closeSession
    BY <1>16 DEF closeSession, beginChange
  <1>17. CASE beginWrite
    BY <1>17 DEF beginWrite
  <1>18. CASE publishSessionKey
    <2>1. txCounter' \in 0..(CounterSpace - 1)
      BY <1>18 DEF publishSessionKey
    <2>2. clientAddr' \in BOOLEAN /\ open' \in BOOLEAN
      BY <1>18 DEF publishSessionKey
    <2>3. key' \in Nat /\ minted' \in Nat /\ step' = "seed"
      BY <1>18 DEF publishSessionKey
    <2>4. UNCHANGED <<txGate, txDeferredAck, mtx, change, socket, sender, history>>
      BY <1>18 DEF publishSessionKey
    <2> QED BY <2>1, <2>2, <2>3, <2>4
  <1>19. CASE sendSeededRumble
    BY <1>19 DEF sendSeededRumble
  <1>20. CASE endChange
    BY <1>20 DEF endChange
  <1>21. CASE stopListening
    BY <1>21 DEF stopListening, beginChange
  <1>22. CASE setSocket
    <2>1. sock' \in BOOLEAN
      BY <1>22 DEF setSocket
    <2>2. UNCHANGED <<slot, service, listening, socketOpen, sender, history>>
      BY <1>22 DEF setSocket
    <2> QED BY <2>1, <2>2
  <1>23. CASE closesocket
    BY <1>23 DEF closesocket
  <1>24. CASE Rest \/ UNCHANGED vars
    BY <1>24 DEF Rest, vars
  <1> QED
    BY <1>1, <1>2, <1>3, <1>4, <1>5, <1>6, <1>7, <1>8, <1>9, <1>10, <1>11, <1>12, <1>13, <1>14,
       <1>15, <1>16, <1>17, <1>18, <1>19, <1>20, <1>21, <1>22, <1>23, <1>24
       DEF Next, SendStep, ReceiveStep, ChangeStep

\* The initial state has its types.
LEMMA InitTypes == Init => TypeOK
  <1> SUFFICES ASSUME Init PROVE TypeOK
    OBVIOUS
  <1>1. txCounter \in 0..(CounterSpace - 1)
    BY SendGateAssumption DEF Init
  <1>2. open \in BOOLEAN /\ clientAddr \in BOOLEAN /\ sock \in BOOLEAN /\ socketOpen \in BOOLEAN
    BY DEF Init
  <1>3. /\ pc \in [Senders -> Places] /\ with \in [Senders -> Nat]
        /\ counter \in [Senders -> Nat] /\ ack \in [Senders -> Acks]
    BY DEF Init, Places, Acks, NoAck
  <1>4. txDeferredAck \in Acks /\ wire \in [key : Nat, counter : Nat]
    BY DEF Init, Acks, NoAck
  <1> QED BY <1>1, <1>2, <1>3, <1>4 DEF Init, TypeOK

\* The types of the slot, the senders and the service.
THEOREM TypeCorrect == Spec => []TypeOK
  BY InitTypes, TypeStep, PTL DEF Spec

\* Every step keeps who may be where.
LEMMA InvStep == IInv /\ [Next]_vars => IInv'
  <1> SUFFICES ASSUME IInv, [Next]_vars PROVE IInv'
    OBVIOUS
  <1>0. TypeOK /\ TypeOK'
    BY TypeStep DEF IInv
  <1> USE <1>0, SendGateAssumption
      DEF IInv, TypeOK, Senders, Places, Acks, NoAck, Busy, Holding, Sending, Go, slot, service,
          socket, sender, history
  <1>1. ASSUME NEW l \in Lanes, sendAudioWindow(l) PROVE IInv'
    <2>1. GateHasOneHolder' BY <1>1 DEF sendAudioWindow, Readable, GateHasOneHolder
    <2>2. LocksAreHeld' BY <1>1 DEF sendAudioWindow, Readable, LocksAreHeld
    <2>3. AckNeverStranded' BY <1>1 DEF sendAudioWindow, Readable, AckNeverStranded
    <2>4. KeysAgree' BY <1>1 DEF sendAudioWindow, Readable, KeysAgree
    <2>5. ShutdownSilences' BY <1>1 DEF sendAudioWindow, Readable, ShutdownSilences
    <2> QED BY <2>1, <2>2, <2>3, <2>4, <2>5
  <1>2. ASSUME NEW h \in Handlers, sendFeedback(h) PROVE IInv'
    <2>1. GateHasOneHolder' BY <1>2 DEF sendFeedback, GateHasOneHolder
    <2>2. LocksAreHeld' BY <1>2 DEF sendFeedback, LocksAreHeld
    <2>3. AckNeverStranded' BY <1>2 DEF sendFeedback, AckNeverStranded
    <2>4. KeysAgree' BY <1>2 DEF sendFeedback, KeysAgree
    <2>5. ShutdownSilences' BY <1>2 DEF sendFeedback, ShutdownSilences
    <2> QED BY <2>1, <2>2, <2>3, <2>4, <2>5
  <1>3. CASE getDecryptInfo
    <2>1. GateHasOneHolder' BY <1>3 DEF getDecryptInfo, GateHasOneHolder
    <2>2. LocksAreHeld' BY <1>3 DEF getDecryptInfo, LocksAreHeld
    <2>3. AckNeverStranded' BY <1>3 DEF getDecryptInfo, AckNeverStranded
    <2>4. KeysAgree' BY <1>3 DEF getDecryptInfo, KeysAgree
    <2>5. ShutdownSilences' BY <1>3 DEF getDecryptInfo, ShutdownSilences
    <2> QED BY <2>1, <2>2, <2>3, <2>4, <2>5
  <1>4. CASE recordHotDatagram
    <2>1. GateHasOneHolder' BY <1>4 DEF recordHotDatagram, Readable, GateHasOneHolder
    <2>2. LocksAreHeld' BY <1>4 DEF recordHotDatagram, Readable, LocksAreHeld
    <2>3. AckNeverStranded' BY <1>4 DEF recordHotDatagram, Readable, AckNeverStranded
    <2>4. KeysAgree' BY <1>4 DEF recordHotDatagram, Readable, KeysAgree
    <2>5. ShutdownSilences' BY <1>4 DEF recordHotDatagram, Readable, ShutdownSilences
    <2> QED BY <2>1, <2>2, <2>3, <2>4, <2>5
  <1>5. CASE handleHeartbeat
    <2>1. GateHasOneHolder' BY <1>5 DEF handleHeartbeat, Return, Readable, GateHasOneHolder
    <2>2. LocksAreHeld' BY <1>5 DEF handleHeartbeat, Return, Readable, LocksAreHeld
    <2>3. AckNeverStranded' BY <1>5 DEF handleHeartbeat, Return, Readable, AckNeverStranded
    <2>4. KeysAgree' BY <1>5 DEF handleHeartbeat, Return, Readable, KeysAgree
    <2>5. ShutdownSilences' BY <1>5 DEF handleHeartbeat, Return, Readable, ShutdownSilences
    <2> QED BY <2>1, <2>2, <2>3, <2>4, <2>5
  <1>6. CASE sendHeartbeatAck
    <2>1. GateHasOneHolder' BY <1>6 DEF sendHeartbeatAck, GateHasOneHolder
    <2>2. LocksAreHeld' BY <1>6 DEF sendHeartbeatAck, LocksAreHeld
    <2>3. AckNeverStranded' BY <1>6 DEF sendHeartbeatAck, AckNeverStranded
    <2>4. KeysAgree' BY <1>6 DEF sendHeartbeatAck, KeysAgree
    <2>5. ShutdownSilences' BY <1>6 DEF sendHeartbeatAck, ShutdownSilences
    <2> QED BY <2>1, <2>2, <2>3, <2>4, <2>5
  <1>7. ASSUME NEW s \in Senders, holdGate(s) PROVE IInv'
    <2>1. GateHasOneHolder' BY <1>7 DEF holdGate, GateHasOneHolder
    <2>2. LocksAreHeld' BY <1>7 DEF holdGate, LocksAreHeld
    <2>3. AckNeverStranded' BY <1>7 DEF holdGate, AckNeverStranded
    <2>4. KeysAgree' BY <1>7 DEF holdGate, KeysAgree
    <2>5. ShutdownSilences' BY <1>7 DEF holdGate, ShutdownSilences
    <2> QED BY <2>1, <2>2, <2>3, <2>4, <2>5
  <1>8. ASSUME NEW s \in Senders, tryHoldGate(s) PROVE IInv'
    <2>1. GateHasOneHolder' BY <1>8 DEF tryHoldGate, Return, GateHasOneHolder
    <2>2. LocksAreHeld' BY <1>8 DEF tryHoldGate, Return, LocksAreHeld
    <2>3. AckNeverStranded' BY <1>8 DEF tryHoldGate, Return, GateHasOneHolder, AckNeverStranded
    <2>4. KeysAgree' BY <1>8 DEF tryHoldGate, Return, KeysAgree
    <2>5. ShutdownSilences' BY <1>8 DEF tryHoldGate, Return, ShutdownSilences
    <2> QED BY <2>1, <2>2, <2>3, <2>4, <2>5
  <1>9. ASSUME NEW s \in Senders, claimCounter(s) PROVE IInv'
    <2>1. GateHasOneHolder' BY <1>9 DEF claimCounter, GateHasOneHolder
    <2>2. LocksAreHeld' BY <1>9 DEF claimCounter, LocksAreHeld
    <2>3. AckNeverStranded' BY <1>9 DEF claimCounter, AckNeverStranded
    <2>4. KeysAgree' BY <1>9 DEF claimCounter, KeysAgree
    <2>5. ShutdownSilences' BY <1>9 DEF claimCounter, ShutdownSilences
    <2> QED BY <2>1, <2>2, <2>3, <2>4, <2>5
  <1>10. ASSUME NEW s \in Senders, sealAndSend(s) PROVE IInv'
    <2>1. GateHasOneHolder' BY <1>10 DEF sealAndSend, GateHasOneHolder
    <2>2. LocksAreHeld' BY <1>10 DEF sealAndSend, LocksAreHeld
    <2>3. AckNeverStranded' BY <1>10 DEF sealAndSend, AckNeverStranded
    <2>4. KeysAgree' BY <1>10 DEF sealAndSend, KeysAgree
    <2>5. ShutdownSilences' BY <1>10 DEF sealAndSend, ShutdownSilences
    <2> QED BY <2>1, <2>2, <2>3, <2>4, <2>5
  <1>11. ASSUME NEW s \in Senders, exchangeAck(s) PROVE IInv'
    <2>1. GateHasOneHolder' BY <1>11 DEF exchangeAck, GateHasOneHolder
    <2>2. LocksAreHeld' BY <1>11 DEF exchangeAck, LocksAreHeld
    <2>3. AckNeverStranded' BY <1>11 DEF exchangeAck, AckNeverStranded
    <2>4. KeysAgree' BY <1>11 DEF exchangeAck, KeysAgree
    <2>5. ShutdownSilences' BY <1>11 DEF exchangeAck, ShutdownSilences
    <2> QED BY <2>1, <2>2, <2>3, <2>4, <2>5
  <1>12. ASSUME NEW s \in Senders, openGate(s) PROVE IInv'
    <2>1. GateHasOneHolder' BY <1>12 DEF openGate, GateHasOneHolder
    <2>2. LocksAreHeld' BY <1>12 DEF openGate, LocksAreHeld
    <2>3. AckNeverStranded' BY <1>12 DEF openGate, AckNeverStranded
    <2>4. KeysAgree' BY <1>12 DEF openGate, KeysAgree
    <2>5. ShutdownSilences' BY <1>12 DEF openGate, ShutdownSilences
    <2> QED BY <2>1, <2>2, <2>3, <2>4, <2>5
  <1>13. ASSUME NEW s \in Senders, recheckAck(s) PROVE IInv'
    <2>1. GateHasOneHolder' BY <1>13 DEF recheckAck, Return, GateHasOneHolder
    <2>2. LocksAreHeld' BY <1>13 DEF recheckAck, Return, LocksAreHeld
    <2>3. AckNeverStranded' BY <1>13 DEF recheckAck, Return, AckNeverStranded
    <2>4. KeysAgree' BY <1>13 DEF recheckAck, Return, KeysAgree
    <2>5. ShutdownSilences' BY <1>13 DEF recheckAck, Return, ShutdownSilences
    <2> QED BY <2>1, <2>2, <2>3, <2>4, <2>5
  <1>14. CASE rotateSession
    <2>1. GateHasOneHolder'
      BY <1>14 DEF rotateSession, beginChange, GateHasOneHolder, LocksAreHeld
    <2>2. LocksAreHeld' BY <1>14 DEF rotateSession, beginChange, LocksAreHeld
    <2>3. AckNeverStranded'
      BY <1>14 DEF rotateSession, beginChange, LocksAreHeld, AckNeverStranded
    <2>4. KeysAgree' BY <1>14 DEF rotateSession, beginChange, KeysAgree
    <2>5. ShutdownSilences' BY <1>14 DEF rotateSession, beginChange, ShutdownSilences
    <2> QED BY <2>1, <2>2, <2>3, <2>4, <2>5
  <1>15. CASE createSession
    <2>1. GateHasOneHolder' BY <1>15 DEF createSession, beginChange, GateHasOneHolder
    <2>2. LocksAreHeld' BY <1>15 DEF createSession, beginChange, LocksAreHeld
    <2>3. AckNeverStranded' BY <1>15 DEF createSession, beginChange, AckNeverStranded
    <2>4. KeysAgree' BY <1>15 DEF createSession, beginChange, KeysAgree
    <2>5. ShutdownSilences' BY <1>15 DEF createSession, beginChange, ShutdownSilences
    <2> QED BY <2>1, <2>2, <2>3, <2>4, <2>5
  <1>16. CASE closeSession
    <2>1. GateHasOneHolder' BY <1>16 DEF closeSession, beginChange, GateHasOneHolder, LocksAreHeld
    <2>2. LocksAreHeld' BY <1>16 DEF closeSession, beginChange, LocksAreHeld
    <2>3. AckNeverStranded' BY <1>16 DEF closeSession, beginChange, LocksAreHeld, AckNeverStranded
    <2>4. KeysAgree' BY <1>16 DEF closeSession, beginChange, KeysAgree
    <2>5. ShutdownSilences' BY <1>16 DEF closeSession, beginChange, ShutdownSilences
    <2> QED BY <2>1, <2>2, <2>3, <2>4, <2>5
  <1>17. CASE beginWrite
    <2>1. GateHasOneHolder' BY <1>17 DEF beginWrite, GateHasOneHolder
    <2>2. LocksAreHeld' BY <1>17 DEF beginWrite, LocksAreHeld
    <2>3. AckNeverStranded' BY <1>17 DEF beginWrite, AckNeverStranded
    <2>4. KeysAgree' BY <1>17 DEF beginWrite, KeysAgree
    <2>5. ShutdownSilences' BY <1>17 DEF beginWrite, ShutdownSilences
    <2> QED BY <2>1, <2>2, <2>3, <2>4, <2>5
  <1>18. CASE publishSessionKey
    <2>1. GateHasOneHolder' BY <1>18 DEF publishSessionKey, Bracketed, GateHasOneHolder
    <2>2. LocksAreHeld' BY <1>18 DEF publishSessionKey, Bracketed, LocksAreHeld
    <2>3. AckNeverStranded' BY <1>18 DEF publishSessionKey, Bracketed, AckNeverStranded
    <2>4. KeysAgree'
      BY <1>18 DEF publishSessionKey, Bracketed, LocksAreHeld, AckNeverStranded, KeysAgree, GateHasOneHolder
    <2>5. ShutdownSilences'
      BY <1>18 DEF publishSessionKey, Bracketed, LocksAreHeld, KeysAgree, ShutdownSilences
    <2> QED BY <2>1, <2>2, <2>3, <2>4, <2>5
  <1>19. CASE sendSeededRumble
    <2>1. GateHasOneHolder' BY <1>19 DEF sendSeededRumble, GateHasOneHolder
    <2>2. LocksAreHeld' BY <1>19 DEF sendSeededRumble, LocksAreHeld
    <2>3. AckNeverStranded' BY <1>19 DEF sendSeededRumble, AckNeverStranded
    <2>4. KeysAgree' BY <1>19 DEF sendSeededRumble, KeysAgree
    <2>5. ShutdownSilences' BY <1>19 DEF sendSeededRumble, ShutdownSilences
    <2> QED BY <2>1, <2>2, <2>3, <2>4, <2>5
  <1>20. CASE endChange
    <2>1. GateHasOneHolder' BY <1>20 DEF endChange, GateHasOneHolder
    <2>2. LocksAreHeld' BY <1>20 DEF endChange, LocksAreHeld
    <2>3. AckNeverStranded' BY <1>20 DEF endChange, AckNeverStranded
    <2>4. KeysAgree' BY <1>20 DEF endChange, KeysAgree
    <2>5. ShutdownSilences' BY <1>20 DEF endChange, ShutdownSilences
    <2> QED BY <2>1, <2>2, <2>3, <2>4, <2>5
  <1>21. CASE stopListening
    <2>1. GateHasOneHolder'
      BY <1>21 DEF stopListening, beginChange, GateHasOneHolder, LocksAreHeld
    <2>2. LocksAreHeld' BY <1>21 DEF stopListening, beginChange, LocksAreHeld
    <2>3. AckNeverStranded'
      BY <1>21 DEF stopListening, beginChange, LocksAreHeld, AckNeverStranded
    <2>4. KeysAgree' BY <1>21 DEF stopListening, beginChange, KeysAgree
    <2>5. ShutdownSilences' BY <1>21 DEF stopListening, beginChange, ShutdownSilences
    <2> QED BY <2>1, <2>2, <2>3, <2>4, <2>5
  <1>22. CASE setSocket
    <2>1. GateHasOneHolder' BY <1>22 DEF setSocket, GateHasOneHolder
    <2>2. LocksAreHeld' BY <1>22 DEF setSocket, LocksAreHeld
    <2>3. AckNeverStranded' BY <1>22 DEF setSocket, AckNeverStranded
    <2>4. KeysAgree' BY <1>22 DEF setSocket, KeysAgree
    <2>5. ShutdownSilences' BY <1>22 DEF setSocket, ShutdownSilences
    <2> QED BY <2>1, <2>2, <2>3, <2>4, <2>5
  <1>23. CASE closesocket
    <2>1. GateHasOneHolder' BY <1>23 DEF closesocket, GateHasOneHolder
    <2>2. LocksAreHeld' BY <1>23 DEF closesocket, LocksAreHeld
    <2>3. AckNeverStranded' BY <1>23 DEF closesocket, AckNeverStranded
    <2>4. KeysAgree' BY <1>23 DEF closesocket, KeysAgree
    <2>5. ShutdownSilences' BY <1>23 DEF closesocket, ShutdownSilences
    <2> QED BY <2>1, <2>2, <2>3, <2>4, <2>5
  <1>24. CASE Rest \/ UNCHANGED vars
    <2>0. UNCHANGED vars BY <1>24 DEF Rest
    <2>1. GateHasOneHolder' BY <2>0 DEF vars, GateHasOneHolder
    <2>2. LocksAreHeld' BY <2>0 DEF vars, LocksAreHeld
    <2>3. AckNeverStranded' BY <2>0 DEF vars, AckNeverStranded
    <2>4. KeysAgree' BY <2>0 DEF vars, KeysAgree
    <2>5. ShutdownSilences' BY <2>0 DEF vars, ShutdownSilences
    <2> QED BY <2>1, <2>2, <2>3, <2>4, <2>5
  <1> QED
    BY <1>1, <1>2, <1>3, <1>4, <1>5, <1>6, <1>7, <1>8, <1>9, <1>10, <1>11, <1>12, <1>13, <1>14,
       <1>15, <1>16, <1>17, <1>18, <1>19, <1>20, <1>21, <1>22, <1>23, <1>24
       DEF Next, SendStep, ReceiveStep, ChangeStep

\* The inductive invariant of the senders, the service and the socket.
THEOREM Invariance == Spec => []IInv
  <1>1. Init => TypeOK
    BY InitTypes
  <1>2. Init => IInv
    <2> SUFFICES ASSUME Init PROVE IInv
      OBVIOUS
    <2>1. GateHasOneHolder /\ AckNeverStranded
      BY DEF Init, GateHasOneHolder, AckNeverStranded, Holding
    <2>2. LocksAreHeld
      BY DEF Init, LocksAreHeld, Senders
    <2>3. KeysAgree
      BY DEF Init, KeysAgree, Busy
    <2>4. ShutdownSilences
      BY DEF Init, ShutdownSilences, Sending, Senders
    <2> QED BY <1>1, <2>1, <2>2, <2>3, <2>4 DEF IInv
  <1> QED
    BY <1>2, InvStep, PTL DEF Spec

\* A deferred ack always has a sender that will still look at it.
THEOREM NoAckStranded == Spec => []AckNeverStranded
  <1>1. IInv => AckNeverStranded
    BY DEF IInv
  <1> QED
    BY <1>1, Invariance, PTL

\* Rotations and reuse of the slot never put a datagram or an ack under another key.
THEOREM SealedRight == Spec => []SealedWithTheSessionsKey
  <1>1. IInv => SealedWithTheSessionsKey
    BY DEF IInv, KeysAgree, Busy, Places, Sending, SealedWithTheSessionsKey
  <1> QED
    BY <1>1, Invariance, PTL

\* No send reaches the socket after shutdown closed it.
THEOREM SocketOpenWhileSending == Spec => []SendMeetsOpenSocket
  <1>1. IInv => SendMeetsOpenSocket
    BY DEF IInv, TypeOK, KeysAgree, ShutdownSilences, Busy, Places, Sending, SendMeetsOpenSocket
  <1> QED
    BY <1>1, Invariance, PTL
-----------------------------------------------------------------------------
(* Counter order, as long as the 32 bits last.                              *)

\* The slot's counter has a successor within its width.
CounterLeft == txCounter + 1 < CounterSpace

\* Below its width a counter does not wrap.
LEMMA NoWrap == \A n \in Nat : n < CounterSpace => n % CounterSpace = n
  BY SendGateAssumption

\* Claims and sends keep the counters of the slot's key in order.
LEMMA CounterStep == IInv /\ CountersFollow /\ CounterLeft /\ [Next]_vars => CountersFollow'
  <1> SUFFICES ASSUME IInv, CountersFollow, CounterLeft, [Next]_vars PROVE CountersFollow'
    OBVIOUS
  <1>0. TypeOK /\ TypeOK'
    BY TypeStep DEF IInv
  <1> USE <1>0, SendGateAssumption DEF TypeOK, Senders, Sending, CountersFollow
  <1>1. ASSUME NEW s \in Senders, claimCounter(s) PROVE CountersFollow'
    <2>1. CASE sock /\ clientAddr
      <3>1. txCounter' = txCounter + 1
        BY <1>1, <2>1, NoWrap DEF claimCounter, CounterLeft
      <3>2. \A t \in Senders : pc[t] \in Sending => t = s
        BY <1>1 DEF claimCounter, IInv, GateHasOneHolder, Holding
      <3>3. \A t \in Senders : pc'[t] \in Sending => t = s
        BY <1>1, <3>2 DEF claimCounter, Go
      <3>4. counter'[s] = txCounter' /\ UNCHANGED <<key, minted, wire>>
        BY <1>1, <2>1 DEF claimCounter, service, history
      <3>5. key # 0
        BY <1>1 DEF claimCounter, IInv, KeysAgree, Busy, Places
      <3> QED BY <3>1, <3>3, <3>4, <3>5
    <2>2. CASE ~(sock /\ clientAddr)
      BY <1>1, <2>2 DEF claimCounter, Go, service, history
    <2> QED BY <2>1, <2>2
  <1>2. ASSUME NEW s \in Senders, sealAndSend(s) PROVE CountersFollow'
    <2>1. \A t \in Senders : pc[t] \in Sending => t = s
      BY <1>2 DEF sealAndSend, IInv, GateHasOneHolder, Holding
    <2>2. \A t \in Senders : pc'[t] \notin Sending
      BY <1>2, <2>1 DEF sealAndSend, Go
    <2>3. with[s] = key /\ key \in {0, minted}
      BY <1>2 DEF sealAndSend, IInv, KeysAgree, Busy, Places
    <2>4. UNCHANGED <<key, minted, txCounter>>
      BY <1>2 DEF sealAndSend, slot, service
    <2>5. CASE wire' = wire
      BY <2>2, <2>4, <2>5
    <2>6. CASE wire' = [key |-> with[s], counter |-> counter[s]]
      <3>1. wire'.key = key /\ wire'.counter = txCounter
        BY <1>2, <2>3, <2>6 DEF sealAndSend
      <3> QED BY <2>2, <2>3, <2>4, <3>1
    <2> QED BY <1>2, <2>5, <2>6 DEF sealAndSend
  <1>3. CASE publishSessionKey
    <2>1. \A t \in Senders : pc'[t] \notin Sending
      BY <1>3 DEF publishSessionKey, Bracketed, IInv, LocksAreHeld, sender
    <2>2. wire' = wire /\ minted' \in {minted, minted + 1} /\ key' \in {0, minted + 1}
      BY <1>3 DEF publishSessionKey, history
    <2>3. key' # 0 => wire'.key # key'
      BY <2>2
    <2> QED BY <2>1, <2>2, <2>3
  <1>4. ASSUME NEW l \in Lanes, sendAudioWindow(l) PROVE CountersFollow'
    BY <1>4 DEF sendAudioWindow, Go, slot, service, sender, history
  <1>5. ASSUME NEW h \in Handlers, sendFeedback(h) PROVE CountersFollow'
    BY <1>5 DEF sendFeedback, Go, slot, service, sender, history
  <1>6. CASE getDecryptInfo
    BY <1>6 DEF getDecryptInfo, Go, slot, service, sender, history
  <1>7. CASE recordHotDatagram
    BY <1>7 DEF recordHotDatagram, Go, slot, service, sender, history
  <1>8. CASE handleHeartbeat
    BY <1>8 DEF handleHeartbeat, Return, Go, slot, service, sender, history
  <1>9. CASE sendHeartbeatAck
    BY <1>9 DEF sendHeartbeatAck, Go, slot, service, sender, history
  <1>10. ASSUME NEW s \in Senders, holdGate(s) PROVE CountersFollow'
    BY <1>10 DEF holdGate, Go, slot, service, sender, history
  <1>11. ASSUME NEW s \in Senders, tryHoldGate(s) PROVE CountersFollow'
    BY <1>11 DEF tryHoldGate, Return, Go, slot, service, sender, history
  <1>12. ASSUME NEW s \in Senders, exchangeAck(s) PROVE CountersFollow'
    BY <1>12 DEF exchangeAck, Go, slot, service, sender, history
  <1>13. ASSUME NEW s \in Senders, openGate(s) PROVE CountersFollow'
    BY <1>13 DEF openGate, Go, slot, service, sender, history
  <1>14. ASSUME NEW s \in Senders, recheckAck(s) PROVE CountersFollow'
    BY <1>14 DEF recheckAck, Return, Go, slot, service, sender, history
  <1>15. CASE rotateSession
    BY <1>15 DEF rotateSession, beginChange, Go, slot, service, sender, history
  <1>16. CASE createSession
    BY <1>16 DEF createSession, beginChange, Go, slot, service, sender, history
  <1>17. CASE closeSession
    BY <1>17 DEF closeSession, beginChange, Go, slot, service, sender, history
  <1>18. CASE beginWrite
    BY <1>18 DEF beginWrite, Go, slot, service, sender, history
  <1>19. CASE sendSeededRumble
    BY <1>19 DEF sendSeededRumble, Go, slot, service, sender, history
  <1>20. CASE endChange
    BY <1>20 DEF endChange, Go, slot, service, sender, history
  <1>21. CASE stopListening
    BY <1>21 DEF stopListening, beginChange, Go, slot, service, sender, history
  <1>22. CASE setSocket
    BY <1>22 DEF setSocket, Go, slot, service, sender, history
  <1>23. CASE closesocket
    BY <1>23 DEF closesocket, Go, slot, service, sender, history
  <1>24. CASE Rest \/ UNCHANGED vars
    BY <1>24 DEF Rest, vars, slot, service, sender, history
  <1> QED
    BY <1>1, <1>2, <1>3, <1>4, <1>5, <1>6, <1>7, <1>8, <1>9, <1>10, <1>11, <1>12, <1>13, <1>14,
       <1>15, <1>16, <1>17, <1>18, <1>19, <1>20, <1>21, <1>22, <1>23, <1>24
       DEF Next, SendStep, ReceiveStep, ChangeStep

\* Only sealAndSend puts a datagram on the wire, under the newest key and counter.
LEMMA OrderStep ==
    IInv /\ CountersFollow /\ [Next]_vars =>
        [wire' # wire => \/ wire'.key > wire.key
                         \/ wire'.key = wire.key /\ wire'.counter > wire.counter]_vars
  <1> SUFFICES ASSUME IInv, CountersFollow, Next, wire' # wire
               PROVE  \/ wire'.key > wire.key
                      \/ wire'.key = wire.key /\ wire'.counter > wire.counter
    BY DEF vars, history
  <1>1. PICK s \in Senders : sealAndSend(s)
    BY DEF Next, SendStep, ReceiveStep, ChangeStep, Rest, vars, history, sendAudioWindow, sendFeedback, getDecryptInfo, recordHotDatagram, handleHeartbeat,
       sendHeartbeatAck, holdGate, tryHoldGate, claimCounter, exchangeAck, openGate, recheckAck,
       rotateSession, createSession, closeSession, beginWrite, publishSessionKey,
       sendSeededRumble, endChange, stopListening, setSocket, closesocket, beginChange
  <1>2. with[s] = key /\ key = minted
    BY <1>1 DEF sealAndSend, IInv, KeysAgree, Busy, Places
  <1>3. wire' = [key |-> key, counter |-> txCounter]
    BY <1>1, <1>2 DEF sealAndSend, CountersFollow, Sending
  <1>4. wire.key <= key /\ (wire.key = key => wire.counter < txCounter)
    BY <1>1, <1>2 DEF sealAndSend, CountersFollow, Sending
  <1>5. wire.key \in Nat /\ key \in Nat
    BY DEF IInv, TypeOK
  <1> QED BY <1>3, <1>4, <1>5

\* While the counter lasts, a session's datagrams leave in strictly increasing counter
\* order under each key, whoever sends them.
THEOREM CounterOrder == Spec /\ []CounterLeft => CountersIncrease
  <1>1. Init => CountersFollow
    BY DEF Init, CountersFollow, Sending
  <1> QED
    BY <1>1, Invariance, CounterStep, OrderStep, PTL DEF Spec, CountersIncrease
=============================================================================
