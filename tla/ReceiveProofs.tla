---------------------------- MODULE ReceiveProofs ----------------------------
(***************************************************************************)
(* Proofs about ReceivePath, for any number of sessions, counters, inputs   *)
(* and datagrams: its types, that a datagram is recorded into the session   *)
(* it belongs to, and that input is applied once and in order.              *)
(*                                                                         *)
(* Both properties rest on what the receive thread may still believe: in    *)
(* its bracket the slot is its datagram's, and a counter it has let pass is  *)
(* ahead of the recorded one for as long as the slot has the same key.       *)
(***************************************************************************)
EXTENDS ReceivePath, TLAPS

\* A change is under way exactly from its mark to its publication, and the slot is
\* unreadable until the stores.
ChangeInv ==
    /\ change = "none" <=> step = "none"
    /\ open <=> step = "grace"
    /\ step = "grace" => (change = "create" <=> token = 0)
    /\ step = "grace" /\ change \in {"create", "rotate"} => minted < MaxSessions

\* The slot holds the newest token or none, and a new token comes with a new key epoch.
SlotInv ==
    /\ token \in {0, minted}
    /\ packed <= minted
    /\ replayKeyEpoch <= keyEpoch

\* A datagram the thread works on was sent under a token that exists, and in a bracket it
\* is the slot's.
BracketInv ==
    /\ at # "idle" => datagram.token \in 1..minted
    /\ Bracketed => datagram.token = token /\ epochRead = keyEpoch
    /\ at \in {"marking", "flagging", "submit"} => recorded = token /\ clientAddr = token
    /\ at \in {"flagging", "submit"} => replayKeyEpoch = keyEpoch
    /\ at = "submit" => StreamOf(datagram) = "input"
    /\ at = "dispatch" => StreamOf(datagram) = "other"

\* A counter that passed the replay check is ahead of the one on record.
AheadInv ==
    /\ at \in {"decrypted", "recording"} /\ datagram.token = token /\ replayKeyEpoch = keyEpoch
           => datagram.counter > lastCounter
    /\ at \in {"marking", "flagging", "submit"} => lastCounter = datagram.counter

\* The last input applied is no newer than the record, and older than a datagram still on
\* its way to the pad.
AppliedInv ==
    /\ applied["input"].token <= minted
    /\ applied["input"].token = token /\ token # 0 =>
           /\ replayKeyEpoch = keyEpoch
           /\ applied["input"].counter <= lastCounter
    /\ Bracketed /\ applied["input"].token = token
           => applied["input"].counter < datagram.counter

IInv ==
    /\ TypeOK /\ ChangeInv /\ SlotInv /\ BracketInv /\ RecordedIntoItsOwner
    /\ AheadInv /\ AppliedInv
-----------------------------------------------------------------------------
\* Every step keeps the types.
LEMMA TypeStep == TypeOK /\ ChangeInv /\ [Next]_vars => TypeOK'
  <1> SUFFICES ASSUME TypeOK, ChangeInv, [Next]_vars PROVE TypeOK'
    OBVIOUS
  <1> USE ReceiveAssumption
      DEF TypeOK, Tokens, Datagrams, NoDatagram, GoTo, Drop, Streams, published, owned, receiver,
          service, history
  <1>1. ASSUME NEW t \in 1..minted, NEW c \in 1..MaxCounter, receive(t, c) PROVE TypeOK'
    BY <1>1 DEF receive, Stable
  <1>2. CASE enterRecord
    BY <1>2 DEF enterRecord
  <1>3. CASE recordDatagram
    BY <1>3 DEF recordDatagram
  <1>4. CASE markKeyEpoch
    BY <1>4 DEF markKeyEpoch
  <1>5. CASE flagFeedback
    BY <1>5 DEF flagFeedback
  <1>6. CASE submitHotFrame
    BY <1>6 DEF submitHotFrame, Apply, StreamOf
  <1>7. CASE dispatchInnerMessage
    BY <1>7 DEF dispatchInnerMessage, Apply, StreamOf
  <1>8. ASSUME NEW c \in {"create", "rotate", "pads", "close"}, beginWrite(c) PROVE TypeOK'
    BY <1>8 DEF beginWrite
  <1>9. CASE store
    <2>1. pad' \in BOOLEAN /\ open' \in BOOLEAN /\ feedbackPending' \in BOOLEAN
      BY <1>9 DEF store
    <2>2. CASE change \in {"create", "rotate"}
      BY <1>9, <2>1, <2>2 DEF store, ChangeInv
    <2>3. CASE change = "pads"
      BY <1>9, <2>1, <2>3 DEF store
    <2>4. CASE change = "close"
      BY <1>9, <2>1, <2>4 DEF store
    <2> QED BY <1>9, <2>2, <2>3, <2>4 DEF store
  <1>10. CASE publish
    BY <1>10 DEF publish
  <1>11. CASE refreshRumble
    BY <1>11 DEF refreshRumble
  <1>12. CASE Rest \/ UNCHANGED vars
    BY <1>12 DEF Rest, vars
  <1> QED
    BY <1>1, <1>2, <1>3, <1>4, <1>5, <1>6, <1>7, <1>8, <1>9, <1>10, <1>11, <1>12
       DEF Next, ReceiveStep

\* Every step keeps the relations between the slot, the receive thread and the record.
LEMMA RelationStep ==
    IInv /\ [Next]_vars => /\ ChangeInv' /\ SlotInv' /\ BracketInv' /\ RecordedIntoItsOwner'
                           /\ AheadInv' /\ AppliedInv'
  <1> DEFINE Goal == /\ ChangeInv /\ SlotInv /\ BracketInv /\ RecordedIntoItsOwner
                     /\ AheadInv /\ AppliedInv
  <1> SUFFICES ASSUME IInv, [Next]_vars PROVE Goal'
    OBVIOUS
  <1> USE ReceiveAssumption
      DEF IInv, TypeOK, Tokens, Datagrams, NoDatagram, GoTo, Drop, published, owned, receiver,
          service, history, ChangeInv, SlotInv, BracketInv, RecordedIntoItsOwner, AheadInv,
          AppliedInv, Bracketed, StreamOf, Streams, Stable
  <1>1. ASSUME NEW t \in 1..minted, NEW c \in 1..MaxCounter, receive(t, c) PROVE Goal'
    BY <1>1 DEF receive
  <1>2. CASE enterRecord
    BY <1>2 DEF enterRecord
  <1>3. CASE recordDatagram
    BY <1>3 DEF recordDatagram
  <1>4. CASE markKeyEpoch
    BY <1>4 DEF markKeyEpoch
  <1>5. CASE flagFeedback
    BY <1>5 DEF flagFeedback
  <1>6. CASE submitHotFrame
    BY <1>6 DEF submitHotFrame, Apply
  <1>7. CASE dispatchInnerMessage
    BY <1>7 DEF dispatchInnerMessage, Apply
  <1>8. ASSUME NEW c \in {"create", "rotate", "pads", "close"}, beginWrite(c) PROVE Goal'
    BY <1>8 DEF beginWrite
  <1>9. CASE store
    BY <1>9 DEF store
  <1>10. CASE publish
    BY <1>10 DEF publish
  <1>11. CASE refreshRumble
    BY <1>11 DEF refreshRumble
  <1>12. CASE Rest \/ UNCHANGED vars
    BY <1>12 DEF Rest, vars
  <1> QED
    BY <1>1, <1>2, <1>3, <1>4, <1>5, <1>6, <1>7, <1>8, <1>9, <1>10, <1>11, <1>12
       DEF Next, ReceiveStep

\* The inductive invariant holds in every state.
THEOREM Invariance == Spec => []IInv
  <1>1. Init => IInv
    <2> SUFFICES ASSUME Init PROVE IInv
      OBVIOUS
    <2>1. TypeOK
      <3>1. pad \in BOOLEAN /\ open \in BOOLEAN /\ feedbackPending \in BOOLEAN
        BY DEF Init
      <3> QED
        BY <3>1, ReceiveAssumption DEF Init, TypeOK, Tokens, Datagrams, NoDatagram, Streams
    <2>2. ChangeInv /\ SlotInv /\ BracketInv /\ RecordedIntoItsOwner /\ AheadInv
      BY DEF Init, ChangeInv, SlotInv, BracketInv, Bracketed, RecordedIntoItsOwner, AheadInv
    <2>3. AppliedInv
      BY DEF Init, AppliedInv, Bracketed, Streams
    <2> QED BY <2>1, <2>2, <2>3 DEF IInv
  <1>2. IInv /\ [Next]_vars => IInv'
    BY TypeStep, RelationStep DEF IInv
  <1> QED BY <1>1, <1>2, PTL DEF Spec

\* Every variable of the receive path has its type.
THEOREM TypeCorrect == Spec => []TypeOK
  BY Invariance, PTL DEF IInv

\* recordDatagram never writes a datagram of one session into the record of the slot's next
\* owner, and refreshRumble finds an address for the feedback it resends.
THEOREM RecordedRight == Spec => []RecordedIntoItsOwner
  BY Invariance, PTL DEF IInv

\* Only submitHotFrame applies input, and what it applies is newer than all before.
LEMMA InputStep == IInv /\ [Next]_vars => [Newer("input")]_vars
  <1> SUFFICES ASSUME IInv, Next, applied'["input"].count # applied["input"].count
               PROVE  \/ applied'["input"].token > applied["input"].token
                      \/ /\ applied'["input"].token = applied["input"].token
                         /\ applied'["input"].counter > applied["input"].counter
    BY DEF Newer, vars, history
  <1>1. submitHotFrame \/ dispatchInnerMessage
    BY DEF Next, ReceiveStep, receive, enterRecord, recordDatagram, markKeyEpoch, flagFeedback,
           beginWrite, store, publish, refreshRumble, Rest, vars, history
  <1>2. at = "dispatch" => StreamOf(datagram) # "input"
    BY DEF IInv, BracketInv
  <1>3. submitHotFrame /\ Apply
    BY <1>1, <1>2 DEF submitHotFrame, dispatchInnerMessage, Apply, IInv, TypeOK, Streams, StreamOf
  <1> QED
    BY <1>3 DEF submitHotFrame, Apply, IInv, TypeOK, Tokens, Datagrams, SlotInv, BracketInv,
                AppliedInv, Bracketed, Streams, StreamOf

\* handleDatagram's replay check and the fused record of submitHotFrame apply input at most
\* once and in the order it was sent, whatever is lost, repeated, reordered or published.
THEOREM InputsOrdered == Spec => InputsInOrder
  BY Invariance, InputStep, PTL DEF InputsInOrder, Spec
=============================================================================
