--------------------------- MODULE HotSlotProofs ---------------------------
(***************************************************************************)
(* Proofs about HotSlot, for any number of participants, guests and words,  *)
(* with and without a process barrier: its types, the three guarantees of   *)
(* the slot, and that it implements AtomicSlot.                             *)
(*                                                                         *)
(* The guarantees are not inductive.  What makes them so is the link, kept  *)
(* through every step, between the generation, the words and the epochs:    *)
(* a participant that read before the write was announced is still inside a *)
(* bracket the writer can see, and the writer has not finished waiting for  *)
(* that very bracket.                                                       *)
(***************************************************************************)
EXTENDS HotSlot, TLAPS

Reading == {"load", "use"}

\* The generation counts the writes: even between them, odd while one is open.
GenCountsWrites ==
    /\ wpc = "idle" => gen = 2 * writes
    /\ wpc # "idle" => writes >= 1 /\ gen = 2 * writes - 1

\* What each word holds, by how far the write has come.
WordsFollowWrites ==
    \A w \in Words :
        /\ wpc = "idle" => word[w] = writes
        /\ wpc \in {"barrier", "scan"} => word[w] = writes - 1
        /\ wpc = "store" => word[w] = IF w \in unstored THEN writes - 1 ELSE writes

\* A participant's own epoch is odd exactly inside its bracket; what the writer
\* sees lags behind it, and without a process barrier never inside a bracket.
EpochsFollowBrackets ==
    \A r \in Readers :
        /\ Odd(own[r]) <=> rpc[r] # "out"
        /\ epoch[r] <= own[r]
        /\ ~ProcessBarrier /\ rpc[r] # "out" => epoch[r] = own[r]

\* A reader began at an even generation; as long as it has not moved on, the words
\* loaded so far are the ones of that generation.
LoadsFollowGen ==
    \A r \in All : rpc[r] \in Reading =>
        /\ ~Odd(before[r]) /\ before[r] <= gen
        /\ rpc[r] = "load" /\ gen = before[r] =>
              \A w \in got[r] : 2 * value[r][w] = before[r]
        /\ rpc[r] = "use" => \A w \in Words : 2 * value[r][w] = before[r]

\* A participant that passed the head of a read did so before the open write was
\* announced, and the grace wait still waits for the bracket it is in.
WaitedFor ==
    \A r \in Readers :
        rpc[r] \in Reading =>
            /\ wpc = "idle" => before[r] = gen
            /\ wpc \in {"barrier", "scan"} => before[r] + 1 = gen
            /\ wpc = "scan" => epoch[r] = own[r] /\ (r \in unseen \/ seen[r] = own[r])
            /\ wpc # "store"

IInv ==
    /\ TypeOK
    /\ GenCountsWrites /\ WordsFollowWrites /\ EpochsFollowBrackets
    /\ LoadsFollowGen /\ WaitedFor
-----------------------------------------------------------------------------
\* The parity of the counters: the generation and the epochs move by one.
LEMMA Parity ==
    \A n \in Nat : /\ Odd(n + 1) <=> ~Odd(n)
                   /\ ~Odd(2 * n)
                   /\ n >= 1 => Odd(2 * n - 1)
  BY DEF Odd

\* Doubling is injective.
LEMMA Halve == \A a, b \in Nat : 2 * a = 2 * b => a = b
  OBVIOUS

\* The generation is odd exactly while a write is open.
LEMMA GenParity == IInv => (Odd(gen) <=> wpc # "idle")
  <1> SUFFICES ASSUME IInv PROVE Odd(gen) <=> wpc # "idle"
    OBVIOUS
  <1>1. gen \in Nat /\ writes \in Nat /\ GenCountsWrites
    BY DEF IInv, TypeOK
  <1>2. CASE wpc = "idle" BY <1>1, <1>2 DEF GenCountsWrites, Odd
  <1>3. CASE wpc # "idle" BY <1>1, <1>3 DEF GenCountsWrites, Odd
  <1> QED BY <1>2, <1>3

\* Every step of the writer and of the readers keeps the types.
LEMMA TypeStep == TypeOK /\ [Next]_vars => TypeOK'
  <1> SUFFICES ASSUME TypeOK, [Next]_vars PROVE TypeOK'
    OBVIOUS
  <1> USE DEF TypeOK, All, writer, reader
  <1>1. CASE beginWrite BY <1>1 DEF beginWrite
  <1>2. CASE barrier BY <1>2 DEF barrier
  <1>3. ASSUME NEW r \in Readers, look(r) PROVE TypeOK'
    BY <1>3 DEF look
  <1>4. CASE quiescent BY <1>4 DEF quiescent
  <1>5. ASSUME NEW w \in Words, storeWord(w) PROVE TypeOK'
    BY <1>5 DEF storeWord
  <1>6. CASE endWrite BY <1>6 DEF endWrite
  <1>7. ASSUME NEW r \in All, enter(r) PROVE TypeOK'
    BY <1>7 DEF enter
  <1>8. ASSUME NEW r \in All, visit(r) PROVE TypeOK'
    BY <1>8 DEF visit
  <1>9. ASSUME NEW r \in All, drain(r) PROVE TypeOK'
    BY <1>9 DEF drain
  <1>10. ASSUME NEW r \in All, readBegin(r) PROVE TypeOK'
    BY <1>10 DEF readBegin
  <1>11. ASSUME NEW r \in All, NEW w \in Words, loadWord(r, w) PROVE TypeOK'
    BY <1>11 DEF loadWord
  <1>12. ASSUME NEW r \in All, readEnd(r) PROVE TypeOK'
    BY <1>12 DEF readEnd
  <1>13. ASSUME NEW r \in All, exit(r) PROVE TypeOK'
    BY <1>13 DEF exit
  <1>14. CASE UNCHANGED vars BY <1>14 DEF vars
  <1> QED
    BY <1>1, <1>2, <1>3, <1>4, <1>5, <1>6, <1>7, <1>8, <1>9, <1>10, <1>11, <1>12,
       <1>13, <1>14 DEF Next, WriterStep, ReaderStep

\* The type invariant of the hot slot.
THEOREM TypeCorrect == Spec => []TypeOK
  <1>1. Init => TypeOK
    BY DEF Init, TypeOK, All
  <1> QED
    BY <1>1, TypeStep, PTL DEF Spec

\* Every step keeps the link between the generation, the words and the epochs.
LEMMA InvStep == IInv /\ [Next]_vars => IInv'
  <1> SUFFICES ASSUME IInv, [Next]_vars PROVE IInv'
    OBVIOUS
  <1>0. TypeOK /\ TypeOK'
    BY TypeStep DEF IInv
  <1> USE <1>0 DEF IInv, TypeOK, All, writer, reader, Reading
  <1>1. CASE beginWrite
    <2>1. GenCountsWrites' /\ WordsFollowWrites'
      BY <1>1 DEF beginWrite, GenCountsWrites, WordsFollowWrites
    <2>2. EpochsFollowBrackets' /\ LoadsFollowGen'
      BY <1>1 DEF beginWrite, EpochsFollowBrackets, LoadsFollowGen
    <2>3. WaitedFor'
      BY <1>1 DEF beginWrite, WaitedFor
    <2> QED BY <2>1, <2>2, <2>3
  <1>2. CASE barrier
    <2>1. GenCountsWrites' /\ WordsFollowWrites' /\ LoadsFollowGen'
      BY <1>2 DEF barrier, GenCountsWrites, WordsFollowWrites, LoadsFollowGen
    <2>2. EpochsFollowBrackets'
      BY <1>2, HotSlotAssumption DEF barrier, EpochsFollowBrackets
    <2>3. WaitedFor'
      BY <1>2, HotSlotAssumption DEF barrier, EpochsFollowBrackets, WaitedFor
    <2> QED BY <2>1, <2>2, <2>3
  <1>3. ASSUME NEW r \in Readers, look(r) PROVE IInv'
    <2>1. GenCountsWrites' /\ WordsFollowWrites' /\ EpochsFollowBrackets' /\ LoadsFollowGen'
      BY <1>3 DEF look, GenCountsWrites, WordsFollowWrites, EpochsFollowBrackets, LoadsFollowGen
    <2>2. WaitedFor'
      BY <1>3 DEF look, EpochsFollowBrackets, WaitedFor
    <2> QED BY <2>1, <2>2
  <1>4. CASE quiescent
    <2>1. GenCountsWrites' /\ WordsFollowWrites' /\ EpochsFollowBrackets' /\ LoadsFollowGen'
      BY <1>4 DEF quiescent, GenCountsWrites, WordsFollowWrites, EpochsFollowBrackets, LoadsFollowGen
    <2>2. WaitedFor'
      BY <1>4, Parity DEF quiescent, EpochsFollowBrackets, WaitedFor
    <2> QED BY <2>1, <2>2
  <1>5. ASSUME NEW w \in Words, storeWord(w) PROVE IInv'
    <2>1. GenCountsWrites' /\ EpochsFollowBrackets' /\ LoadsFollowGen' /\ WaitedFor'
      BY <1>5 DEF storeWord, GenCountsWrites, EpochsFollowBrackets, LoadsFollowGen, WaitedFor
    <2>2. WordsFollowWrites'
      BY <1>5 DEF storeWord, WordsFollowWrites
    <2> QED BY <2>1, <2>2
  <1>6. CASE endWrite
    <2>1. GenCountsWrites' /\ WordsFollowWrites'
      BY <1>6 DEF endWrite, GenCountsWrites, WordsFollowWrites
    <2>2. EpochsFollowBrackets' /\ LoadsFollowGen'
      BY <1>6 DEF endWrite, EpochsFollowBrackets, LoadsFollowGen
    <2>3. WaitedFor'
      BY <1>6 DEF endWrite, WaitedFor
    <2> QED BY <2>1, <2>2, <2>3
  <1>7. ASSUME NEW r \in All, enter(r) PROVE IInv'
    <2>1. GenCountsWrites' /\ WordsFollowWrites' /\ LoadsFollowGen'
      BY <1>7 DEF enter, GenCountsWrites, WordsFollowWrites, LoadsFollowGen
    <2>2. EpochsFollowBrackets'
      BY <1>7, Parity, HotSlotAssumption DEF enter, EpochsFollowBrackets
    <2>3. WaitedFor'
      BY <1>7 DEF enter, WaitedFor
    <2> QED BY <2>1, <2>2, <2>3
  <1>8. ASSUME NEW r \in All, visit(r) PROVE IInv'
    <2>1. GenCountsWrites' /\ WordsFollowWrites' /\ LoadsFollowGen' /\ WaitedFor'
      BY <1>8, HotSlotAssumption DEF visit, GenCountsWrites, WordsFollowWrites, LoadsFollowGen, WaitedFor
    <2>2. EpochsFollowBrackets'
      BY <1>8, HotSlotAssumption DEF visit, EpochsFollowBrackets
    <2> QED BY <2>1, <2>2
  <1>9. ASSUME NEW r \in All, drain(r) PROVE IInv'
    <2>1. GenCountsWrites' /\ WordsFollowWrites' /\ LoadsFollowGen'
      BY <1>9 DEF drain, GenCountsWrites, WordsFollowWrites, LoadsFollowGen
    <2>2. EpochsFollowBrackets'
      BY <1>9 DEF drain, EpochsFollowBrackets
    <2>3. WaitedFor'
      BY <1>9 DEF drain, WaitedFor
    <2> QED BY <2>1, <2>2, <2>3
  <1>10. ASSUME NEW r \in All, readBegin(r) PROVE IInv'
    <2>1. GenCountsWrites' /\ WordsFollowWrites'
      BY <1>10 DEF readBegin, GenCountsWrites, WordsFollowWrites
    <2>2. EpochsFollowBrackets'
      BY <1>10 DEF readBegin, EpochsFollowBrackets
    <2>3. LoadsFollowGen'
      BY <1>10 DEF readBegin, LoadsFollowGen
    <2>4. rpc'[r] = "load" => wpc = "idle" /\ before'[r] = gen
      <3>1. wpc # "idle" => Odd(gen)
        BY GenParity
      <3> QED BY <1>10, <3>1 DEF readBegin
    <2>5. WaitedFor'
      BY <1>10, <2>4 DEF readBegin, WaitedFor
    <2> QED BY <2>1, <2>2, <2>3, <2>5
  <1>11. ASSUME NEW r \in All, NEW w \in Words, loadWord(r, w) PROVE IInv'
    <2>1. GenCountsWrites' /\ WordsFollowWrites' /\ EpochsFollowBrackets' /\ WaitedFor'
      BY <1>11 DEF loadWord, GenCountsWrites, WordsFollowWrites, EpochsFollowBrackets, WaitedFor
    <2>2. gen = before[r] => 2 * word[w] = before[r]
      BY <1>11, Parity DEF loadWord, GenCountsWrites, WordsFollowWrites, LoadsFollowGen
    <2>3. ASSUME NEW q \in All, rpc'[q] \in Reading
          PROVE  /\ ~Odd(before'[q]) /\ before'[q] <= gen'
                 /\ rpc'[q] = "load" /\ gen' = before'[q] =>
                       \A x \in got'[q] : 2 * value'[q][x] = before'[q]
                 /\ rpc'[q] = "use" => \A x \in Words : 2 * value'[q][x] = before'[q]
      <3>1. CASE q = r
        <4>1. value'[r] = [value[r] EXCEPT ![w] = word[w]] /\ got'[r] = got[r] \cup {w}
          BY <1>11 DEF loadWord
        <4>2. rpc'[r] = "load" /\ rpc[r] = "load" /\ before'[r] = before[r] /\ gen' = gen
          BY <1>11 DEF loadWord
        <4> QED BY <2>2, <2>3, <3>1, <4>1, <4>2 DEF LoadsFollowGen
      <3>2. CASE q # r
        <4>1. value'[q] = value[q] /\ got'[q] = got[q]
          BY <1>11, <3>2 DEF loadWord
        <4> QED BY <1>11, <2>3, <4>1 DEF loadWord, LoadsFollowGen
      <3> QED BY <3>1, <3>2
    <2>4. LoadsFollowGen' BY <2>3 DEF LoadsFollowGen
    <2> QED BY <2>1, <2>4
  <1>12. ASSUME NEW r \in All, readEnd(r) PROVE IInv'
    <2>1. GenCountsWrites' /\ WordsFollowWrites'
      BY <1>12 DEF readEnd, GenCountsWrites, WordsFollowWrites
    <2>2. EpochsFollowBrackets'
      BY <1>12 DEF readEnd, EpochsFollowBrackets
    <2>3. LoadsFollowGen'
      BY <1>12 DEF readEnd, LoadsFollowGen
    <2>4. WaitedFor'
      BY <1>12 DEF readEnd, WaitedFor
    <2> QED BY <2>1, <2>2, <2>3, <2>4
  <1>13. ASSUME NEW r \in All, exit(r) PROVE IInv'
    <2>1. GenCountsWrites' /\ WordsFollowWrites' /\ LoadsFollowGen'
      BY <1>13 DEF exit, GenCountsWrites, WordsFollowWrites, LoadsFollowGen
    <2>2. EpochsFollowBrackets'
      BY <1>13, Parity, HotSlotAssumption DEF exit, EpochsFollowBrackets
    <2>3. WaitedFor'
      BY <1>13 DEF exit, WaitedFor
    <2> QED BY <2>1, <2>2, <2>3
  <1>14. CASE UNCHANGED vars
    BY <1>14 DEF vars, GenCountsWrites, WordsFollowWrites, EpochsFollowBrackets, LoadsFollowGen, WaitedFor
  <1> QED
    BY <1>1, <1>2, <1>3, <1>4, <1>5, <1>6, <1>7, <1>8,
       <1>9, <1>10, <1>11, <1>12, <1>13, <1>14 DEF Next, WriterStep, ReaderStep

\* The inductive invariant: the generation, the words and the epochs stay linked
\* through every interleaving of the writer, the participants and the guests.
THEOREM Invariance == Spec => []IInv
  <1>1. Init => IInv
    BY Parity DEF Init, IInv, TypeOK, All, Reading, GenCountsWrites, WordsFollowWrites,
       EpochsFollowBrackets, LoadsFollowGen, WaitedFor, Odd
  <1> QED
    BY <1>1, InvStep, PTL DEF Spec

\* An accepted read is one write's words, bracketed or not.
THEOREM ReadsWhole == Spec => []ReadsAreWhole
  <1>1. IInv => ReadsAreWhole
    <2> SUFFICES ASSUME IInv, NEW r \in All, rpc[r] = "use", NEW v \in Words, NEW w \in Words
                 PROVE  value[r][v] = value[r][w]
      BY DEF ReadsAreWhole
    <2>1. value[r][v] \in Nat /\ value[r][w] \in Nat
      BY DEF IInv, TypeOK
    <2>2. 2 * value[r][v] = 2 * value[r][w]
      BY DEF IInv, Reading, LoadsFollowGen
    <2> QED BY <2>1, <2>2, Halve
  <1> QED
    BY <1>1, Invariance, PTL

\* No word is stored while a participant uses what it read: the grace wait is enough,
\* whichever of the two barriers the build has.
THEOREM GraceHolds == Spec => []NoStoreUnderAReader
  <1>1. IInv => NoStoreUnderAReader
    BY DEF IInv, Reading, WaitedFor, NoStoreUnderAReader
  <1> QED
    BY <1>1, Invariance, PTL

\* What a participant uses is what the slot holds.
THEOREM UsesCurrent == Spec => []UsedIsCurrent
  <1>1. IInv => UsedIsCurrent
    <2> SUFFICES ASSUME IInv, NEW r \in Readers, rpc[r] = "use", NEW w \in Words
                 PROVE  value[r][w] = word[w]
      BY DEF UsedIsCurrent
    <2>1. r \in All /\ value[r][w] \in Nat /\ word[w] \in Nat /\ writes \in Nat /\ gen \in Nat
          /\ before[r] \in Nat
      BY DEF IInv, TypeOK, All
    <2>2. 2 * value[r][w] = before[r]
      BY <2>1 DEF IInv, Reading, LoadsFollowGen
    <2>3. wpc = "idle" \/ wpc \in {"barrier", "scan"}
      BY DEF IInv, TypeOK, Reading, WaitedFor
    <2>4. before[r] = 2 * word[w]
      BY <2>1, <2>3 DEF IInv, Reading, WaitedFor, GenCountsWrites, WordsFollowWrites
    <2> QED BY <2>1, <2>2, <2>4, Halve
  <1> QED
    BY <1>1, Invariance, PTL
-----------------------------------------------------------------------------
(* The slot implements AtomicSlot.                                          *)

\* A step of the slot is a step of the atomic slot: beginWrite announces, endWrite
\* replaces, an accepted readEnd takes, exit drops, and nothing else shows.
LEMMA StepRefines == IInv /\ IInv' /\ [Next]_vars =>
                     [Atomic!Next]_<<IF wpc = "idle" THEN writes ELSE writes - 1, wpc # "idle",
                        [r \in All |-> IF rpc[r] = "use" THEN <<value[r]>> ELSE <<>>]>>
  <1> DEFINE content == IF wpc = "idle" THEN writes ELSE writes - 1
             held == [r \in All |-> IF rpc[r] = "use" THEN <<value[r]>> ELSE <<>>]
             abstract == <<content, wpc # "idle", held>>
  <1> SUFFICES ASSUME IInv, IInv', [Next]_vars PROVE Atomic!Next \/ UNCHANGED abstract
    OBVIOUS
  <1> USE DEF IInv, TypeOK, All, writer, reader
  <1>1. CASE beginWrite
    <2>1. Atomic!Announce BY <1>1 DEF beginWrite, Atomic!Announce
    <2> QED BY <2>1 DEF Atomic!Next
  <1>2. CASE endWrite
    <2>1. \A r \in Readers : held[r] = <<>>
      BY <1>2 DEF endWrite, WaitedFor, Reading
    <2>2. content' = content + 1
      BY <1>2 DEF endWrite, GenCountsWrites
    <2>3. Atomic!Replace BY <1>2, <2>1, <2>2 DEF endWrite, Atomic!Replace
    <2> QED BY <2>3 DEF Atomic!Next
  <1>3. ASSUME NEW r \in All, readEnd(r) PROVE Atomic!Next \/ UNCHANGED abstract
    <2>1. CASE gen = before[r]
      <3>1. wpc = "idle"
        BY <1>3, <2>1, GenParity DEF readEnd, LoadsFollowGen, Reading
      <3>2. value[r] = [w \in Words |-> writes]
        <4>1. rpc[r] = "load" /\ got[r] = Words /\ before[r] = 2 * writes
          BY <1>3, <2>1, <3>1 DEF readEnd, GenCountsWrites
        <4>2. \A w \in Words : 2 * value[r][w] = before[r]
          <5>1. LoadsFollowGen OBVIOUS
          <5> HIDE DEF IInv, TypeOK
          <5> QED BY <2>1, <4>1, <5>1 DEF LoadsFollowGen, Reading
        <4>3. ASSUME NEW w \in Words PROVE value[r][w] = writes
          <5>1. value[r][w] \in Nat /\ writes \in Nat OBVIOUS
          <5>2. 2 * value[r][w] = 2 * writes BY <4>1, <4>2
          <5> HIDE DEF IInv, TypeOK
          <5> QED BY <5>1, <5>2, Halve
        <4> QED BY <4>3
      <3>3. held' = [held EXCEPT ![r] = <<[w \in Words |-> content]>>]
        <4>1. rpc' = [rpc EXCEPT ![r] = "use"] /\ value' = value
          BY <1>3, <2>1 DEF readEnd
        <4>2. \A q \in All : held'[q] = IF q = r THEN <<[w \in Words |-> content]>> ELSE held[q]
          BY <3>1, <3>2, <4>1
        <4> QED BY <4>2
      <3>4. Atomic!Take(r)
        BY <1>3, <3>1, <3>3 DEF readEnd, Atomic!Take
      <3> QED BY <3>4 DEF Atomic!Next
    <2>2. CASE gen # before[r]
      BY <1>3, <2>2 DEF readEnd
    <2> QED BY <2>1, <2>2
  <1>4. ASSUME NEW r \in All, exit(r) PROVE Atomic!Next
    <2>1. Atomic!Drop(r) BY <1>4 DEF exit, Atomic!Drop
    <2> QED BY <2>1 DEF Atomic!Next
  <1>5. CASE barrier \/ quiescent \/ (\E r \in Readers : look(r)) \/
             (\E w \in Words : storeWord(w))
    BY <1>5 DEF barrier, quiescent, look, storeWord
  <1>6. ASSUME NEW r \in All, enter(r) \/ visit(r) \/ drain(r) \/ readBegin(r)
        PROVE  UNCHANGED abstract
    BY <1>6 DEF enter, visit, drain, readBegin
  <1>7. ASSUME NEW r \in All, NEW w \in Words, loadWord(r, w) PROVE UNCHANGED abstract
    BY <1>7 DEF loadWord
  <1>8. CASE UNCHANGED vars
    BY <1>8 DEF vars
  <1> QED
    BY <1>1, <1>2, <1>3, <1>4, <1>5, <1>6, <1>7, <1>8 DEF Next, WriterStep, ReaderStep

\* The seqlock, the brackets and the grace wait together are an atomic slot.
THEOREM SlotImplementsAtomicSlot == Spec => ImplementsAtomicSlot
  <1>1. Init => Atomic!Init
    BY DEF Init, Atomic!Init, All
  <1> QED
    BY <1>1, Invariance, StepRefines, PTL DEF ImplementsAtomicSlot, Spec, Atomic!Spec
=============================================================================
