------------------------- MODULE PinRotationProofs -------------------------
(***************************************************************************)
(* Proofs about PinRotation, for every period and every number of tries.    *)
(* Every call maps the record of the PINs to another one, so the invariant  *)
(* is a property Good(p, t) of such a record at a time, and each operation  *)
(* has a lemma that it keeps it.                                            *)
(***************************************************************************)
EXTENDS PinRotation, TLAPS

PinState == [current : Nat, previous : Nat, rotateAt : Nat, fails : Nat,
             drawn : [current : Nat, previous : Nat],
             shown : [pin : Nat, at : Nat],
             tries : [current : Nat, previous : Nat]]

\* The clock of the current PIN started when it was drawn; the previous one was drawn
\* less than two periods before that.
Clock(p, t) ==
    /\ p.current = NoPin => p.previous = NoPin /\ p.shown.pin = NoPin
    /\ p.current # NoPin => p.rotateAt = p.drawn.current + Period /\ p.drawn.current <= t
    /\ p.previous # NoPin => /\ p.previous < p.current
                             /\ p.drawn.current < p.drawn.previous + 2 * Period

\* A PIN shown less than a period ago is the current one, or it became the previous one
\* after it was shown.
Shown(p, t) ==
    p.shown.pin # NoPin /\ t < p.shown.at + Period =>
        \/ p.shown.pin = p.current /\ p.shown.at < p.rotateAt
        \/ p.shown.pin = p.previous /\ p.shown.at <= p.drawn.current

\* The failures count the tries on the current PIN, and those on the previous one since
\* the rotation.
Counts(p) ==
    /\ p.fails < MaxFails
    /\ p.tries.current = p.fails
    /\ p.tries.previous < MaxFails + p.fails

Good(p, t) == p \in PinState /\ Clock(p, t) /\ Shown(p, t) /\ Counts(p)

IInv == now \in Nat /\ Good(State, now)
-----------------------------------------------------------------------------
\* Burning the PINs (resetPinsLocked) leaves a good record.
LEMMA ResetGood ==
    ASSUME now \in Nat, NEW p \in PinState
    PROVE  Good(resetPinsLocked(p), now)
BY PinAssumption DEF PinState, Good, Clock, Shown, Counts, resetPinsLocked, NoPin

\* So does a rotation that is due.
LEMMA RotateGood ==
    ASSUME now \in Nat, NEW p, Good(p, now), p.current # NoPin, p.rotateAt <= now
    PROVE  Good(Rotate(p), now)
<1> DEFINE q == Rotate(p)
<1>1. p \in PinState
  BY DEF Good
<1>2. /\ q \in PinState
      /\ q.current = p.current + 1 /\ q.rotateAt = now + Period /\ q.fails = 0
      /\ q.previous = IF Kept(p) THEN p.current ELSE NoPin
      /\ q.drawn.current = now /\ q.shown = p.shown
      /\ q.drawn.previous = IF Kept(p) THEN p.drawn.current ELSE 0
      /\ q.tries.current = 0
      /\ q.tries.previous = IF Kept(p) THEN p.tries.current ELSE 0
  BY <1>1, PinAssumption DEF PinState, Rotate, NoPin
<1>3. /\ p.current \in Nat /\ p.previous \in Nat /\ p.rotateAt \in Nat
      /\ p.drawn.current \in Nat /\ p.shown.at \in Nat /\ p.shown.pin \in Nat
      /\ p.tries.current \in Nat /\ p.fails \in Nat
  BY <1>1 DEF PinState
<1> HIDE DEF q
<1>4. Clock(q, now)
  BY <1>2, <1>3, PinAssumption DEF Good, Clock, NoPin, Kept
<1>5. Shown(q, now)
  BY <1>2, <1>3, PinAssumption DEF Good, Clock, Shown, NoPin, Kept
<1>6. Counts(q)
  BY <1>2, <1>3, PinAssumption DEF Good, Counts
<1> QED BY <1>2, <1>4, <1>5, <1>6 DEF Good, q

\* So the look every call begins with (rotatePinsIfDueLocked) leaves a good record whose
\* current PIN exists and is not due.
LEMMA LookGood ==
    ASSUME now \in Nat, NEW p, Good(p, now)
    PROVE  /\ Good(rotatePinsIfDueLocked(p), now)
           /\ rotatePinsIfDueLocked(p).current # NoPin
           /\ now < rotatePinsIfDueLocked(p).rotateAt
<1>1. p \in PinState
  BY DEF Good
<1>2. CASE p.current = NoPin
  <2>1. rotatePinsIfDueLocked(p) = resetPinsLocked(p)
    BY <1>2 DEF rotatePinsIfDueLocked
  <2>2. resetPinsLocked(p).current # NoPin /\ now < resetPinsLocked(p).rotateAt
    BY <1>2, PinAssumption DEF resetPinsLocked, NoPin
  <2> QED BY <1>1, <2>1, <2>2, ResetGood
<1>3. CASE p.current # NoPin /\ now < p.rotateAt
  BY <1>3 DEF rotatePinsIfDueLocked
<1>4. CASE p.current # NoPin /\ ~(now < p.rotateAt)
  <2>1. p.rotateAt \in Nat /\ p.current \in Nat
    BY <1>1 DEF PinState
  <2>2. Good(Rotate(p), now)
    BY <1>4, <2>1, RotateGood
  <2>3. Rotate(p).current # NoPin /\ now < Rotate(p).rotateAt
    BY <2>1, PinAssumption DEF Rotate, NoPin
  <2> QED BY <1>4, <2>2, <2>3 DEF rotatePinsIfDueLocked
<1> QED BY <1>2, <1>3, <1>4

\* And so does a wrong try, whether or not it is the one that burns the PINs.
LEMMA FailGood ==
    ASSUME now \in Nat, NEW p, Good(p, now)
    PROVE  Good(Fail(p), now)
<1>1. p \in PinState
  BY DEF Good
<1>2. CASE p.fails + 1 >= MaxFails
  BY <1>1, <1>2, ResetGood DEF Fail
<1>3. CASE ~(p.fails + 1 >= MaxFails)
  <2> DEFINE q == [p EXCEPT !.fails = @ + 1,
                            !.tries = [current |-> @.current + 1, previous |-> @.previous + 1]]
  <2>1. /\ q \in PinState
        /\ q.current = p.current /\ q.previous = p.previous /\ q.rotateAt = p.rotateAt
        /\ q.drawn = p.drawn /\ q.shown = p.shown /\ q.fails = p.fails + 1
        /\ q.tries.current = p.tries.current + 1 /\ q.tries.previous = p.tries.previous + 1
    <3> DEFINE e == [p EXCEPT !.fails = @ + 1]
               t == [current |-> p.tries.current + 1, previous |-> p.tries.previous + 1]
    <3>1. /\ e \in PinState
          /\ e.current = p.current /\ e.previous = p.previous /\ e.rotateAt = p.rotateAt
          /\ e.drawn = p.drawn /\ e.shown = p.shown /\ e.fails = p.fails + 1
          /\ e.tries = p.tries
      BY <1>1 DEF PinState
    <3>2. /\ t \in [current : Nat, previous : Nat]
          /\ t.current = p.tries.current + 1 /\ t.previous = p.tries.previous + 1
      BY <1>1 DEF PinState
    <3>3. q = [e EXCEPT !.tries = t]
      BY <1>1 DEF PinState
    <3> HIDE DEF e, t
    <3> QED BY <3>1, <3>2, <3>3 DEF PinState
  <2>2. p.fails \in Nat /\ p.tries.current \in Nat /\ p.tries.previous \in Nat
    BY <1>1 DEF PinState
  <2>3. Fail(p) = q
    BY <1>3 DEF Fail
  <2> HIDE DEF q
  <2>4. Clock(q, now) /\ Shown(q, now)
    BY <2>1 DEF Good, Clock, Shown
  <2>5. Counts(q)
    BY <1>3, <2>1, <2>2, PinAssumption DEF Good, Counts
  <2> QED BY <2>1, <2>3, <2>4, <2>5 DEF Good
<1> QED BY <1>2, <1>3

\* Showing the current PIN right after the look keeps the record good.
LEMMA ShowGood ==
    ASSUME now \in Nat, NEW p, Good(p, now), p.current # NoPin, now < p.rotateAt
    PROVE  Good([p EXCEPT !.shown = [pin |-> p.current, at |-> now]], now)
<1> DEFINE q == [p EXCEPT !.shown = [pin |-> p.current, at |-> now]]
<1>1. p \in PinState
  BY DEF Good
<1>2. /\ q \in PinState
      /\ q.current = p.current /\ q.previous = p.previous /\ q.rotateAt = p.rotateAt
      /\ q.drawn = p.drawn /\ q.tries = p.tries /\ q.fails = p.fails
      /\ q.shown.pin = p.current /\ q.shown.at = now
  BY <1>1 DEF PinState
<1> HIDE DEF q
<1>3. Clock(q, now) /\ Shown(q, now) /\ Counts(q)
  BY <1>2 DEF Good, Clock, Shown, Counts
<1> QED BY <1>2, <1>3 DEF Good, q
-----------------------------------------------------------------------------
\* A call replaces the whole record.
LEMMA BecomeState ==
    ASSUME NEW p, p \in PinState, Become(p)
    PROVE  State' = p
BY DEF PinState, Become, State

\* The invariant is inductive.
THEOREM Invariance == Spec => []IInv
<1>1. Init => IInv
  BY PinAssumption DEF Init, IInv, Good, State, PinState, Clock, Shown, Counts, NoPin
<1>2. IInv /\ [Next]_vars => IInv'
  <2> SUFFICES ASSUME IInv, [Next]_vars PROVE IInv'
    OBVIOUS
  <2>0. now \in Nat /\ Good(State, now) /\ State \in PinState
    BY DEF IInv, Good
  <2> DEFINE p == rotatePinsIfDueLocked(State)
  <2>p. Good(p, now) /\ p.current # NoPin /\ now < p.rotateAt /\ p \in PinState
    BY <2>0, LookGood DEF Good
  <2>1. CASE tick
    <3>1. State' = State /\ now' = now + 1
      BY <2>1 DEF tick, pins, State
    <3>2. /\ State.current \in Nat /\ State.drawn.current \in Nat /\ State.shown.at \in Nat
      BY <2>0 DEF PinState
    <3>3. Clock(State, now + 1) /\ Shown(State, now + 1)
      <4> HIDE DEF p
      <4> DEFINE s == State
      <4>1. Clock(s, now) /\ Shown(s, now) /\ s.drawn.current \in Nat /\ s.shown.at \in Nat
        BY <2>0, <3>2 DEF Good
      <4> HIDE DEF s
      <4>2. Clock(s, now + 1) /\ Shown(s, now + 1)
        BY <2>0, <4>1, PinAssumption DEF Clock, Shown
      <4> QED BY <4>2 DEF s
    <3> QED BY <2>0, <3>1, <3>3 DEF IInv, Good
  <2>2. CASE pinSnapshot
    <3> DEFINE q == [p EXCEPT !.shown = [pin |-> p.current, at |-> now]]
    <3>1. Good(q, now) /\ q \in PinState
      BY <2>0, <2>p, ShowGood DEF Good
    <3>2. Become(q) /\ now' = now
      BY <2>2 DEF pinSnapshot, Become
    <3>3. State' = q
      BY <3>1, <3>2, BecomeState
    <3> QED BY <2>0, <3>1, <3>2, <3>3 DEF IInv
  <2>3. ASSUME NEW pin \in 0..MaxPins, verifyPin(pin) PROVE IInv'
    <3> DEFINE q == IF pin \in {p.current, p.previous} \ {NoPin}
                    THEN resetPinsLocked(p) ELSE Fail(p)
    <3>1. Good(q, now)
      BY <2>0, <2>p, ResetGood, FailGood
    <3>2. Become(q) /\ now' = now
      BY <2>3 DEF verifyPin, Become
    <3>3. State' = q
      BY <3>1, <3>2, BecomeState DEF Good
    <3> QED BY <2>0, <3>1, <3>2, <3>3 DEF IInv
  <2>4. CASE UNCHANGED vars
    BY <2>0, <2>4 DEF vars, pins, IInv, State
  <2> QED BY <2>1, <2>2, <2>3, <2>4 DEF Next
<1> QED BY <1>1, <1>2, PTL DEF Spec

\* What the invariant says of the variables.
LEMMA InvFacts ==
    ASSUME IInv
    PROVE  /\ TypeOK
           /\ current = NoPin => previous = NoPin /\ shown.pin = NoPin
           /\ current # NoPin => rotateAt = drawn.current + Period /\ drawn.current <= now
           /\ previous # NoPin => /\ previous < current
                                  /\ drawn.current < drawn.previous + 2 * Period
           /\ Shown(State, now)
           /\ fails < MaxFails /\ tries.current = fails
           /\ tries.previous < MaxFails + fails
BY DEF IInv, Good, PinState, State, TypeOK, Clock, Counts

\* What a verifyPin would accept, without the record.
LEMMA AcceptedFacts ==
    ASSUME IInv, current # NoPin
    PROVE  /\ now < rotateAt => Accepted = {current, previous} \ {NoPin}
           /\ ~(now < rotateAt) =>
                Accepted = {current + 1, IF now < rotateAt + Period THEN current ELSE NoPin} \ {NoPin}
<1>1. TypeOK
  BY InvFacts
<1>2. CASE now < rotateAt
  BY <1>2 DEF Accepted, rotatePinsIfDueLocked, State
<1>3. CASE ~(now < rotateAt)
  <2>1. Kept(State) <=> now < rotateAt + Period
    BY <1>1, PinAssumption DEF Kept, State, TypeOK
  <2> QED BY <1>3, <2>1 DEF Accepted, rotatePinsIfDueLocked, State, Rotate
<1> QED BY <1>2, <1>3

\* The variables keep their types.
THEOREM TypeCorrect == Spec => []TypeOK
<1>1. IInv => TypeOK
  BY InvFacts
<1> QED BY <1>1, Invariance, PTL

\* A PIN is accepted for a whole period after it was shown.
THEOREM ShownWorks == Spec => []ShownPinWorks
<1>1. IInv => ShownPinWorks
  <2> SUFFICES ASSUME IInv, shown.pin # NoPin, now < shown.at + Period
               PROVE  shown.pin \in Accepted
    BY DEF ShownPinWorks
  <2>1. current # NoPin /\ TypeOK
    BY InvFacts
  <2>2. \/ shown.pin = current /\ shown.at < rotateAt
        \/ shown.pin = previous /\ shown.at <= drawn.current
    BY InvFacts DEF Shown, State
  <2>3. rotateAt = drawn.current + Period
    BY <2>1, InvFacts
  <2>4. CASE now < rotateAt
    BY <2>1, <2>2, <2>4, AcceptedFacts
  <2>5. CASE ~(now < rotateAt)
    <3>1. shown.pin = current /\ shown.at < rotateAt
      BY <2>1, <2>2, <2>3, <2>5, PinAssumption DEF TypeOK
    <3>2. now < rotateAt + Period
      BY <2>1, <3>1, PinAssumption DEF TypeOK
    <3> QED BY <2>1, <2>5, <3>1, <3>2, AcceptedFacts
  <2> QED BY <2>4, <2>5
<1> QED BY <1>1, Invariance, PTL

\* No PIN is accepted three periods after it was drawn.
THEOREM AllExpire == Spec => []PinsExpire
<1>1. IInv => PinsExpire
  <2> SUFFICES ASSUME IInv, current # NoPin PROVE PinsExpire
    BY InvFacts DEF PinsExpire
  <2>1. /\ TypeOK /\ rotateAt = drawn.current + Period
        /\ previous # NoPin => previous < current /\ drawn.current < drawn.previous + 2 * Period
    BY InvFacts
  <2>2. current \in Accepted => now < rotateAt + Period
    BY <2>1, AcceptedFacts, PinAssumption DEF TypeOK, NoPin
  <2>3. previous \in Accepted /\ previous # NoPin => now < rotateAt
    BY <2>1, AcceptedFacts, PinAssumption DEF TypeOK, NoPin
  <2> QED BY <2>1, <2>2, <2>3, PinAssumption DEF PinsExpire, TypeOK
<1> QED BY <1>1, Invariance, PTL

\* No PIN survives twice the tries that burn one.
THEOREM TriesAreFew == Spec => []FewTries
<1>1. IInv => FewTries
  BY InvFacts, PinAssumption DEF FewTries, TypeOK
<1> QED BY <1>1, Invariance, PTL
=============================================================================
