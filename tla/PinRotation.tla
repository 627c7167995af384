---------------------------- MODULE PinRotation ----------------------------
(***************************************************************************)
(* The pairing PIN (src/net/pin_rotation.cpp): a current and a previous     *)
(* PIN, replaced by whoever looks at them when the period is over, and      *)
(* burned by a success or by too many wrong tries.  Everything happens      *)
(* under g_pinMtx; time passes between the calls.                           *)
(*                                                                         *)
(* PINs are numbered in the order they are drawn.  That two of them may     *)
(* have the same digits is left out.                                        *)
(***************************************************************************)
EXTENDS Integers

CONSTANTS
    Period,    \* PIN_ROTATE_PERIOD
    MaxFails,  \* PIN_MAX_FAILS
    MaxTime,   \* bound: how long it goes on
    MaxPins    \* bound: PINs drawn

ASSUME PinAssumption ==
    Period \in Nat \ {0} /\ MaxFails \in Nat \ {0} /\ MaxTime \in Nat /\ MaxPins \in Nat

NoPin == 0

VARIABLES
    now,
    current,   \* g_currentPin: its number, which is also how many were drawn
    previous,  \* g_previousPin
    rotateAt,  \* g_pinRotateAt
    fails,     \* g_pinFailCount
    drawn,     \* history: when the current and the previous PIN were drawn
    shown,     \* history: the PIN the dashboard showed last and when, until it is burned
    tries      \* history: wrong tries since each of the two PINs was drawn

pins == <<current, previous, rotateAt, fails>>
vars == <<now, pins, drawn, shown, tries>>

\* Nothing has been drawn before the first call.
Init ==
    /\ now = 0 /\ current = NoPin /\ previous = NoPin /\ rotateAt = 0 /\ fails = 0
    /\ drawn = [current |-> 0, previous |-> 0]
    /\ shown = [pin |-> NoPin, at |-> 0]
    /\ tries = [current |-> 0, previous |-> 0]

tick ==
    /\ now < MaxTime
    /\ now' = now + 1
    /\ UNCHANGED <<pins, drawn, shown, tries>>

\* The PINs, their failures and their histories as one record, for the calls that replace
\* them twice.
State == [current |-> current, previous |-> previous, rotateAt |-> rotateAt, fails |-> fails,
          drawn |-> drawn, shown |-> shown, tries |-> tries]

resetPinsLocked(p) ==
    [current |-> p.current + 1, previous |-> NoPin, rotateAt |-> now + Period, fails |-> 0,
     drawn |-> [current |-> now, previous |-> 0],
     shown |-> [pin |-> NoPin, at |-> 0],
     tries |-> [current |-> 0, previous |-> 0]]

\* The outgoing PIN is only kept if its period has just ended.
Kept(p) == now - p.rotateAt < Period

\* Mutant: the outgoing PIN is not kept.
RotateAway(p) ==
    [current |-> p.current + 1, previous |-> NoPin, rotateAt |-> now + Period, fails |-> 0,
     drawn |-> [current |-> now, previous |-> 0], shown |-> p.shown,
     tries |-> [current |-> 0, previous |-> 0]]

Rotate(p) ==
    [current |-> p.current + 1,
     previous |-> IF Kept(p) THEN p.current ELSE NoPin,
     rotateAt |-> now + Period,
     fails |-> 0,
     drawn |-> [current |-> now, previous |-> IF Kept(p) THEN p.drawn.current ELSE 0],
     shown |-> p.shown,
     tries |-> [current |-> 0, previous |-> IF Kept(p) THEN p.tries.current ELSE 0]]

rotatePinsIfDueLocked(p) ==
    IF p.current = NoPin THEN resetPinsLocked(p) ELSE IF now < p.rotateAt THEN p ELSE Rotate(p)

Become(p) ==
    /\ current' = p.current /\ previous' = p.previous /\ rotateAt' = p.rotateAt
    /\ fails' = p.fails /\ drawn' = p.drawn /\ shown' = p.shown /\ tries' = p.tries
    /\ UNCHANGED now

\* PINs verifyPin would accept now.
Accepted ==
    LET p == rotatePinsIfDueLocked(State) IN {p.current, p.previous} \ {NoPin}

\* A wrong try, and the burst of them that burns both PINs.
Fail(p) ==
    IF p.fails + 1 >= MaxFails THEN resetPinsLocked(p)
    ELSE [p EXCEPT !.fails = @ + 1,
                   !.tries = [current |-> @.current + 1, previous |-> @.previous + 1]]

\* A right PIN burns both of them.
verifyPin(pin) ==
    /\ current < MaxPins
    /\ LET p == rotatePinsIfDueLocked(State) IN
         Become(IF pin \in {p.current, p.previous} \ {NoPin} THEN resetPinsLocked(p) ELSE Fail(p))

\* The dashboard shows the current PIN.
pinSnapshot ==
    /\ current < MaxPins
    /\ LET p == rotatePinsIfDueLocked(State) IN
         Become([p EXCEPT !.shown = [pin |-> p.current, at |-> now]])

Next == tick \/ pinSnapshot \/ \E pin \in 0..MaxPins : verifyPin(pin)

Spec == Init /\ [][Next]_vars
-----------------------------------------------------------------------------
\* The PINs, their clock and their history stay in their types.
TypeOK ==
    /\ now \in Nat /\ current \in Nat /\ previous \in Nat /\ rotateAt \in Nat /\ fails \in Nat
    /\ drawn \in [current : Nat, previous : Nat]
    /\ shown \in [pin : Nat, at : Nat]
    /\ tries \in [current : Nat, previous : Nat]

\* The PIN the dashboard showed is accepted for a whole period after it was shown, whoever
\* rotates it in the meantime, unless it is used or burned.
ShownPinWorks ==
    shown.pin # NoPin /\ now < shown.at + Period => shown.pin \in Accepted

\* A PIN stops being accepted within three periods of being drawn, however rarely anybody
\* looks: up to two as the current one, since only a look rotates it, and one as the previous.
PinsExpire ==
    /\ current \in Accepted /\ current # NoPin => now < drawn.current + 2 * Period
    /\ previous \in Accepted /\ previous # NoPin => now < drawn.previous + 3 * Period

\* No PIN survives twice the tries that burn one, although a rotation forgets the failures.
FewTries ==
    /\ tries.current < MaxFails
    /\ tries.previous < 2 * MaxFails
=============================================================================
