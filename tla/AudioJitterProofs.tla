------------------------- MODULE AudioJitterProofs -------------------------
(***************************************************************************)
(* What AudioJitter's run checks for numbers of 4 bits and a window of two *)
(* frames, for every width, window and limit of concealment: the slots_    *)
(* invariant of audio_jitter.h, the bound on the events of a push, the     *)
(* order of what is played and the length of what is concealed.            *)
(*                                                                         *)
(* The invariant says where the held packets, the last event and the event *)
(* count stand relative to next_, also in the middle of drain().  A resync *)
(* leaves next_ on a held packet and breaks the equation between next_ and *)
(* the last event until that packet is played.                             *)
(***************************************************************************)
EXTENDS AudioJitter, FiniteSetTheorems, TLAPS

Ahead ==
    /\ \A seq \in window.held : deltaFromNext(seq) >= 0
    /\ ~ busy => \A seq \in window.held : deltaFromNext(seq) \in 1 .. Window - 1

\* A concealed frame has a packet ahead of it, less than the longest distance.
Concealed ==
    /\ window.gaps > 0 => \E seq \in window.held : deltaFromNext(seq) <= Half - 2
    /\ window.next \in window.held \/ out.gapRun <= window.gaps
    /\ out.gapRun <= MaxConceal

Played ==
    /\ ~ window.primed => window.held = {} /\ out.last = None /\ ~ busy
    /\ window.primed =>
           /\ out.last \in Seqs
           /\ \/ distance(window.next, out.last) = 1
              \/ /\ window.next \in window.held
                 /\ distance(window.next, out.last) \in 1 .. Half - 1

Counted ==
    /\ IsFiniteSet(window.held)
    /\ Cardinality(window.held) <= Window
    /\ busy => result.count <= (Window - Cardinality(window.held)) * (MaxConceal + 1)
                                  + (IF window.next \in window.held THEN MaxConceal ELSE window.gaps)

JInv == TypeOK /\ Ahead /\ Concealed /\ Played /\ Counted

-----------------------------------------------------------------------------
(* Distances between wrapping numbers *)

\* A distance fits int16_t, and is zero only between equal numbers.
LEMMA DistanceType ==
  ASSUME NEW a \in Seqs, NEW b \in Seqs
  PROVE  /\ distance(a, b) \in - Half .. Half - 1
         /\ distance(a, b) = 0 <=> a = b
BY JitterAssumption, SMT DEF distance, Seqs

\* The successor of a number is a number, one ahead of it.
LEMMA AfterType ==
  ASSUME NEW a \in Seqs
  PROVE  after(a) \in Seqs /\ distance(after(a), a) = 1
BY JitterAssumption, SMT DEF distance, after, Seqs

\* Advancing next_ by one brings what is ahead one closer.
LEMMA DistanceStep ==
  ASSUME NEW a \in Seqs, NEW b \in Seqs, distance(a, b) >= 1
  PROVE  distance(a, after(b)) = distance(a, b) - 1
BY JitterAssumption, SMT DEF distance, after, Seqs

\* Moving next_ to a number ahead brings what is further ahead closer by as much.
LEMMA DistanceSub ==
  ASSUME NEW a \in Seqs, NEW b \in Seqs, NEW n \in Seqs,
         distance(b, n) >= 0, distance(a, n) >= distance(b, n)
  PROVE  distance(a, b) = distance(a, n) - distance(b, n)
BY JitterAssumption, SMT DEF distance, Seqs

\* The distance across one number is the sum, while it does not wrap.
LEMMA DistanceAdd ==
  ASSUME NEW b \in Seqs, NEW n \in Seqs, NEW l \in Seqs,
         distance(n, l) = 1, distance(b, n) \in 0 .. Half - 2
  PROVE  distance(b, l) = distance(b, n) + 1
BY JitterAssumption, SMT DEF distance, Seqs

\* Equal distances from the same number: equal numbers.
LEMMA DistanceInj ==
  ASSUME NEW a \in Seqs, NEW b \in Seqs, NEW n \in Seqs, distance(a, n) = distance(b, n)
  PROVE  a = b
BY JitterAssumption, SMT DEF distance, Seqs

\* Packets less than a window ahead are fewer than the slots.
LEMMA RestIsSmall ==
  ASSUME NEW H \in SUBSET Seqs, NEW n \in Seqs,
         \A seq \in H : distance(seq, n) \in 1 .. Window - 1
  PROVE  IsFiniteSet(H) /\ Cardinality(H) < Window
<1> DEFINE f == [seq \in H |-> distance(seq, n)]
<1>1. f \in [H -> 1 .. Window - 1]
  OBVIOUS
<1>2. \A a, b \in H : f[a] = f[b] => a = b
  BY DistanceInj
<1>3. f \in Injection(H, 1 .. Window - 1)
  BY <1>1, <1>2 DEF Injection, IsInjective
<1>4. IsFiniteSet(1 .. Window - 1) /\ Cardinality(1 .. Window - 1) = Window - 1
  BY FS_Interval, JitterAssumption
<1>5. IsFiniteSet(H) /\ Cardinality(H) <= Cardinality(1 .. Window - 1)
  BY <1>3, <1>4, FS_Injection
<1> QED
  BY <1>4, <1>5, FS_CardinalityType, JitterAssumption

-----------------------------------------------------------------------------
(* The bound on the events of one push *)

\* One packet fewer is one packet and a run of concealment more.
LEMMA Room ==
  ASSUME NEW c \in Nat, c >= 1, c <= Window
  PROVE  /\ (Window - (c - 1)) * (MaxConceal + 1)
                = (Window - c) * (MaxConceal + 1) + MaxConceal + 1
         /\ (Window - c) * (MaxConceal + 1) + MaxConceal < MaxEvents
         /\ (Window - c) * (MaxConceal + 1) \in Nat
<1> DEFINE K == MaxConceal + 1
<1>1. K \in Nat /\ K >= 1
  BY JitterAssumption
<1>2. \A d \in Nat : (d + 1) * K = d * K + K /\ d * K \in Nat
  BY <1>1, SMT
<1>3. PICK d \in Nat : d = Window - c
  BY JitterAssumption
<1>4. (Window - (c - 1)) = d + 1
  BY <1>3, JitterAssumption
<1>5. \A e \in Nat : e < Window => e * K + K <= Window * K
  BY <1>1, JitterAssumption, SMTT(30)
<1>6. d * K + K <= Window * K
  BY <1>3, <1>5, JitterAssumption
<1>7. MaxEvents = Window * K
  BY DEF MaxEvents
<1> QED
  BY <1>1, <1>2, <1>3, <1>4, <1>6, <1>7, JitterAssumption

\* There is room for an event.
LEMMA SomeRoom == MaxEvents \in Nat /\ MaxEvents >= 1
<1>1. (Window - 1) * (MaxConceal + 1) + MaxConceal < MaxEvents
      /\ (Window - 1) * (MaxConceal + 1) \in Nat
  BY Room, JitterAssumption
<1>2. MaxEvents \in Int
  BY JitterAssumption, SMT DEF MaxEvents
<1> QED
  BY <1>1, <1>2, JitterAssumption

\* While a packet is held, the loop of drain() is not at its bound.
LEMMA RoomLeft ==
  ASSUME JInv, busy, window.held # {}
  PROVE  result.count < MaxEvents
<1>1. Cardinality(window.held) \in Nat /\ Cardinality(window.held) >= 1
  BY FS_CardinalityType, FS_EmptySet DEF JInv, Counted
<1>2. Cardinality(window.held) <= Window
  BY DEF JInv, Counted
<1> DEFINE c == Cardinality(window.held)
<1>3. (Window - c) * (MaxConceal + 1) + MaxConceal < MaxEvents
      /\ (Window - c) * (MaxConceal + 1) \in Nat
  BY <1>1, <1>2, Room
<1>4. window.gaps \in 0 .. MaxConceal /\ result.count \in Nat
  BY DEF JInv, TypeOK
<1>5. result.count <= (Window - c) * (MaxConceal + 1)
                         + (IF window.next \in window.held THEN MaxConceal ELSE window.gaps)
  BY DEF JInv, Counted
<1>6. MaxEvents \in Int
  BY JitterAssumption, SMT DEF MaxEvents
<1> HIDE DEF c
<1> QED
  BY <1>3, <1>4, <1>5, <1>6, JitterAssumption

-----------------------------------------------------------------------------
(* The steps *)

WindowType == [primed : BOOLEAN, next : Seqs, held : SUBSET Seqs, gaps : 0 .. MaxConceal]

\* A window stays one when its slots, next_ and consecutiveGaps_ are assigned.
LEMMA WindowFields ==
  ASSUME NEW w \in WindowType, NEW h \in SUBSET Seqs, NEW n \in Seqs, NEW g \in 0 .. MaxConceal
  PROVE  [w EXCEPT !.held = h, !.next = n, !.gaps = g] \in WindowType
BY DEF WindowType

\* Priming makes a window too.
LEMMA PrimedFields ==
  ASSUME NEW w \in WindowType, NEW n \in Seqs, NEW g \in 0 .. MaxConceal
  PROVE  [w EXCEPT !.primed = TRUE, !.next = n, !.gaps = g] \in WindowType
BY DEF WindowType

\* The window starts empty.
LEMMA InitJitter == Init => JInv
<1> SUFFICES ASSUME Init PROVE JInv
  OBVIOUS
<1>1. TypeOK
  <2>1. 0 \in Seqs /\ 0 \in 0 .. MaxConceal /\ 0 \in 0 .. MaxEvents
    BY SomeRoom, JitterAssumption DEF Seqs
  <2> QED
    BY <2>1 DEF Init, TypeOK
<1>2. Ahead /\ Concealed /\ Played
  BY JitterAssumption DEF Init, Ahead, Concealed, Played
<1>3. Counted
  BY FS_EmptySet, JitterAssumption DEF Init, Counted
<1> QED
  BY <1>1, <1>2, <1>3 DEF JInv

\* A rejected packet, and reset().
LEMMA RestStep == JInv /\ (pushRejected \/ reset) => JInv'
<1> SUFFICES ASSUME JInv, pushRejected \/ reset PROVE JInv'
  OBVIOUS
<1>0. 0 \in Seqs /\ 0 \in 0 .. MaxConceal /\ 0 \in 0 .. MaxEvents
  BY SomeRoom, JitterAssumption DEF Seqs
<1>1. CASE pushRejected
  <2>1. TypeOK'
    BY <1>0, <1>1 DEF pushRejected, JInv, TypeOK
  <2>2. Ahead' /\ Concealed' /\ Played'
    BY <1>1 DEF pushRejected, JInv, Ahead, Concealed, Played, deltaFromNext
  <2>3. Counted'
    BY <1>1 DEF pushRejected, JInv, Counted
  <2> QED
    BY <2>1, <2>2, <2>3 DEF JInv
<1>2. CASE reset
  <2>1. TypeOK'
    BY <1>0, <1>2 DEF reset, JInv, TypeOK
  <2>2. Ahead' /\ Concealed' /\ Played'
    BY <1>2, JitterAssumption DEF reset, JInv, Ahead, Concealed, Played, deltaFromNext
  <2>3. Counted'
    BY <1>2, FS_EmptySet, JitterAssumption DEF reset, JInv, Counted
  <2> QED
    BY <2>1, <2>2, <2>3 DEF JInv
<1> QED
  BY <1>1, <1>2

\* Playing a held packet.
LEMMA PacketStep == JInv /\ drainPacket => JInv'
<1> SUFFICES ASSUME JInv, drainPacket PROVE JInv'
  OBVIOUS
<1> DEFINE n == window.next
           H == window.held
<1>0. /\ n \in Seqs /\ H \in SUBSET Seqs /\ n \in H /\ busy /\ busy' /\ window.primed
      /\ window'.held = H \ {n} /\ window'.next = after(n) /\ window'.gaps = 0
      /\ window'.primed = window.primed
      /\ out'.last = n /\ out'.gapRun = 0
      /\ result'.count = result.count + 1 /\ result.count \in Nat /\ result.count < MaxEvents
  BY DEF JInv, TypeOK, Played, drainPacket, going, emitted
<1>1. after(n) \in Seqs /\ distance(after(n), n) = 1
  BY <1>0, AfterType
<1>2. \A seq \in H \ {n} : distance(seq, n) >= 0 /\ distance(seq, n) # 0 /\ distance(seq, n) \in Int
  BY <1>0, DistanceType DEF JInv, Ahead, deltaFromNext
<1>3. \A seq \in H \ {n} : distance(seq, after(n)) = distance(seq, n) - 1
  BY <1>0, <1>2, DistanceStep
<1>4. TypeOK'
  <2>1. window' = [window EXCEPT !.held = H \ {n}, !.next = after(n), !.gaps = 0]
    BY DEF drainPacket
  <2>2. window' \in WindowType
    <3>1. window \in WindowType
      BY DEF JInv, TypeOK, WindowType
    <3>2. H \ {n} \in SUBSET Seqs /\ 0 \in 0 .. MaxConceal
      BY <1>0, JitterAssumption
    <3> HIDE DEF n, H
    <3> QED
      BY <1>1, <2>1, <3>1, <3>2, WindowFields
  <2>3. result' \in [accept : {"ok", "late", "duplicate", "rejected"}, count : 0 .. MaxEvents]
    BY <1>0, SomeRoom DEF JInv, TypeOK, drainPacket
  <2>4. out' \in [last : Seqs \cup {None}, gapRun : Nat]
    BY <1>0 DEF drainPacket, emitted
  <2> QED
    BY <1>0, <2>2, <2>3, <2>4 DEF TypeOK, WindowType
<1>5. Ahead'
  BY <1>0, <1>2, <1>3 DEF Ahead, deltaFromNext
<1>6. Concealed'
  BY <1>0, JitterAssumption DEF Concealed
<1>7. Played'
  BY <1>0, <1>1 DEF Played
<1>8. Counted'
  <2>1. IsFiniteSet(H) /\ Cardinality(H) \in Nat /\ Cardinality(H) >= 1 /\ Cardinality(H) <= Window
    BY <1>0, FS_CardinalityType, FS_EmptySet DEF JInv, Counted
  <2>2. IsFiniteSet(H \ {n}) /\ Cardinality(H \ {n}) = Cardinality(H) - 1
    BY <1>0, <2>1, FS_RemoveElement
  <2>3. result.count <= (Window - Cardinality(H)) * (MaxConceal + 1) + MaxConceal
    BY <1>0 DEF JInv, Counted
  <2>4. /\ (Window - (Cardinality(H) - 1)) * (MaxConceal + 1)
               = (Window - Cardinality(H)) * (MaxConceal + 1) + MaxConceal + 1
        /\ (Window - Cardinality(H)) * (MaxConceal + 1) \in Nat
    BY <2>1, Room
  <2>5. result'.count <= (Window - Cardinality(H \ {n})) * (MaxConceal + 1)
    BY <1>0, <2>2, <2>3, <2>4, JitterAssumption
  <2>6. (Window - Cardinality(H \ {n})) * (MaxConceal + 1) \in Nat
    BY <2>2, <2>4, JitterAssumption
  <2> QED
    BY <1>0, <2>1, <2>2, <2>5, <2>6, JitterAssumption DEF Counted
<1> QED
  BY <1>4, <1>5, <1>6, <1>7, <1>8 DEF JInv

\* Concealing a frame.
LEMMA GapStep == JInv /\ drainGap => JInv'
<1> SUFFICES ASSUME JInv, drainGap PROVE JInv'
  OBVIOUS
<1> DEFINE n == window.next
           H == window.held
<1>0. /\ n \in Seqs /\ H \in SUBSET Seqs /\ n \notin H /\ busy /\ busy' /\ window.primed
      /\ window.gaps \in 0 .. MaxConceal /\ window.gaps < MaxConceal
      /\ window'.held = H /\ window'.next = after(n) /\ window'.gaps = window.gaps + 1
      /\ window'.primed = window.primed
      /\ out'.last = n /\ out'.gapRun = out.gapRun + 1 /\ out.gapRun \in Nat
      /\ result'.count = result.count + 1 /\ result.count \in Nat /\ result.count < MaxEvents
      /\ \E seq \in H : distance(seq, n) >= Window
  BY DEF JInv, TypeOK, Played, drainGap, going, maxAheadAtLeast, deltaFromNext
<1>1. after(n) \in Seqs /\ distance(after(n), n) = 1
  BY <1>0, AfterType
<1>2. \A seq \in H : distance(seq, n) >= 1 /\ distance(seq, n) \in - Half .. Half - 1
  BY <1>0, DistanceType, JitterAssumption DEF JInv, Ahead, deltaFromNext
<1>3. \A seq \in H : distance(seq, after(n)) = distance(seq, n) - 1
  BY <1>0, <1>2, DistanceStep
<1>4. TypeOK'
  <2>1. window' = [window EXCEPT !.held = H, !.next = after(n), !.gaps = window.gaps + 1]
    BY <1>0 DEF drainGap, JInv, TypeOK
  <2>2. window' \in WindowType
    <3>1. window \in WindowType
      BY DEF JInv, TypeOK, WindowType
    <3>2. H \in SUBSET Seqs /\ window.gaps + 1 \in 0 .. MaxConceal
      BY <1>0, JitterAssumption
    <3> HIDE DEF n, H
    <3> QED
      BY <1>1, <2>1, <3>1, <3>2, WindowFields
  <2>3. result' \in [accept : {"ok", "late", "duplicate", "rejected"}, count : 0 .. MaxEvents]
    BY <1>0, SomeRoom DEF JInv, TypeOK, drainGap
  <2>4. out' \in [last : Seqs \cup {None}, gapRun : Nat]
    BY <1>0 DEF drainGap
  <2> QED
    BY <1>0, <2>2, <2>3, <2>4 DEF TypeOK, WindowType
<1>5. Ahead'
  BY <1>0, <1>2, <1>3, JitterAssumption DEF Ahead, deltaFromNext
<1>6. Concealed'
  <2>1. PICK seq \in H : distance(seq, after(n)) <= Half - 2
    BY <1>0, <1>2, <1>3, JitterAssumption
  <2>2. out.gapRun <= window.gaps
    BY <1>0 DEF JInv, Concealed
  <2> QED
    BY <1>0, <2>1, <2>2, JitterAssumption DEF Concealed, deltaFromNext
<1>7. Played'
  BY <1>0, <1>1 DEF Played
<1>8. Counted'
  <2>1. IsFiniteSet(H) /\ Cardinality(H) \in Nat /\ Cardinality(H) >= 1 /\ Cardinality(H) <= Window
    BY <1>0, FS_CardinalityType, FS_EmptySet DEF JInv, Counted
  <2>2. result.count <= (Window - Cardinality(H)) * (MaxConceal + 1) + window.gaps
    BY <1>0 DEF JInv, Counted
  <2>3. (Window - Cardinality(H)) * (MaxConceal + 1) \in Nat
    BY <2>1, Room
  <2>4. result'.count <= (Window - Cardinality(H)) * (MaxConceal + 1) + window'.gaps
    BY <1>0, <2>2, <2>3, JitterAssumption
  <2>5. result'.count <= (Window - Cardinality(H)) * (MaxConceal + 1) + MaxConceal
    BY <1>0, <2>3, <2>4, JitterAssumption
  <2> QED
    BY <1>0, <2>1, <2>4, <2>5 DEF Counted
<1> QED
  BY <1>4, <1>5, <1>6, <1>7, <1>8 DEF JInv

\* Giving up on a dropout.
LEMMA ResyncStep == JInv /\ drainResync => JInv'
<1> SUFFICES ASSUME JInv, drainResync PROVE JInv'
  OBVIOUS
<1> DEFINE n == window.next
           H == window.held
<1>1. PICK oldest \in H :
          /\ \A seq \in H : distance(oldest, n) <= distance(seq, n)
          /\ window' = [window EXCEPT !.next = oldest, !.gaps = 0]
  BY DEF drainResync, deltaFromNext
<1>0. /\ n \in Seqs /\ H \in SUBSET Seqs /\ oldest \in Seqs /\ n \notin H /\ busy /\ busy'
      /\ window.primed /\ window.gaps > 0 /\ window.gaps \in 0 .. MaxConceal
      /\ window'.held = H /\ window'.next = oldest /\ window'.gaps = 0
      /\ window'.primed = window.primed
      /\ out' = out /\ result' = result /\ out.last \in Seqs /\ result.count \in Nat
  <2>1. /\ window \in WindowType /\ busy /\ n \notin H /\ window.gaps >= MaxConceal
        /\ out' = out /\ result' = result /\ busy' = busy
    BY DEF JInv, TypeOK, WindowType, drainResync, going
  <2>2. window.primed /\ out.last \in Seqs /\ result.count \in Nat
    BY <2>1 DEF JInv, TypeOK, Played
  <2>3. n \in Seqs /\ H \in SUBSET Seqs /\ window.gaps \in 0 .. MaxConceal
    BY <2>1 DEF WindowType
  <2>4. /\ window'.held = H /\ window'.next = oldest /\ window'.gaps = 0
        /\ window'.primed = window.primed
    BY <1>1, <2>1 DEF WindowType
  <2>5. window.gaps > 0
    BY <2>1, <2>3, JitterAssumption
  <2>6. oldest \in Seqs
    BY <2>3
  <2>7. busy'
    BY <2>1
  <2> QED
    BY <2>1, <2>2, <2>3, <2>4, <2>5, <2>6, <2>7
<1>2. \A seq \in H : distance(seq, n) >= 1 /\ distance(seq, n) \in - Half .. Half - 1
  BY <1>0, DistanceType, JitterAssumption DEF JInv, Ahead, deltaFromNext
<1>3. \A seq \in H : distance(seq, oldest) = distance(seq, n) - distance(oldest, n)
  BY <1>0, <1>1, <1>2, DistanceSub
<1>4. TypeOK'
  <2>1. window' = [window EXCEPT !.held = H, !.next = oldest, !.gaps = 0]
    BY <1>0, <1>1 DEF JInv, TypeOK
  <2>2. window' \in WindowType
    <3>1. window \in WindowType
      BY DEF JInv, TypeOK, WindowType
    <3>2. H \in SUBSET Seqs /\ oldest \in Seqs /\ 0 \in 0 .. MaxConceal
      BY <1>0, JitterAssumption
    <3> HIDE DEF n, H
    <3> QED
      BY <2>1, <3>1, <3>2, WindowFields
  <2> QED
    BY <1>0, <2>2 DEF TypeOK, WindowType, JInv
<1>5. Ahead'
  BY <1>0, <1>1, <1>2, <1>3, JitterAssumption DEF Ahead, deltaFromNext
<1>6. Concealed'
  BY <1>0, <1>1 DEF Concealed, JInv
<1>7. Played'
  <2>1. distance(n, out.last) = 1
    BY <1>0 DEF JInv, Played
  <2>2. distance(oldest, n) \in 0 .. Half - 2
    <3>1. PICK seq \in H : distance(seq, n) <= Half - 2
      BY <1>0 DEF JInv, Concealed, deltaFromNext
    <3> QED
      BY <1>0, <1>1, <1>2, <3>1, JitterAssumption
  <2>3. distance(oldest, out.last) = distance(oldest, n) + 1
    BY <1>0, <2>1, <2>2, DistanceAdd
  <2> QED
    BY <1>0, <2>2, <2>3, JitterAssumption DEF Played
<1>8. Counted'
  <2>1. IsFiniteSet(H) /\ Cardinality(H) \in Nat /\ Cardinality(H) >= 1 /\ Cardinality(H) <= Window
    BY <1>0, <1>1, FS_CardinalityType, FS_EmptySet DEF JInv, Counted
  <2>2. result.count <= (Window - Cardinality(H)) * (MaxConceal + 1) + window.gaps
    BY <1>0 DEF JInv, Counted
  <2>3. (Window - Cardinality(H)) * (MaxConceal + 1) \in Nat
    BY <2>1, Room
  <2>4. result'.count <= (Window - Cardinality(H)) * (MaxConceal + 1) + MaxConceal
    BY <1>0, <2>2, <2>3, JitterAssumption
  <2> QED
    BY <1>0, <1>1, <2>1, <2>4 DEF Counted
<1> QED
  BY <1>4, <1>5, <1>6, <1>7, <1>8 DEF JInv

\* drain() returns: what is left is less than a window ahead.
LEMMA EndsStep == JInv /\ drainEnds => JInv'
<1> SUFFICES ASSUME JInv, drainEnds PROVE JInv'
  OBVIOUS
<1>0. /\ window' = window /\ result' = result /\ out' = out /\ busy /\ busy' = FALSE
      /\ window.next \in Seqs /\ window.held \in SUBSET Seqs
      /\ \/ result.count >= MaxEvents
         \/ window.next \notin window.held /\ ~ maxAheadAtLeast(Window)
  BY DEF drainEnds, JInv, TypeOK
<1>1. \A seq \in window.held : distance(seq, window.next) \in 1 .. Window - 1
  <2>1. CASE window.held = {}
    BY <2>1
  <2>2. CASE window.held # {}
    <3>1. result.count < MaxEvents /\ result.count \in Nat /\ MaxEvents \in Nat
      BY <1>0, <2>2, RoomLeft, SomeRoom DEF JInv, TypeOK
    <3>2. window.next \notin window.held /\ ~ maxAheadAtLeast(Window)
      BY <1>0, <3>1
    <3>3. \A seq \in window.held : /\ distance(seq, window.next) >= 0
                                   /\ distance(seq, window.next) # 0
                                   /\ distance(seq, window.next) \in - Half .. Half - 1
                                   /\ ~ (distance(seq, window.next) >= Window)
      BY <1>0, <3>2, DistanceType DEF JInv, Ahead, deltaFromNext, maxAheadAtLeast
    <3> QED
      BY <3>3, JitterAssumption
  <2> QED
    BY <2>1, <2>2
<1>2. TypeOK'
  BY <1>0 DEF JInv, TypeOK
<1>3. Ahead'
  BY <1>0, <1>1 DEF JInv, Ahead, deltaFromNext
<1>4. Concealed'
  BY <1>0 DEF JInv, Concealed, deltaFromNext
<1>5. Played'
  BY <1>0 DEF JInv, Played
<1>6. Counted'
  BY <1>0 DEF JInv, Counted
<1> QED
  BY <1>2, <1>3, <1>4, <1>5, <1>6 DEF JInv

\* A packet that is not the first: late, awaited, a duplicate or held.
LEMMA PushStep ==
  ASSUME JInv, NEW seq \in Seqs, push(seq)
  PROVE  JInv'
<1> DEFINE w == primedFor(seq)
           delta == distance(seq, w.next)
<1>1. w \in WindowType /\ window \in WindowType /\ ~ busy /\ 0 \in 0 .. MaxEvents /\ 1 \in 0 .. MaxEvents
  <2>1. window \in WindowType /\ ~ busy
    BY DEF JInv, TypeOK, WindowType, push
  <2>2. w \in WindowType
    <3>1. 0 \in 0 .. MaxConceal
      BY JitterAssumption
    <3> QED
      BY <2>1, <3>1, PrimedFields DEF primedFor
  <2> QED
    BY <2>1, <2>2, SomeRoom
<1>2. w.held = window.held /\ w.primed /\ w.held \in SUBSET Seqs /\ w.next \in Seqs
  BY <1>1 DEF primedFor, WindowType
<1>3. window.primed => w = window
  BY DEF primedFor
<1>4. ~ window.primed => w.held = {} /\ w.next = seq /\ delta = 0
  BY <1>1, <1>2, DistanceType DEF primedFor, JInv, Played, WindowType
<1>5. \A s \in window.held : distance(s, window.next) \in 1 .. Window - 1
  BY <1>1 DEF JInv, Ahead, deltaFromNext
<1>6. delta \in - Half .. Half - 1 /\ (delta = 0 <=> seq = w.next)
  BY <1>2, DistanceType
<1>7. window.next \in Seqs /\ window.held \in SUBSET Seqs
  BY <1>1 DEF WindowType
<1> HIDE DEF w, delta
<1>8. CASE delta = 0 /\ w.held = {}
               /\ window' = [w EXCEPT !.next = after(@), !.gaps = 0]
               /\ result' = [accept |-> "ok", count |-> 1]
               /\ out' = emitted(seq) /\ busy' = busy
  <2>1. after(seq) \in Seqs /\ distance(after(seq), seq) = 1 /\ w.next = seq
    BY <1>6, <1>8, AfterType
  <2>2. /\ window'.held = {} /\ window'.next = after(seq) /\ window'.gaps = 0 /\ window'.primed
        /\ window' \in WindowType
    <3>1. 0 \in 0 .. MaxConceal
      BY JitterAssumption
    <3>2. window' = [w EXCEPT !.next = after(seq), !.gaps = 0]
      BY <1>8, <2>1
    <3>3. window' \in WindowType
      BY <1>1, <2>1, <3>1, <3>2 DEF WindowType
    <3>4. window'.held = w.held /\ window'.next = after(seq) /\ window'.gaps = 0
          /\ window'.primed = w.primed
      BY <1>1, <3>2 DEF WindowType
    <3> QED
      BY <1>2, <1>8, <3>3, <3>4
  <2>3. out'.last = seq /\ out'.gapRun = 0 /\ out' \in [last : Seqs \cup {None}, gapRun : Nat]
    BY <1>8 DEF emitted
  <2>4. TypeOK'
    <3>1. window' \in WindowType /\ out' \in [last : Seqs \cup {None}, gapRun : Nat] /\ busy' = FALSE
      BY <1>1, <1>8, <2>2, <2>3 DEF JInv, TypeOK
    <3>2. result' \in [accept : {"ok", "late", "duplicate", "rejected"}, count : 0 .. MaxEvents]
      BY <1>1, <1>8
    <3> QED
      BY <3>1, <3>2 DEF TypeOK, WindowType
  <2>5. Ahead' /\ Played'
    BY <1>8, <2>1, <2>2, <2>3 DEF Ahead, Played
  <2>6. Concealed'
    BY <2>2, <2>3, JitterAssumption DEF Concealed
  <2>7. Counted'
    <3>1. ~ busy' /\ IsFiniteSet({}) /\ Cardinality({}) = 0 /\ 0 <= Window
      BY <1>1, <1>8, FS_EmptySet, JitterAssumption
    <3> QED
      BY <2>2, <3>1 DEF Counted
  <2> QED
    BY <2>4, <2>5, <2>6, <2>7 DEF JInv
<1>9. CASE /\ window' = w /\ result' \in [accept : {"late", "duplicate", "rejected"}, count : {0}]
           /\ busy' = busy /\ out' = out
           /\ window.primed
  <2>1. window' = window /\ ~ busy'
    BY <1>1, <1>3, <1>9
  <2>2. TypeOK'
    BY <1>1, <1>9, <2>1 DEF JInv, TypeOK
  <2>3. Ahead' /\ Played' /\ Concealed'
    BY <1>9, <2>1 DEF JInv, Ahead, Played, Concealed, deltaFromNext
  <2>4. Counted'
    BY <1>9, <2>1 DEF JInv, Counted
  <2> QED
    BY <2>2, <2>3, <2>4 DEF JInv
<1>10. CASE /\ window.primed /\ delta >= 0 /\ seq \notin w.held
            /\ window' = [w EXCEPT !.held = @ \cup {seq}]
            /\ result' = [accept |-> "ok", count |-> 0]
            /\ busy' = TRUE /\ out' = out
  <2> DEFINE H == window.held
  <2>1. w = window
    BY <1>3, <1>10
  <2>2. /\ window'.held = H \cup {seq} /\ window'.next = window.next /\ window'.gaps = window.gaps
        /\ window'.primed = window.primed /\ window' \in WindowType
    BY <1>1, <1>10, <2>1 DEF WindowType
  <2>3. distance(seq, window.next) >= 0
    BY <1>10, <2>1 DEF delta
  <2>4. TypeOK'
    BY <1>1, <1>10, <2>2 DEF JInv, TypeOK, WindowType
  <2>5. Ahead'
    BY <1>5, <1>10, <2>2, <2>3 DEF Ahead, deltaFromNext
  <2>6. Concealed'
    BY <1>10, <2>2 DEF JInv, Concealed, deltaFromNext
  <2>7. Played'
    BY <1>10, <2>2 DEF JInv, Played
  <2>8. Counted'
    <3>1. IsFiniteSet(H) /\ Cardinality(H) < Window /\ Cardinality(H) \in Nat
      BY <1>5, <1>7, RestIsSmall, FS_CardinalityType
    <3>2. /\ IsFiniteSet(H \cup {seq}) /\ Cardinality(H \cup {seq}) = Cardinality(H) + 1
      BY <1>10, <2>1, <3>1, FS_AddElement
    <3> DEFINE c == Cardinality(H \cup {seq})
    <3>3. c \in Nat /\ c >= 1 /\ c <= Window
      BY <3>1, <3>2, JitterAssumption
    <3>4. (Window - c) * (MaxConceal + 1) \in Nat
      BY <3>3, Room
    <3>5. result'.count = 0 /\ window.gaps \in 0 .. MaxConceal
      BY <1>1, <1>10 DEF WindowType
    <3> HIDE DEF c
    <3>6. 0 <= (Window - c) * (MaxConceal + 1) + MaxConceal
          /\ 0 <= (Window - c) * (MaxConceal + 1) + window.gaps
      BY <3>4, <3>5, JitterAssumption
    <3> QED
      BY <2>2, <3>2, <3>3, <3>5, <3>6 DEF Counted, c
  <2> QED
    BY <2>4, <2>5, <2>6, <2>7, <2>8 DEF JInv
<1> QED
  <2>1. CASE ~ window.primed
    <3>1. delta = 0 /\ w.held = {}
      BY <1>4, <2>1
    <3>2. ~ (delta < 0) /\ ~ (delta > 0) /\ seq \notin w.held
      BY <3>1
    <3> QED
      BY <1>8, <3>1, <3>2 DEF push, w, delta
  <2>2. CASE window.primed
    <3>1. delta > 0 => delta >= 0
      BY <1>6, JitterAssumption
    <3>2. \/ /\ window' = w
             /\ \/ result' = [accept |-> "late", count |-> 0]
                \/ result' = [accept |-> "duplicate", count |-> 0]
                \/ result' = [accept |-> "rejected", count |-> 0]
             /\ busy' = busy /\ out' = out
          \/ /\ delta = 0 /\ w.held = {}
             /\ window' = [w EXCEPT !.next = after(@), !.gaps = 0]
             /\ result' = [accept |-> "ok", count |-> 1]
             /\ out' = emitted(seq) /\ busy' = busy
          \/ /\ delta > 0 \/ delta = 0
             /\ seq \notin w.held
             /\ window' = [w EXCEPT !.held = @ \cup {seq}]
             /\ result' = [accept |-> "ok", count |-> 0]
             /\ busy' = TRUE /\ out' = out
      BY Zenon DEF push, w, delta
    <3>3. \A a \in {"late", "duplicate", "rejected"} :
              [accept |-> a, count |-> 0] \in [accept : {"late", "duplicate", "rejected"}, count : {0}]
      OBVIOUS
    <3>4. delta = 0 => delta >= 0
      BY <1>6
    <3> QED
      BY <1>8, <1>9, <1>10, <2>2, <3>1, <3>2, <3>3, <3>4, Zenon
  <2> QED
    BY <2>1, <2>2

\* Every step of the window keeps the invariant.
LEMMA JitterStep == JInv /\ [Next]_vars => JInv'
<1> SUFFICES ASSUME JInv, [Next]_vars PROVE JInv'
  OBVIOUS
<1>1. CASE \E seq \in Seqs : push(seq)
  BY <1>1, PushStep
<1>2. CASE UNCHANGED vars
  BY <1>2 DEF vars, JInv, TypeOK, Ahead, Concealed, Played, Counted, deltaFromNext
<1> QED
  BY <1>1, <1>2, RestStep, PacketStep, GapStep, ResyncStep, EndsStep DEF Next

-----------------------------------------------------------------------------
(* The results *)

\* The invariant holds in every state of the window.
THEOREM JitterInvariant == Spec => []JInv
BY InitJitter, JitterStep, PTL DEF Spec

\* Whatever the window, the widths and the packets: between pushes the held packets are ahead by
\* less than the window and leave a slot free, and drain() never stops at the end of its event
\* array with a packet still due (the slots_ invariant and AUDIO_JITTER_MAX_EVENTS_PER_PUSH).
THEOREM HeldIsAheadTheorem == Spec => []HeldIsAhead
<1>1. JInv => HeldIsAhead
  <2> SUFFICES ASSUME JInv PROVE HeldIsAhead
    OBVIOUS
  <2>1. ~ busy => \A seq \in window.held : deltaFromNext(seq) \in 1 .. Window - 1
    BY DEF JInv, Ahead
  <2>2. ~ busy => Cardinality(window.held) < Window
    BY <2>1, RestIsSmall DEF JInv, TypeOK, deltaFromNext
  <2>3. busy => result.count < MaxEvents \/ window.held = {}
    BY RoomLeft
  <2> QED
    BY <2>1, <2>2, <2>3 DEF HeldIsAhead
<1> QED
  BY <1>1, JitterInvariant, PTL

\* No more than MaxConceal frames in a row are concealed (consecutiveGaps_ over all pushes).
THEOREM ConcealmentIsShortTheorem == Spec => []ConcealmentIsShort
<1>1. JInv => ConcealmentIsShort
  BY DEF JInv, Concealed, ConcealmentIsShort
<1> QED
  BY <1>1, JitterInvariant, PTL

\* What push() and drain() put out only goes forward, also across the wrap of the numbers.
THEOREM PlaysForwardTheorem == Spec => PlaysForward
<1> DEFINE A == out'.last # out.last /\ out.last # None /\ out'.last # None
                    => distance(out'.last, out.last) \in 1 .. Half - 1
<1>1. JInv /\ [Next]_vars => [A]_vars
  <2> SUFFICES ASSUME JInv, Next, out'.last # out.last, out.last # None, out'.last # None
               PROVE  distance(out'.last, out.last) \in 1 .. Half - 1
    OBVIOUS
  <2>0. window.primed /\ out.last \in Seqs /\ 1 \in 1 .. Half - 1
    BY JitterAssumption DEF JInv, TypeOK, Played
  <2>1. distance(window.next, out.last) \in 1 .. Half - 1
    BY <2>0 DEF JInv, Played
  <2>2. CASE out'.last = window.next
    BY <2>1, <2>2
  <2>3. out' = out \/ out'.last = window.next
    <3>1. ASSUME NEW seq \in Seqs, push(seq)
          PROVE  out' = out \/ out'.last = window.next
      <4>1. primedFor(seq) = window
        BY <2>0 DEF primedFor
      <4>2. window.next \in Seqs
        BY DEF JInv, TypeOK
      <4>3. distance(seq, window.next) = 0 => seq = window.next
        BY <4>2, DistanceType
      <4> QED
        BY <3>1, <4>1, <4>3 DEF push, emitted
    <3>2. reset => FALSE
      BY DEF reset
    <3>3. drainPacket \/ drainGap => out'.last = window.next
      BY DEF drainPacket, drainGap, emitted
    <3>4. pushRejected \/ drainResync \/ drainEnds => out' = out
      BY DEF pushRejected, drainResync, drainEnds
    <3> QED
      BY <3>1, <3>2, <3>3, <3>4 DEF Next
  <2> QED
    BY <2>2, <2>3
<1> QED
  BY <1>1, JitterInvariant, PTL DEF Spec, PlaysForward
=============================================================================
