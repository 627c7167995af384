--------------------------- MODULE MpscQueueProofs ---------------------------
(***************************************************************************)
(* For any number of producers and any capacity, the consumer pops what    *)
(* was pushed, in order, and a push is refused only by a full queue.       *)
(***************************************************************************)
EXTENDS MpscQueue, TLAPS

-----------------------------------------------------------------------------
(* Which cell a position has: distinct ones within a round.                *)

\* A position has a cell of the array.
LEMMA CellType == \A q \in Nat : cell(q) \in Cells
BY QueueAssumption DEF cell, Cells

\* Division with remainder by the capacity.
LEMMA DivMod == \A q \in Nat : /\ q \div Capacity \in Nat /\ q % Capacity \in 0 .. Capacity - 1
                               /\ q = Capacity * (q \div Capacity) + (q % Capacity)
BY QueueAssumption, SMTT(30)

\* A product with a positive factor grows by at least the factor.
LEMMA Mono == \A c, x, y \in Int : c > 0 /\ x < y => c * x + c <= c * y
<1> SUFFICES ASSUME NEW c \in Int, NEW x \in Int, NEW y \in Int, c > 0, x < y PROVE c * x + c <= c * y
  OBVIOUS
<1>1. PICK d \in Nat : y = x + 1 + d
  <2>1. y - x - 1 \in Nat OBVIOUS
  <2>. QED BY <2>1
<1>2. c * y = c * x + c + c * d
  BY <1>1, SMTT(30)
<1>3. c * d >= 0
  BY SMTT(30)
<1> QED BY <1>2, <1>3

\* Two positions less than a round apart have different cells.
LEMMA CellInj == \A a, b \in Nat : a < b /\ b < a + Capacity => cell(a) # cell(b)
<1> SUFFICES ASSUME NEW a \in Nat, NEW b \in Nat, a < b, b < a + Capacity, cell(a) = cell(b) PROVE FALSE
  OBVIOUS
<1> DEFINE x == a \div Capacity
           y == b \div Capacity
           r == a % Capacity
<1>1. x \in Int /\ y \in Int /\ r \in Int /\ a = Capacity * x + r /\ b = Capacity * y + r
  BY DivMod DEF cell
<1>2. Capacity \in Int /\ Capacity > 0 BY QueueAssumption
<1> HIDE DEF x, y, r
<1>5. Capacity * x \in Int /\ Capacity * y \in Int
  BY <1>1, <1>2
<1>3. CASE x < y
  <2>1. Capacity * x + Capacity <= Capacity * y BY <1>1, <1>2, <1>3, Mono
  <2> QED BY <2>1, <1>1, <1>2, <1>5
<1>4. CASE y <= x
  <2>1. Capacity * y <= Capacity * x
     <3>1. CASE y = x BY <3>1, <1>5
     <3>2. CASE y < x 
       <4>1. Capacity * y + Capacity <= Capacity * x BY <1>1, <1>2, <3>2, Mono
       <4> QED BY <4>1, <1>5, <1>2
     <3> QED BY <3>1, <3>2, <1>4, <1>1
  <2> QED BY <2>1, <1>1, <1>2, <1>5
<1> QED BY <1>3, <1>4, <1>1

\* A position and the one a round later share their cell.
LEMMA CellRound == \A q \in Nat : cell(q + Capacity) = cell(q)
<1> SUFFICES ASSUME NEW q \in Nat PROVE (q + Capacity) % Capacity = q % Capacity
  BY DEF cell
<1> DEFINE x == q \div Capacity
           y == (q + Capacity) \div Capacity
           r == q % Capacity
           s == (q + Capacity) % Capacity
<1>0. q + Capacity \in Nat /\ Capacity \in Int /\ Capacity > 0 BY QueueAssumption
<1>1. /\ x \in Int /\ y \in Int /\ r \in 0 .. Capacity - 1 /\ s \in 0 .. Capacity - 1
      /\ q = Capacity * x + r /\ q + Capacity = Capacity * y + s
  BY DivMod, <1>0
<1> HIDE DEF x, y, r, s
<1>2. Capacity * x \in Int /\ Capacity * y \in Int /\ Capacity * (x + 1) \in Int
  BY <1>0, <1>1
<1>3. Capacity * (x + 1) = Capacity * x + Capacity
  BY <1>0, <1>1, SMTT(30)
<1>4. ~ (x + 1 < y)
  <2>1. SUFFICES ASSUME x + 1 < y PROVE FALSE OBVIOUS
  <2>2. Capacity * (x + 1) + Capacity <= Capacity * y BY <2>1, <1>0, <1>1, Mono
  <2> QED BY <2>2, <1>0, <1>1, <1>2, <1>3
<1>5. ~ (y < x + 1)
  <2>1. SUFFICES ASSUME y < x + 1 PROVE FALSE OBVIOUS
  <2>2. Capacity * y + Capacity <= Capacity * (x + 1) BY <2>1, <1>0, <1>1, Mono
  <2> QED BY <2>2, <1>0, <1>1, <1>2, <1>3
<1>6. y = x + 1 BY <1>4, <1>5, <1>1
<1>7. r = s BY <1>6, <1>0, <1>1, <1>2, <1>3
<1> QED BY <1>7 DEF r, s

\* The remainder is determined by any decomposition.
LEMMA ModUnique ==
    ASSUME NEW x \in Nat, NEW s \in 0 .. Capacity - 1, NEW q \in Nat, q = Capacity * x + s
    PROVE  q % Capacity = s
<1> DEFINE y == q \div Capacity
           t == q % Capacity
<1>0. Capacity \in Int /\ Capacity > 0 BY QueueAssumption
<1>1. y \in Int /\ t \in 0 .. Capacity - 1 /\ q = Capacity * y + t
  BY DivMod
<1> HIDE DEF y, t
<1>2. Capacity * x \in Int /\ Capacity * y \in Int
  BY <1>0, <1>1
<1>3. ~ (x < y)
  <2> SUFFICES ASSUME x < y PROVE FALSE OBVIOUS
  <2>1. Capacity * x + Capacity <= Capacity * y BY <1>0, <1>1, Mono
  <2> QED BY <2>1, <1>0, <1>1, <1>2
<1>4. ~ (y < x)
  <2> SUFFICES ASSUME y < x PROVE FALSE OBVIOUS
  <2>1. Capacity * y + Capacity <= Capacity * x BY <1>0, <1>1, Mono
  <2> QED BY <2>1, <1>0, <1>1, <1>2
<1>5. x = y BY <1>3, <1>4, <1>1
<1>6. t = s BY <1>5, <1>0, <1>1, <1>2
<1> QED BY <1>6 DEF t

\* Every cell has a position in the round that starts at h.
LEMMA Rounds ==
    ASSUME NEW n \in Nat, NEW h \in Nat, n < h
    PROVE  \E q \in Nat : h <= q /\ q < h + Capacity /\ cell(q) = cell(n) /\ n <= q
<1> DEFINE x == h \div Capacity
           r == h % Capacity
           s == n % Capacity
           k == n \div Capacity
           q0 == Capacity * x + s
           q == IF s >= r THEN q0 ELSE q0 + Capacity
<1>0. Capacity \in Nat /\ Capacity >= 2 BY QueueAssumption
<1>1. /\ x \in Nat /\ k \in Nat /\ r \in 0 .. Capacity - 1 /\ s \in 0 .. Capacity - 1
      /\ h = Capacity * x + r /\ n = Capacity * k + s
  BY DivMod
<1>2. Capacity * x \in Nat
  BY <1>0, <1>1, SMTT(30)
<1>3. q \in Nat /\ h <= q /\ q < h + Capacity
  <2> HIDE DEF x, r, s, k
  <2> QED BY <1>0, <1>1, <1>2
<1>4. q0 \in Nat /\ cell(q0) = s
  <2> HIDE DEF x, r, s, k
  <2>1. q0 \in Nat BY <1>0, <1>1, <1>2
  <2>2. cell(q0) = s BY <2>1, <1>0, <1>1, ModUnique DEF cell
  <2> QED BY <2>1, <2>2
<1>5. cell(q) = s
  BY <1>4, CellRound
<1> QED BY <1>3, <1>5 DEF cell

-----------------------------------------------------------------------------
(* The inductive invariant.                                                *)

\* The first position whose cell the consumer has not given back.
head == IF popAt = "advance" THEN dequeuePos + 1 ELSE dequeuePos

\* A push that won its position and has not published it.
writes(p) == at[p] \in {"write", "publish"}

\* At most a round of positions is won and not given back.
PositionsInv ==
    /\ head <= enqueuePos
    /\ enqueuePos <= head + Capacity

\* The cell of each position of the round is free, or published with the
\* item of the push that won the position.
CellsInv ==
    \A q \in Nat : head <= q /\ q < head + Capacity =>
        \/ sequence[cell(q)] = q
        \/ sequence[cell(q)] = q + 1 /\ q < enqueuePos /\ item[cell(q)] = pushed[q + 1]

\* A push never looks past enqueuePos_; one that may win the next position
\* has room for it; one that won writes a cell nobody else touches.
ProducersInv ==
    \A p \in Producers :
        /\ at[p] \in {"check", "swap"} => pos[p] <= enqueuePos
        /\ at[p] = "swap" /\ pos[p] = enqueuePos => enqueuePos < head + Capacity
        /\ writes(p) => /\ head <= pos[p] /\ pos[p] < enqueuePos
                        /\ sequence[cell(pos[p])] = pos[p]
                        /\ mine[p] = pushed[pos[p] + 1]
        /\ at[p] = "publish" => item[cell(pos[p])] = mine[p]

WritersDiffer ==
    \A p, r \in Producers : writes(p) /\ writes(r) /\ pos[p] = pos[r] => p = r

\* The cell the consumer reads is published, and what it read was pushed there.
ConsumerInv ==
    /\ popAt \in {"read", "release"} =>
           /\ dequeuePos < enqueuePos
           /\ sequence[cell(dequeuePos)] = dequeuePos + 1
    /\ popAt \in {"release", "advance"} => got = pushed[dequeuePos + 1]

QueueInv ==
    TypeOK /\ PositionsInv /\ CellsInv /\ ProducersInv /\ WritersDiffer /\ ConsumerInv

\* Within a round, cells tell positions apart.
LEMMA RoundCells ==
    ASSUME NEW h \in Nat, NEW a \in Nat, NEW b \in Nat,
           h <= a, a < h + Capacity, h <= b, b < h + Capacity, cell(a) = cell(b)
    PROVE  a = b
<1>1. ~ (a < b)
  BY CellInj, QueueAssumption
<1>2. ~ (b < a)
  BY CellInj, QueueAssumption
<1> QED BY <1>1, <1>2

\* The constructor establishes the invariant.
LEMMA InitQueue == Init => QueueInv
<1> SUFFICES ASSUME Init PROVE QueueInv OBVIOUS
<1>1. TypeOK BY QueueAssumption DEF Init, TypeOK, Cells
<1>2. PositionsInv BY QueueAssumption DEF Init, PositionsInv, head
<1>3. CellsInv
  <2> SUFFICES ASSUME NEW q \in Nat, head <= q, q < head + Capacity PROVE sequence[cell(q)] = q
    BY DEF CellsInv
  <2>1. q \in Cells BY QueueAssumption DEF Init, head, Cells
  <2>2. cell(q) = q BY <2>1, QueueAssumption DEF cell, Cells
  <2> QED BY <2>1, <2>2 DEF Init
<1>4. ProducersInv BY DEF Init, ProducersInv, writes
<1>5. WritersDiffer BY DEF Init, WritersDiffer, writes
<1>6. ConsumerInv BY DEF Init, ConsumerInv
<1> QED BY <1>1, <1>2, <1>3, <1>4, <1>5, <1>6 DEF QueueInv

\* Every step of push and pop keeps the types.
LEMMA TypeStep == TypeOK /\ [Next]_vars => TypeOK'
<1> SUFFICES ASSUME TypeOK, [Next]_vars PROVE TypeOK' OBVIOUS
<1> USE DEF TypeOK, pushing, popping
<1>1. ASSUME NEW p \in Producers, NEW v \in Items, push(p, v) PROVE TypeOK'
  BY <1>1 DEF push
<1>2. ASSUME NEW p \in Producers, cellIsFree(p) \/ refuse(p) PROVE TypeOK'
  BY <1>2 DEF cellIsFree, refuse
<1>3. ASSUME NEW p \in Producers, reload(p) \/ lose(p) PROVE TypeOK'
  BY <1>3 DEF reload, lose
<1>4. ASSUME NEW p \in Producers, win(p) PROVE TypeOK'
  BY <1>4 DEF win
<1>5. ASSUME NEW p \in Producers, fill(p) PROVE TypeOK'
  BY <1>5, CellType DEF fill
<1>6. ASSUME NEW p \in Producers, publish(p) PROVE TypeOK'
  <2>1. pos[p] \in Nat /\ pos[p] + 1 \in Nat /\ cell(pos[p]) \in Cells BY CellType
  <2>2. sequence' \in [Cells -> Nat] BY <1>6, <2>1 DEF publish
  <2> QED BY <1>6, <2>2 DEF publish
<1>7. CASE popFinds BY <1>7 DEF popFinds
<1>8. CASE popReads BY <1>8, CellType DEF popReads
<1>9. CASE popReleases BY <1>9, CellType, QueueAssumption DEF popReleases
<1>10. CASE popAdvances BY <1>10 DEF popAdvances
<1>11. CASE UNCHANGED vars BY <1>11 DEF vars
<1> QED
  BY <1>1, <1>2, <1>3, <1>4, <1>5, <1>6, <1>7, <1>8, <1>9, <1>10, <1>11 DEF Next, Pushing, Popping

-----------------------------------------------------------------------------
(* A step that wins no position, touches no cell and leaves the consumer    *)
(* alone can only disturb the pushes.                                      *)

\* The load, the checks and a lost swap of push keep the invariant.
LEMMA LookStep ==
    ASSUME QueueInv, NEW p \in Producers,
           (\E v \in Items : push(p, v)) \/ cellIsFree(p) \/ refuse(p) \/ reload(p) \/ lose(p)
    PROVE  QueueInv'
<1> USE DEF QueueInv, pushing, popping
<1>0. /\ UNCHANGED <<sequence, item, enqueuePos, dequeuePos, popAt, got, pushed>>
      /\ \A r \in Producers \ {p} : at'[r] = at[r] /\ pos'[r] = pos[r] /\ mine'[r] = mine[r]
      /\ at'[p] \in {"idle", "check", "swap"}
      /\ at'[p] = "check" => pos'[p] = enqueuePos
      /\ at'[p] = "swap" => at[p] = "check" /\ lag(p) = 0 /\ pos'[p] = pos[p]
  BY DEF push, cellIsFree, refuse, reload, lose, TypeOK
<1>1. TypeOK' BY TypeStep DEF Next, Pushing
<1>2. PositionsInv' BY <1>0 DEF PositionsInv, head
<1>3. CellsInv' BY <1>0 DEF CellsInv, head
<1>4. ProducersInv'
  <2> SUFFICES ASSUME NEW r \in Producers
               PROVE  /\ at'[r] \in {"check", "swap"} => pos'[r] <= enqueuePos
                      /\ at'[r] = "swap" /\ pos'[r] = enqueuePos => enqueuePos < head + Capacity
                      /\ writes(r)' => /\ head <= pos'[r] /\ pos'[r] < enqueuePos
                                       /\ sequence[cell(pos'[r])] = pos'[r]
                                       /\ mine'[r] = pushed[pos'[r] + 1]
                      /\ at'[r] = "publish" => item[cell(pos'[r])] = mine'[r]
    BY <1>0 DEF ProducersInv, head
  <2>1. CASE r # p BY <2>1, <1>0 DEF ProducersInv, writes
  <2>2. CASE r = p
    <3>1. ~ writes(p)' /\ at'[p] # "publish" BY <1>0 DEF writes
    <3>2. at'[p] \in {"check", "swap"} => pos'[p] <= enqueuePos
      BY <1>0 DEF ProducersInv, TypeOK
    <3>3. ASSUME at'[p] = "swap", pos'[p] = enqueuePos PROVE enqueuePos < head + Capacity
      <4>1. sequence[cell(enqueuePos)] = enqueuePos
        <5>1. pos[p] = enqueuePos /\ lag(p) = 0 BY <1>0, <3>3
        <5>2. sequence[cell(enqueuePos)] \in Nat BY CellType DEF TypeOK
        <5> QED BY <5>1, <5>2 DEF lag, TypeOK
      <4>2. SUFFICES ASSUME enqueuePos = head + Capacity PROVE FALSE
        BY QueueAssumption DEF PositionsInv, head, TypeOK
      <4>3. head \in Nat BY DEF head, TypeOK
      <4>4. cell(enqueuePos) = cell(head) BY <4>2, <4>3, CellRound
      <4>5. sequence[cell(head)] \in {head, head + 1}
        BY <4>3, QueueAssumption DEF CellsInv
      <4> QED BY <4>1, <4>2, <4>3, <4>4, <4>5, QueueAssumption
    <3> QED BY <2>2, <3>1, <3>2, <3>3
  <2> QED BY <2>1, <2>2
<1>5. WritersDiffer' BY <1>0 DEF WritersDiffer, writes
<1>6. ConsumerInv' BY <1>0 DEF ConsumerInv
<1> QED BY <1>1, <1>2, <1>3, <1>4, <1>5, <1>6

\* Winning a position: its cell is free, and no other writer has it.
LEMMA WinStep == ASSUME QueueInv, NEW p \in Producers, win(p) PROVE QueueInv'
<1> USE DEF QueueInv, pushing, popping
<1> DEFINE e == enqueuePos
<1>0. /\ UNCHANGED <<sequence, item, dequeuePos, popAt, got, pos, mine>>
      /\ at[p] = "swap" /\ pos[p] = e /\ enqueuePos' = e + 1
      /\ at' = [at EXCEPT ![p] = "write"]
      /\ pushed' = Append(pushed, mine[p])
  BY DEF win
<1>1. TypeOK' BY TypeStep DEF Next, Pushing
<1>2. /\ e \in Nat /\ head \in Nat /\ head' = head
      /\ head <= e /\ e < head + Capacity
  BY <1>0, QueueAssumption DEF head, TypeOK, ProducersInv, PositionsInv
<1>3. /\ \A q \in Nat : q < e => pushed'[q + 1] = pushed[q + 1]
      /\ pushed'[e + 1] = mine[p]
  BY <1>0, <1>2 DEF TypeOK
<1>4. sequence[cell(e)] = e
  BY <1>2 DEF CellsInv
<1>5. PositionsInv' BY <1>0, <1>2, QueueAssumption DEF PositionsInv
<1>6. CellsInv'
  <2> SUFFICES ASSUME NEW q \in Nat, head <= q, q < head + Capacity
               PROVE  \/ sequence[cell(q)] = q
                      \/ sequence[cell(q)] = q + 1 /\ q < e + 1 /\ item[cell(q)] = pushed'[q + 1]
    BY <1>0, <1>2 DEF CellsInv
  <2>1. \/ sequence[cell(q)] = q
        \/ sequence[cell(q)] = q + 1 /\ q < e /\ item[cell(q)] = pushed[q + 1]
    BY DEF CellsInv
  <2> QED BY <2>1, <1>2, <1>3
<1>7. ProducersInv'
  <2> SUFFICES ASSUME NEW r \in Producers
               PROVE  /\ at'[r] \in {"check", "swap"} => pos[r] <= e + 1
                      /\ at'[r] = "swap" /\ pos[r] = e + 1 => e + 1 < head + Capacity
                      /\ writes(r)' => /\ head <= pos[r] /\ pos[r] < e + 1
                                       /\ sequence[cell(pos[r])] = pos[r]
                                       /\ mine[r] = pushed'[pos[r] + 1]
                      /\ at'[r] = "publish" => item[cell(pos[r])] = mine[r]
    BY <1>0, <1>2 DEF ProducersInv
  <2>1. CASE r = p BY <2>1, <1>0, <1>2, <1>3, <1>4 DEF writes, TypeOK
  <2>2. CASE r # p
    <3>1. at'[r] = at[r] /\ pos[r] \in Nat BY <2>2, <1>0 DEF TypeOK
    <3>2. writes(r)' = writes(r) BY <3>1 DEF writes
    <3>3. at[r] \in {"check", "swap"} => pos[r] <= e BY DEF ProducersInv
    <3>4. writes(r) => /\ head <= pos[r] /\ pos[r] < e
                       /\ sequence[cell(pos[r])] = pos[r]
                       /\ mine[r] = pushed[pos[r] + 1]
      BY DEF ProducersInv
    <3>5. at[r] = "publish" => item[cell(pos[r])] = mine[r] BY DEF ProducersInv
    <3> QED BY <3>1, <3>2, <3>3, <3>4, <3>5, <1>2, <1>3
  <2> QED BY <2>1, <2>2
<1>8. WritersDiffer'
  <2> SUFFICES ASSUME NEW a \in Producers, NEW b \in Producers, writes(a)', writes(b)', pos[a] = pos[b]
               PROVE  a = b
    BY <1>0 DEF WritersDiffer
  <2>1. \A r \in Producers \ {p} : writes(r)' => writes(r) /\ pos[r] < e
    BY <1>0 DEF writes, ProducersInv, TypeOK
  <2>2. pos[p] = e BY <1>0
  <2>3. CASE a # p /\ b # p BY <2>1, <2>3 DEF WritersDiffer
  <2>4. CASE a = p /\ b # p BY <2>1, <2>2, <2>4, <1>2
  <2>5. CASE a # p /\ b = p BY <2>1, <2>2, <2>5, <1>2
  <2> QED BY <2>3, <2>4, <2>5
<1>9. ConsumerInv' BY <1>0, <1>2, <1>3 DEF ConsumerInv, TypeOK, head, PositionsInv
<1> QED BY <1>1, <1>5, <1>6, <1>7, <1>8, <1>9

\* Filling a cell disturbs no published item.
LEMMA FillStep == ASSUME QueueInv, NEW p \in Producers, fill(p) PROVE QueueInv'
<1> USE DEF QueueInv, pushing, popping
<1> DEFINE n == pos[p]
<1>0. /\ UNCHANGED <<sequence, enqueuePos, dequeuePos, popAt, got, pos, mine, pushed>>
      /\ at[p] = "write" /\ at' = [at EXCEPT ![p] = "publish"]
      /\ item' = [item EXCEPT ![cell(n)] = mine[p]]
  BY DEF fill
<1>1. TypeOK' BY TypeStep DEF Next, Pushing
<1>2. /\ n \in Nat /\ head \in Nat /\ head' = head /\ cell(n) \in Cells
      /\ head <= n /\ n < enqueuePos /\ enqueuePos <= head + Capacity
      /\ sequence[cell(n)] = n /\ mine[p] = pushed[n + 1]
  BY <1>0, CellType DEF head, TypeOK, ProducersInv, PositionsInv, writes
<1>3. /\ item'[cell(n)] = mine[p]
      /\ \A i \in Cells : i # cell(n) => item'[i] = item[i]
  BY <1>0, <1>2 DEF TypeOK
<1>4. \A r \in Producers : writes(r)' = writes(r)
  BY <1>0 DEF writes, TypeOK
<1>5. PositionsInv' BY <1>0, <1>2 DEF PositionsInv
<1>6. CellsInv'
  <2> SUFFICES ASSUME NEW q \in Nat, head <= q, q < head + Capacity
               PROVE  \/ sequence[cell(q)] = q
                      \/ sequence[cell(q)] = q + 1 /\ q < enqueuePos /\ item'[cell(q)] = pushed[q + 1]
    BY <1>0, <1>2 DEF CellsInv
  <2>1. CASE q = n BY <2>1, <1>2
  <2>2. CASE q # n
    <3>1. cell(q) \in Cells BY CellType
    <3>2. cell(q) # cell(n)
      <4> SUFFICES ASSUME cell(q) = cell(n) PROVE FALSE OBVIOUS
      <4>1. n < head + Capacity BY <1>2, QueueAssumption DEF TypeOK
      <4> QED BY <4>1, <1>2, <2>2, RoundCells
    <3> QED BY <3>1, <3>2, <1>3 DEF CellsInv
  <2> QED BY <2>1, <2>2
<1>7. ProducersInv'
  <2> SUFFICES ASSUME NEW r \in Producers, at'[r] = "publish"
               PROVE  item'[cell(pos[r])] = mine[r]
    BY <1>0, <1>2, <1>4 DEF ProducersInv, TypeOK
  <2>1. CASE r = p BY <2>1, <1>3
  <2>2. CASE r # p
    <3>1. at[r] = "publish" BY <2>2, <1>0 DEF TypeOK
    <3>2. /\ pos[r] \in Nat /\ head <= pos[r] /\ pos[r] < enqueuePos
          /\ item[cell(pos[r])] = mine[r]
      BY <3>1 DEF ProducersInv, writes, TypeOK
    <3>3. pos[r] # n BY <2>2, <3>1, <1>0 DEF WritersDiffer, writes
    <3>4. cell(pos[r]) # cell(n)
      <4> SUFFICES ASSUME cell(pos[r]) = cell(n) PROVE FALSE OBVIOUS
      <4>1. n < head + Capacity /\ pos[r] < head + Capacity
        BY <1>2, <3>2, QueueAssumption DEF TypeOK
      <4> QED BY <4>1, <1>2, <3>2, <3>3, RoundCells
    <3> QED BY <3>2, <3>4, <1>3, CellType
  <2> QED BY <2>1, <2>2
<1>8. WritersDiffer' BY <1>0, <1>4 DEF WritersDiffer
<1>9. ConsumerInv' BY <1>0 DEF ConsumerInv
<1> QED BY <1>1, <1>5, <1>6, <1>7, <1>8, <1>9

\* Publishing a cell leaves the other positions' cells as they are.
LEMMA PublishStep == ASSUME QueueInv, NEW p \in Producers, publish(p) PROVE QueueInv'
<1> USE DEF QueueInv, pushing, popping
<1> DEFINE n == pos[p]
<1>0. /\ UNCHANGED <<item, enqueuePos, dequeuePos, popAt, got, pos, mine, pushed>>
      /\ at[p] = "publish" /\ at' = [at EXCEPT ![p] = "idle"]
      /\ sequence' = [sequence EXCEPT ![cell(n)] = n + 1]
  BY DEF publish
<1>1. TypeOK' BY TypeStep DEF Next, Pushing
<1>2. /\ n \in Nat /\ head \in Nat /\ head' = head /\ cell(n) \in Cells
      /\ head <= n /\ n < enqueuePos /\ n < head + Capacity /\ enqueuePos <= head + Capacity
      /\ sequence[cell(n)] = n /\ mine[p] = pushed[n + 1] /\ item[cell(n)] = mine[p]
  BY <1>0, CellType, QueueAssumption DEF head, TypeOK, ProducersInv, PositionsInv, writes
<1>3. /\ sequence'[cell(n)] = n + 1
      /\ \A i \in Cells : i # cell(n) => sequence'[i] = sequence[i]
  BY <1>0, <1>2 DEF TypeOK
<1>4. \A r \in Producers : writes(r)' => writes(r) /\ r # p
  BY <1>0 DEF writes, TypeOK
<1>5. PositionsInv' BY <1>0, <1>2 DEF PositionsInv
<1>6. ASSUME NEW q \in Nat, head <= q, q < head + Capacity, q # n
      PROVE  sequence'[cell(q)] = sequence[cell(q)]
  <2>1. cell(q) # cell(n)
    <3> SUFFICES ASSUME cell(q) = cell(n) PROVE FALSE OBVIOUS
    <3> QED BY <1>2, <1>6, RoundCells
  <2> QED BY <2>1, <1>3, CellType
<1>7. CellsInv'
  <2> SUFFICES ASSUME NEW q \in Nat, head <= q, q < head + Capacity
               PROVE  \/ sequence'[cell(q)] = q
                      \/ sequence'[cell(q)] = q + 1 /\ q < enqueuePos /\ item[cell(q)] = pushed[q + 1]
    BY <1>0, <1>2 DEF CellsInv
  <2>1. CASE q = n BY <2>1, <1>2, <1>3
  <2>2. CASE q # n BY <2>2, <1>6 DEF CellsInv
  <2> QED BY <2>1, <2>2
<1>8. ProducersInv'
  <2> SUFFICES ASSUME NEW r \in Producers, writes(r)'
               PROVE  sequence'[cell(pos[r])] = pos[r]
    BY <1>0, <1>2, <1>4 DEF ProducersInv, TypeOK
  <2>1. writes(r) /\ r # p BY <1>4
  <2>2. pos[r] # n BY <2>1, <1>0 DEF WritersDiffer, writes
  <2>3. /\ pos[r] \in Nat /\ head <= pos[r] /\ pos[r] < enqueuePos
        /\ sequence[cell(pos[r])] = pos[r]
    BY <2>1 DEF ProducersInv, TypeOK
  <2>4. pos[r] < head + Capacity BY <2>3, <1>2, QueueAssumption DEF TypeOK
  <2> QED BY <2>2, <2>3, <2>4, <1>6
<1>9. WritersDiffer' BY <1>0, <1>4 DEF WritersDiffer
<1>10. ConsumerInv'
  <2> SUFFICES ASSUME popAt \in {"read", "release"}
               PROVE  sequence'[cell(dequeuePos)] = dequeuePos + 1
    BY <1>0 DEF ConsumerInv
  <2>1. head = dequeuePos /\ sequence[cell(dequeuePos)] = dequeuePos + 1 /\ dequeuePos \in Nat
    BY DEF head, ConsumerInv, TypeOK
  <2>2. dequeuePos # n BY <2>1, <1>2
  <2> QED BY <2>1, <2>2, <1>6, QueueAssumption
<1> QED BY <1>1, <1>5, <1>7, <1>8, <1>9, <1>10

\* The consumer reads only a published cell.
LEMMA ReadStep == ASSUME QueueInv, popFinds \/ popReads PROVE QueueInv'
<1> USE DEF QueueInv, pushing, popping
<1>0. /\ UNCHANGED <<sequence, item, enqueuePos, dequeuePos, at, pos, mine, pushed>>
      /\ popAt' # "advance" /\ popAt # "advance"
  BY DEF popFinds, popReads
<1>1. TypeOK' BY TypeStep DEF Next, Popping
<1>2. head = dequeuePos /\ head' = head /\ dequeuePos \in Nat /\ enqueuePos \in Nat
  BY <1>0 DEF head, TypeOK
<1>3. PositionsInv' BY <1>0, <1>2 DEF PositionsInv
<1>4. CellsInv' BY <1>0, <1>2 DEF CellsInv
<1>5. ProducersInv' BY <1>0, <1>2 DEF ProducersInv, writes
<1>6. WritersDiffer' BY <1>0 DEF WritersDiffer, writes
<1>7. ConsumerInv'
  <2>0. \/ sequence[cell(dequeuePos)] = dequeuePos
        \/ /\ sequence[cell(dequeuePos)] = dequeuePos + 1 /\ dequeuePos < enqueuePos
           /\ item[cell(dequeuePos)] = pushed[dequeuePos + 1]
    BY <1>2, QueueAssumption DEF CellsInv
  <2>1. CASE popFinds BY <2>0, <2>1, <1>2 DEF popFinds, ConsumerInv
  <2>2. CASE popReads BY <2>0, <2>2, <1>2 DEF popReads, ConsumerInv
  <2> QED BY <2>1, <2>2
<1> QED BY <1>1, <1>3, <1>4, <1>5, <1>6, <1>7

\* A cell given back is the free cell of the position a round later.
LEMMA ReleaseStep == ASSUME QueueInv, popReleases PROVE QueueInv'
<1> USE DEF QueueInv, pushing, popping
<1> DEFINE d == dequeuePos
<1>0. /\ UNCHANGED <<item, enqueuePos, dequeuePos, at, pos, mine, got, pushed>>
      /\ popAt = "release" /\ popAt' = "advance"
      /\ sequence' = [sequence EXCEPT ![cell(d)] = d + Capacity]
  BY DEF popReleases
<1>1. TypeOK' BY TypeStep DEF Next, Popping
<1>2. /\ d \in Nat /\ Capacity \in Nat /\ head = d /\ head' = d + 1 /\ cell(d) \in Cells
      /\ d < enqueuePos /\ enqueuePos <= d + Capacity /\ sequence[cell(d)] = d + 1
  BY <1>0, CellType, QueueAssumption DEF head, TypeOK, ConsumerInv, PositionsInv
<1>3. /\ sequence'[cell(d)] = d + Capacity
      /\ \A i \in Cells : i # cell(d) => sequence'[i] = sequence[i]
  BY <1>0, <1>2 DEF TypeOK
<1>4. ASSUME NEW q \in Nat, d + 1 <= q, q < d + Capacity
      PROVE  sequence'[cell(q)] = sequence[cell(q)]
  <2>1. cell(q) # cell(d)
    <3> SUFFICES ASSUME cell(q) = cell(d) PROVE FALSE OBVIOUS
    <3>1. d <= q /\ d < d + Capacity /\ q # d BY <1>2, <1>4, QueueAssumption
    <3> QED BY <3>1, <1>2, <1>4, RoundCells
  <2> QED BY <2>1, <1>3, CellType
<1>5. PositionsInv' BY <1>0, <1>2 DEF PositionsInv, TypeOK
<1>6. CellsInv'
  <2> SUFFICES ASSUME NEW q \in Nat, d + 1 <= q, q < d + 1 + Capacity
               PROVE  \/ sequence'[cell(q)] = q
                      \/ sequence'[cell(q)] = q + 1 /\ q < enqueuePos /\ item[cell(q)] = pushed[q + 1]
    BY <1>0, <1>2 DEF CellsInv
  <2>1. CASE q = d + Capacity
    <3>1. cell(q) = cell(d) BY <2>1, <1>2, CellRound
    <3> QED BY <3>1, <2>1, <1>3
  <2>2. CASE q < d + Capacity
    <3>1. sequence'[cell(q)] = sequence[cell(q)] BY <2>2, <1>4
    <3>2. \/ sequence[cell(q)] = q
          \/ sequence[cell(q)] = q + 1 /\ q < enqueuePos /\ item[cell(q)] = pushed[q + 1]
      BY <2>2, <1>2 DEF CellsInv
    <3> QED BY <3>1, <3>2
  <2> QED BY <2>1, <2>2, <1>2
<1>7. ProducersInv'
  <2> SUFFICES ASSUME NEW r \in Producers
               PROVE  /\ at[r] \in {"check", "swap"} => pos[r] <= enqueuePos
                      /\ at[r] = "swap" /\ pos[r] = enqueuePos => enqueuePos < d + 1 + Capacity
                      /\ writes(r) => /\ d + 1 <= pos[r] /\ pos[r] < enqueuePos
                                      /\ sequence'[cell(pos[r])] = pos[r]
                                      /\ mine[r] = pushed[pos[r] + 1]
                      /\ at[r] = "publish" => item[cell(pos[r])] = mine[r]
    BY <1>0, <1>2 DEF ProducersInv, writes
  <2>0. pos[r] \in Nat /\ enqueuePos \in Nat BY DEF TypeOK
  <2>1. /\ at[r] \in {"check", "swap"} => pos[r] <= enqueuePos
        /\ at[r] = "publish" => item[cell(pos[r])] = mine[r]
    BY DEF ProducersInv
  <2>2. ASSUME writes(r)
        PROVE  /\ d + 1 <= pos[r] /\ pos[r] < enqueuePos
               /\ sequence'[cell(pos[r])] = pos[r]
               /\ mine[r] = pushed[pos[r] + 1]
    <3>1. /\ d <= pos[r] /\ pos[r] < enqueuePos
          /\ sequence[cell(pos[r])] = pos[r]
          /\ mine[r] = pushed[pos[r] + 1]
      BY <2>2, <1>2 DEF ProducersInv
    <3>2. pos[r] # d BY <3>1, <1>2
    <3>3. d + 1 <= pos[r] /\ pos[r] < d + Capacity BY <3>1, <3>2, <2>0, <1>2
    <3> QED BY <3>1, <3>3, <2>0, <1>4
  <2> QED BY <2>0, <2>1, <2>2, <1>2
<1>8. WritersDiffer' BY <1>0 DEF WritersDiffer, writes
<1>9. ConsumerInv' BY <1>0 DEF ConsumerInv
<1> QED BY <1>1, <1>5, <1>6, <1>7, <1>8, <1>9

\* dequeuePos_ catches up with the cell given back.
LEMMA AdvanceStep == ASSUME QueueInv, popAdvances PROVE QueueInv'
<1> USE DEF QueueInv, pushing, popping
<1>0. /\ UNCHANGED <<sequence, item, enqueuePos, at, pos, mine, got, pushed>>
      /\ popAt = "advance" /\ popAt' = "idle" /\ dequeuePos' = dequeuePos + 1
  BY DEF popAdvances
<1>1. TypeOK' BY TypeStep DEF Next, Popping
<1>2. head' = head BY <1>0 DEF head
<1>3. PositionsInv' BY <1>0, <1>2 DEF PositionsInv
<1>4. CellsInv' BY <1>0, <1>2 DEF CellsInv
<1>5. ProducersInv' BY <1>0, <1>2 DEF ProducersInv, writes
<1>6. WritersDiffer' BY <1>0 DEF WritersDiffer, writes
<1>7. ConsumerInv' BY <1>0 DEF ConsumerInv
<1> QED BY <1>1, <1>3, <1>4, <1>5, <1>6, <1>7

\* QueueInv is inductive.
LEMMA QueueStep == QueueInv /\ [Next]_vars => QueueInv'
<1> SUFFICES ASSUME QueueInv, [Next]_vars PROVE QueueInv' OBVIOUS
<1>1. ASSUME NEW p \in Producers, Pushing(p) PROVE QueueInv'
  BY <1>1, LookStep, WinStep, FillStep, PublishStep DEF Pushing
<1>2. CASE Popping
  BY <1>2, ReadStep, ReleaseStep, AdvanceStep DEF Popping
<1>3. CASE UNCHANGED vars
  BY <1>3 DEF vars, pushing, popping, QueueInv, TypeOK, PositionsInv, CellsInv, ProducersInv,
              WritersDiffer, ConsumerInv, head, writes
<1> QED BY <1>1, <1>2, <1>3 DEF Next

\* The invariant holds in every state of the queue.
THEOREM QueueInvariant == Spec => []QueueInv
<1> QED BY InitQueue, QueueStep, PTL DEF Spec

-----------------------------------------------------------------------------

\* The consumer of mpsc_queue.h's pop gets, position by position, the item
\* of the push that won the position, for any producers and capacity.
THEOREM PopsWhatWasPushedTheorem == Spec => []PopsWhatWasPushed
<1>1. QueueInv => PopsWhatWasPushed
  BY DEF QueueInv, TypeOK, PositionsInv, ConsumerInv, PopsWhatWasPushed, head
<1> QED BY <1>1, QueueInvariant, PTL

\* A step in which push gives up: its cell lags, so the round is full.
LEMMA RefusalMeetsFullQueue ==
    ASSUME QueueInv, [Next]_vars, NEW p \in Producers, at[p] = "check", at'[p] = "idle"
    PROVE  enqueuePos - dequeuePos >= Capacity
<1> USE DEF QueueInv
<1>1. refuse(p)
  <2>1. ASSUME NEW r \in Producers, Pushing(r) PROVE refuse(p)
    BY <2>1 DEF Pushing, push, cellIsFree, refuse, reload, win, lose, fill, publish, TypeOK
  <2>2. CASE Popping BY <2>2 DEF Popping, popFinds, popReads, popReleases, popAdvances, pushing
  <2>3. CASE UNCHANGED vars BY <2>3 DEF vars, pushing
  <2> QED BY <2>1, <2>2, <2>3 DEF Next
<1> DEFINE n == pos[p]
           h == head
<1>2. /\ n \in Nat /\ h \in Nat /\ enqueuePos \in Nat /\ dequeuePos \in Nat /\ dequeuePos <= h
      /\ n <= enqueuePos /\ enqueuePos <= h + Capacity /\ Capacity \in Nat
  BY QueueAssumption DEF TypeOK, head, ProducersInv, PositionsInv
<1>3. sequence[cell(n)] \in Nat /\ sequence[cell(n)] < n
  BY <1>1, <1>2, CellType DEF refuse, lag, TypeOK
<1>4. ASSUME n < h + Capacity PROVE FALSE
  <2>1. PICK q \in Nat : h <= q /\ q < h + Capacity /\ cell(q) = cell(n) /\ n <= q
    <3>1. CASE h <= n BY <3>1, <1>2, <1>4
    <3>2. CASE n < h BY <3>2, <1>2, Rounds
    <3> QED BY <3>1, <3>2, <1>2
  <2>2. sequence[cell(q)] \in {q, q + 1} BY <2>1 DEF CellsInv
  <2> QED BY <2>1, <2>2, <1>2, <1>3
<1> QED BY <1>2, <1>4

\* Producers that overtake each other never make push give up: it counts an
\* item as dropped only with Capacity positions won and not given back.
THEOREM RefusesOnlyWhenFullTheorem == Spec => RefusesOnlyWhenFull
<1>1. QueueInv /\ [Next]_vars =>
        [\A p \in Producers : at[p] = "check" /\ at'[p] = "idle"
             => enqueuePos - dequeuePos >= Capacity]_vars
  BY RefusalMeetsFullQueue
<1> QED BY <1>1, QueueInvariant, PTL DEF Spec, RefusesOnlyWhenFull

=============================================================================
