----------------------------- MODULE MpscQueue -----------------------------
(***************************************************************************)
(* The bounded queue of many producers and one consumer                    *)
(* (core/mpsc_queue.h) that carries log records and pointer commands.      *)
(*                                                                         *)
(* A position is won by a compare-and-swap of enqueuePos_ and its cell is  *)
(* filled afterwards; the cell's sequence number tells both sides whose    *)
(* turn it is.  Positions are 64-bit in the code and never wrap here.      *)
(***************************************************************************)
EXTENDS Integers, Sequences

CONSTANTS Producers, Items, Capacity

ASSUME QueueAssumption == Capacity \in Nat /\ Capacity >= 2  \* the static_assert

VARIABLES
    sequence,    \* [0 .. Capacity-1 -> Nat]: the cells' sequence numbers
    item,        \* [0 .. Capacity-1 -> Items]: what the cells hold
    enqueuePos,
    dequeuePos,
    at, pos, mine,  \* functions on Producers: where a push is, its position and item
    popAt, got,     \* where the pop is, and the item it read
    pushed       \* history: the items of the positions won, in order

pushing == <<at, pos, mine>>
popping == <<popAt, got>>
vars == <<sequence, item, enqueuePos, dequeuePos, pushing, popping, pushed>>

Cells == 0 .. Capacity - 1
cell(n) == n % Capacity

Init ==
    /\ sequence = [i \in Cells |-> i]
    /\ item \in [Cells -> Items]
    /\ enqueuePos = 0
    /\ dequeuePos = 0
    /\ at = [p \in Producers |-> "idle"]
    /\ pos = [p \in Producers |-> 0]
    /\ mine \in [Producers -> Items]
    /\ popAt = "idle"
    /\ got \in Items
    /\ pushed = <<>>

-----------------------------------------------------------------------------
(* push *)

\* A push of v begins with a load of enqueuePos_.
push(p, v) ==
    /\ at[p] = "idle"
    /\ at' = [at EXCEPT ![p] = "check"]
    /\ pos' = [pos EXCEPT ![p] = enqueuePos]
    /\ mine' = [mine EXCEPT ![p] = v]
    /\ UNCHANGED <<sequence, item, enqueuePos, dequeuePos, popping, pushed>>

lag(p) == sequence[cell(pos[p])] - pos[p]

\* The cell is free for this position: try to win it.
cellIsFree(p) ==
    /\ at[p] = "check"
    /\ lag(p) = 0
    /\ at' = [at EXCEPT ![p] = "swap"]
    /\ UNCHANGED <<sequence, item, enqueuePos, dequeuePos, pos, mine, popping, pushed>>

\* The cell still holds the item of a round ago: the queue is full, and the
\* push counts as dropped.
refuse(p) ==
    /\ at[p] = "check"
    /\ lag(p) < 0
    /\ at' = [at EXCEPT ![p] = "idle"]
    /\ UNCHANGED <<sequence, item, enqueuePos, dequeuePos, pos, mine, popping, pushed>>

\* Another push won the position: load enqueuePos_ again.
reload(p) ==
    /\ at[p] = "check"
    /\ lag(p) > 0
    /\ pos' = [pos EXCEPT ![p] = enqueuePos]
    /\ UNCHANGED <<sequence, item, enqueuePos, dequeuePos, at, mine, popping, pushed>>

\* Mutant: a load and a store instead of the compare-and-swap.
win_NoCompare(p) ==
    /\ at[p] = "swap"
    /\ enqueuePos' = pos[p] + 1
    /\ at' = [at EXCEPT ![p] = "write"]
    /\ pushed' = Append(pushed, mine[p])
    /\ UNCHANGED <<sequence, item, dequeuePos, pos, mine, popping>>

\* compare_exchange_weak succeeds.
win(p) ==
    /\ at[p] = "swap"
    /\ enqueuePos = pos[p]
    /\ enqueuePos' = enqueuePos + 1
    /\ at' = [at EXCEPT ![p] = "write"]
    /\ pushed' = Append(pushed, mine[p])
    /\ UNCHANGED <<sequence, item, dequeuePos, pos, mine, popping>>

\* It fails, for a reason or spuriously, and loads the position.
lose(p) ==
    /\ at[p] = "swap"
    /\ at' = [at EXCEPT ![p] = "check"]
    /\ pos' = [pos EXCEPT ![p] = enqueuePos]
    /\ UNCHANGED <<sequence, item, enqueuePos, dequeuePos, mine, popping, pushed>>

\* The item is copied into the cell.
fill(p) ==
    /\ at[p] = "write"
    /\ item' = [item EXCEPT ![cell(pos[p])] = mine[p]]
    /\ at' = [at EXCEPT ![p] = "publish"]
    /\ UNCHANGED <<sequence, enqueuePos, dequeuePos, pos, mine, popping, pushed>>

\* The release store that hands the cell to the consumer.
publish(p) ==
    /\ at[p] = "publish"
    /\ sequence' = [sequence EXCEPT ![cell(pos[p])] = pos[p] + 1]
    /\ at' = [at EXCEPT ![p] = "idle"]
    /\ UNCHANGED <<item, enqueuePos, dequeuePos, pos, mine, popping, pushed>>

-----------------------------------------------------------------------------
(* pop; one that finds nothing changes nothing *)

popFinds ==
    /\ popAt = "idle"
    /\ sequence[cell(dequeuePos)] = dequeuePos + 1
    /\ popAt' = "read"
    /\ UNCHANGED <<sequence, item, enqueuePos, dequeuePos, pushing, got, pushed>>

popReads ==
    /\ popAt = "read"
    /\ popAt' = "release"
    /\ got' = item[cell(dequeuePos)]
    /\ UNCHANGED <<sequence, item, enqueuePos, dequeuePos, pushing, pushed>>

\* The cell goes to the producer a round ahead.
popReleases ==
    /\ popAt = "release"
    /\ sequence' = [sequence EXCEPT ![cell(dequeuePos)] = dequeuePos + Capacity]
    /\ popAt' = "advance"
    /\ UNCHANGED <<item, enqueuePos, dequeuePos, pushing, got, pushed>>

popAdvances ==
    /\ popAt = "advance"
    /\ dequeuePos' = dequeuePos + 1
    /\ popAt' = "idle"
    /\ UNCHANGED <<sequence, item, enqueuePos, pushing, got, pushed>>

-----------------------------------------------------------------------------
Pushing(p) ==
    \/ \E v \in Items : push(p, v)
    \/ cellIsFree(p) \/ refuse(p) \/ reload(p) \/ win(p) \/ lose(p) \/ fill(p) \/ publish(p)

Popping == popFinds \/ popReads \/ popReleases \/ popAdvances

Next == (\E p \in Producers : Pushing(p)) \/ Popping

Spec == Init /\ [][Next]_vars

-----------------------------------------------------------------------------
(* Properties *)

\* Every variable has its type.
TypeOK ==
    /\ sequence \in [Cells -> Nat]
    /\ item \in [Cells -> Items]
    /\ enqueuePos \in Nat
    /\ dequeuePos \in Nat
    /\ at \in [Producers -> {"idle", "check", "swap", "write", "publish"}]
    /\ pos \in [Producers -> Nat]
    /\ mine \in [Producers -> Items]
    /\ popAt \in {"idle", "read", "release", "advance"}
    /\ got \in Items
    /\ pushed \in Seq(Items) /\ Len(pushed) = enqueuePos

\* The consumer gets at every position the item of the push that won it: none
\* is lost, doubled, torn or overtaken.
PopsWhatWasPushed ==
    popAt \in {"release", "advance"} =>
        /\ dequeuePos < enqueuePos
        /\ got = pushed[dequeuePos + 1]

\* A push is refused only while Capacity positions are won and not given
\* back: producers that overtake each other are not mistaken for a full queue.
RefusesOnlyWhenFull ==
    [][\A p \in Producers : at[p] = "check" /\ at'[p] = "idle"
           => enqueuePos - dequeuePos >= Capacity]_vars

=============================================================================
