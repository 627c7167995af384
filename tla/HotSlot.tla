------------------------------ MODULE HotSlot ------------------------------
(***************************************************************************)
(* One slot of the hot table (src/core/hot_table.h), word by word: the      *)
(* seqlock of HotSlot, the brackets of RxEpoch and the grace wait of        *)
(* HotWrite.  One writer at a time (mtx_) replaces the slot's words; the    *)
(* participants of RxEpoch read them and use what they read until they      *)
(* leave their bracket.  Guests (getDecryptInfo, the workers' log lines)    *)
(* read without a bracket and keep a copy.                                  *)
(*                                                                         *)
(* A participant announces its bracket with a plain store.  Until a fence,  *)
(* a process barrier or time makes it visible, that store sits in the       *)
(* participant's store buffer: own[r] runs ahead of epoch[r].  The build    *)
(* either has a process barrier, and then the participants do without a     *)
(* fence, or it has none and every enter() pays for one.                    *)
(***************************************************************************)
EXTENDS Naturals

CONSTANTS
    Readers,         \* the participants of RxEpoch
    Guests,          \* threads that read the slot outside any bracket
    Words,           \* the words of the slot the writer replaces
    ProcessBarrier,  \* whether RxEpoch was given a barrier function
    MaxWrites,       \* bound: HotWrites of a run
    MaxBrackets      \* bound: brackets of a participant

ASSUME HotSlotAssumption ==
    /\ ProcessBarrier \in BOOLEAN
    /\ MaxWrites \in Nat
    /\ MaxBrackets \in Nat
    /\ Readers \cap Guests = {}

VARIABLES
    gen,      \* the seqlock's generation: odd while a write is open
    word,     \* word[w]: the write that last stored word w
    wpc,      \* where the writer is: "idle", "barrier", "scan", "store"
    writes,   \* HotWrites begun so far; the open one stores this number
    unstored, \* words the open write has still to store
    unseen,   \* participants waitQuiescent has not looked at yet
    seen,     \* seen[r]: the odd epoch waitOut saw, 0 when it need not wait
    own,      \* own[r]: the participant's epoch as it stored it
    epoch,    \* epoch[r]: the epoch as the writer can see it
    rpc,      \* where the participant is: "out", "in", "load", "use", "left"
    before,   \* before[r]: the generation its read began with
    got,      \* got[r]: the words its read has loaded so far
    value     \* value[r][w]: what it loaded

writer == <<gen, word, wpc, writes, unstored, unseen, seen>>
reader == <<own, epoch, rpc, before, got, value>>
vars   == <<writer, reader>>

Odd(n) == n % 2 = 1
All == Readers \cup Guests

Init ==
    /\ gen = 0
    /\ word = [w \in Words |-> 0]
    /\ wpc = "idle" /\ writes = 0 /\ unstored = {} /\ unseen = {}
    /\ seen = [r \in Readers |-> 0]
    /\ own = [r \in Readers |-> 0]
    /\ epoch = [r \in Readers |-> 0]
    /\ rpc = [r \in All |-> "out"]
    /\ before = [r \in All |-> 0]
    /\ got = [r \in All |-> {}]
    /\ value = [r \in All |-> [w \in Words |-> 0]]
-----------------------------------------------------------------------------
(* HotWrite: beginWrite and waitQuiescent, then the stores, then close().   *)

beginWrite ==
    /\ wpc = "idle" /\ writes < MaxWrites
    /\ gen' = gen + 1
    /\ writes' = writes + 1
    /\ wpc' = "barrier"
    /\ UNCHANGED <<word, unstored, unseen, seen, reader>>

\* The process barrier drains every participant's store buffer; without one the
\* writer's own fence orders nothing but the writer.
barrier ==
    /\ wpc = "barrier"
    /\ epoch' = IF ProcessBarrier THEN own ELSE epoch
    /\ wpc' = "scan"
    /\ unseen' = Readers
    /\ seen' = [r \in Readers |-> 0]
    /\ UNCHANGED <<gen, word, writes, unstored, own, rpc, before, got, value>>

\* waitOut's first load of a participant's epoch.
look(r) ==
    /\ wpc = "scan" /\ r \in unseen
    /\ unseen' = unseen \ {r}
    /\ seen' = [seen EXCEPT ![r] = IF Odd(epoch[r]) THEN epoch[r] ELSE 0]
    /\ UNCHANGED <<gen, word, wpc, writes, unstored, reader>>

\* Every participant seen inside a bracket has moved on.
quiescent ==
    /\ wpc = "scan" /\ unseen = {}
    /\ \A r \in Readers : seen[r] # 0 => epoch[r] # seen[r]
    /\ wpc' = "store"
    /\ unstored' = Words
    /\ UNCHANGED <<gen, word, writes, unseen, seen, reader>>

\* The stores are relaxed and may become visible in any order.
storeWord(w) ==
    /\ wpc = "store" /\ w \in unstored
    /\ word' = [word EXCEPT ![w] = writes]
    /\ unstored' = unstored \ {w}
    /\ UNCHANGED <<gen, wpc, writes, unseen, seen, reader>>

endWrite ==
    /\ wpc = "store" /\ unstored = {}
    /\ gen' = gen + 1
    /\ wpc' = "idle"
    /\ UNCHANGED <<word, writes, unstored, unseen, seen, reader>>
-----------------------------------------------------------------------------
(* A reader: enter, read, use what was read, exit.  A guest only reads.     *)

enter(r) ==
    /\ r \in Readers /\ rpc[r] = "out" /\ own[r] < 2 * MaxBrackets
    /\ own' = [own EXCEPT ![r] = @ + 1]
    /\ epoch' = IF ProcessBarrier THEN epoch ELSE [epoch EXCEPT ![r] = own'[r]]
    /\ rpc' = [rpc EXCEPT ![r] = "in"]
    /\ UNCHANGED <<writer, before, got, value>>

visit(r) ==
    /\ r \in Guests /\ rpc[r] = "out"
    /\ rpc' = [rpc EXCEPT ![r] = "in"]
    /\ UNCHANGED <<writer, own, epoch, before, got, value>>

\* A buffered epoch store becomes visible, oldest first.
drain(r) ==
    /\ r \in Readers /\ epoch[r] < own[r]
    /\ epoch' = [epoch EXCEPT ![r] = @ + 1]
    /\ UNCHANGED <<writer, own, rpc, before, got, value>>

\* Mutant: an odd generation is not refused.
readBeginAnyway(r) ==
    /\ rpc[r] = "in"
    /\ before' = [before EXCEPT ![r] = gen]
    /\ got' = [got EXCEPT ![r] = {}]
    /\ rpc' = [rpc EXCEPT ![r] = "load"]
    /\ UNCHANGED <<writer, own, epoch, value>>

\* The head of HotSlot::read: a write in progress refuses the read.
readBegin(r) ==
    /\ rpc[r] = "in"
    /\ before' = [before EXCEPT ![r] = gen]
    /\ got' = [got EXCEPT ![r] = {}]
    /\ rpc' = [rpc EXCEPT ![r] = IF Odd(gen) THEN "left" ELSE "load"]
    /\ UNCHANGED <<writer, own, epoch, value>>

loadWord(r, w) ==
    /\ rpc[r] = "load" /\ w \in Words \ got[r]
    /\ value' = [value EXCEPT ![r][w] = word[w]]
    /\ got' = [got EXCEPT ![r] = @ \cup {w}]
    /\ UNCHANGED <<writer, own, epoch, rpc, before>>

\* The tail of HotSlot::read: the words are used only if no write intervened.
readEnd(r) ==
    /\ rpc[r] = "load" /\ got[r] = Words
    /\ rpc' = [rpc EXCEPT ![r] = IF gen = before[r] THEN "use" ELSE "left"]
    /\ UNCHANGED <<writer, own, epoch, before, got, value>>

exit(r) ==
    /\ rpc[r] \in {"use", "left"}
    /\ own' = IF r \in Readers THEN [own EXCEPT ![r] = @ + 1] ELSE own
    /\ rpc' = [rpc EXCEPT ![r] = "out"]
    /\ before' = [before EXCEPT ![r] = 0]
    /\ got' = [got EXCEPT ![r] = {}]
    /\ value' = [value EXCEPT ![r] = [w \in Words |-> 0]]
    /\ UNCHANGED <<writer, epoch>>

WriterStep ==
    \/ barrier \/ quiescent \/ endWrite
    \/ \E r \in Readers : look(r)
    \/ \E w \in Words : storeWord(w)

ReaderStep(r) ==
    \/ readBegin(r) \/ readEnd(r) \/ exit(r)
    \/ \E w \in Words : loadWord(r, w)

Next ==
    \/ beginWrite \/ WriterStep
    \/ \E r \in All : enter(r) \/ visit(r) \/ drain(r) \/ ReaderStep(r)

Spec == Init /\ [][Next]_vars
-----------------------------------------------------------------------------
\* Every word of the slot, the writer and the readers stays in its type.
TypeOK ==
    /\ gen \in Nat /\ writes \in Nat
    /\ word \in [Words -> Nat]
    /\ wpc \in {"idle", "barrier", "scan", "store"}
    /\ unstored \subseteq Words /\ unseen \subseteq Readers
    /\ seen \in [Readers -> Nat]
    /\ own \in [Readers -> Nat] /\ epoch \in [Readers -> Nat]
    /\ rpc \in [All -> {"out", "in", "load", "use", "left"}]
    /\ before \in [All -> Nat]
    /\ got \in [All -> SUBSET Words]
    /\ value \in [All -> [Words -> Nat]]

\* A reader that accepts what it read holds one write's words, never a mixture, also
\* without a bracket: what the generation check of HotSlot::read is for.
ReadsAreWhole ==
    \A r \in All : rpc[r] = "use" => \A v, w \in Words : value[r][v] = value[r][w]

\* No word is replaced while a participant still uses what it read from the slot: the
\* grace wait of HotWrite.  Session teardown rests on it (no submit after an unplug).
NoStoreUnderAReader ==
    wpc = "store" => \A r \in Readers : rpc[r] # "use"

\* What a participant uses is what the slot holds now, not an earlier content.
UsedIsCurrent ==
    \A r \in Readers : rpc[r] = "use" => \A w \in Words : value[r][w] = word[w]

\* The slot behaves like one value that is replaced and read in single steps.
Atomic == INSTANCE AtomicSlot WITH
    content <- IF wpc = "idle" THEN writes ELSE writes - 1,
    open    <- wpc # "idle",
    held    <- [r \in All |-> IF rpc[r] = "use" THEN <<value[r]>> ELSE <<>>]

ImplementsAtomicSlot == Atomic!Spec
=============================================================================
