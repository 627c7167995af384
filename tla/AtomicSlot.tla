----------------------------- MODULE AtomicSlot -----------------------------
(***************************************************************************)
(* What a hot-table slot promises its users: a value that is replaced and   *)
(* read in single steps.  A replacement is announced (open), refuses new    *)
(* readers, and takes place only once no participant holds the old value;   *)
(* a guest may keep a copy of it.                                           *)
(***************************************************************************)
EXTENDS Naturals

CONSTANTS Readers, Guests, Words

VARIABLES
    content,  \* the replacement the slot holds, counted from 0
    open,     \* whether a replacement is announced
    held      \* held[r]: the words a reader holds, if it holds any

Init ==
    /\ content = 0
    /\ open = FALSE
    /\ held = [r \in Readers \cup Guests |-> <<>>]

Announce ==
    /\ ~open /\ open' = TRUE
    /\ UNCHANGED <<content, held>>

Replace ==
    /\ open /\ open' = FALSE
    /\ \A r \in Readers : held[r] = <<>>
    /\ content' = content + 1
    /\ UNCHANGED held

Take(r) ==
    /\ ~open /\ held[r] = <<>>
    /\ held' = [held EXCEPT ![r] = <<[w \in Words |-> content]>>]
    /\ UNCHANGED <<content, open>>

Drop(r) ==
    /\ held' = [held EXCEPT ![r] = <<>>]
    /\ UNCHANGED <<content, open>>

Next ==
    \/ Announce \/ Replace
    \/ \E r \in Readers \cup Guests : Take(r) \/ Drop(r)

Spec == Init /\ [][Next]_<<content, open, held>>
=============================================================================
