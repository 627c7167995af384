--------------------------- MODULE TopologyProofs ---------------------------
(***************************************************************************)
(* Proofs about SessionTopology, for any devices, indices, serials, slots,  *)
(* tokens and readers: a frame reaches the pad it names, the hot table says *)
(* what the cold state says, the pool and the backend agree with the pads,  *)
(* a change reports what it did, and published pads never change without a  *)
(* new epoch or token.                                                      *)
(*                                                                         *)
(* The inductive invariant says where a change is (PhaseInv), which slot    *)
(* and token a connection has (ConnInv), how far the hot table lags behind  *)
(* (TableInv), what is left to do for each pad of the change (PlanInv), who *)
(* holds each serial (PoolInv) and what a reader may still rely on          *)
(* (ReaderInv).                                                             *)
(***************************************************************************)
EXTENDS SessionTopology, TLAPS

Changing == op.kind \in {"upsert", "apply"}
Closing  == op.kind \in {"close", "closeAll"}

\* The session of an upsert is not adopted yet.
BeforeAdopt == publishesSession /\ phase \in {"plan", "open", "plug"}

\* Where a change may be, and what it has left behind between its steps.
PhaseInv ==
    /\ phase = "idle" => op = NoOp
    /\ phase \in {"plan", "open", "plug", "commit", "token", "allocate"} => Changing
    /\ phase = "retire" => Closing
    /\ phase \in {"grace", "unplug", "finish"} => Changing \/ Closing
    /\ ~Changing => round = 1 /\ todo = {} /\ change = [i \in Idx |-> NoChange]
    /\ phase = "token" => publishesSession
    /\ phase \in {"plan", "allocate"} => round = 1
    /\ phase \in {"idle", "open", "grace", "token", "unplug", "finish", "retire"} => todo = {}
    /\ phase \notin {"commit", "grace", "token", "retire", "unplug"} => retired = {}
    /\ round = 2 => retired = {} /\ phase # "unplug"
    /\ phase # "unplug" => unplugged = {} /\ stuck = {}
    /\ phase # "grace" => scan = {} /\ waited = {}
    /\ reopened => phase = "plug" /\ quarantined = {}

\* The backend call under way.
CallInv ==
    /\ calling.call = "none" => calling = NoCall
    /\ calling.call = "plug" =>
         phase = "plug" /\ \E i \in todo : change[i].serial = calling.serial
    /\ calling.call = "unplug" => phase = "unplug" /\ calling.serial \in retired
    /\ calling.call = "closeBus" =>
         /\ calling.serial = 0 /\ phase = "finish" /\ busOpen
         /\ \A d \in live, i \in Idx : serial[d][i] = 0

\* Connections have slots and tokens of their own.
ConnInv ==
    /\ \A d \in live : slotOf[d] \in Slots /\ tokenOf[d] \in Tokens
    /\ \A d \in Devices \ live :
         slotOf[d] = 0 /\ tokenOf[d] = 0 /\ serial[d] = NoPads /\ desc[d] = NoDescs
    /\ \A d, e \in live : slotOf[d] = slotOf[e] \/ tokenOf[d] = tokenOf[e] => d = e
    /\ Changing =>
         /\ op.dev \in Devices /\ op.slot \in Slots
         /\ op.dev \in live => slotOf[op.dev] = op.slot
         /\ op.dev \notin live => BeforeAdopt /\ \A d \in live : slotOf[d] # op.slot
    /\ publishesSession =>
         /\ op.token \in Tokens
         /\ IF BeforeAdopt THEN \A d \in live : tokenOf[d] # op.token
            ELSE tokenOf[op.dev] = op.token
    /\ Closing =>
         /\ op.doomed \subseteq live
         /\ phase = "grace" =>
              /\ op.dev \in live \ op.doomed /\ slotOf[op.dev] = op.slot
              /\ serial[op.dev] = NoPads /\ desc[op.dev] = NoDescs
         /\ phase \in {"unplug", "finish"} => op.doomed = {}
    /\ op.kind = "closeAll" =>
         live \subseteq op.doomed \cup (IF phase = "grace" THEN {op.dev} ELSE {})

\* The hot table: a slot nobody has is empty, ...
UnownedEmpty ==
    \A k \in Slots : (\A d \in live : slotOf[d] # k) => packed[k] = 0 /\ hot[k] = EmptySlot

\* ... a connection's slot is current unless the change is about to publish it, ...
Image(d) ==
    [token |-> tokenOf[d], pads |-> serial[d], descs |-> desc[d], writing |-> FALSE]
SlotsCurrent ==
    \A d \in live : d # op.dev \/ phase \notin {"commit", "grace", "token"} =>
        packed[slotOf[d]] = tokenOf[d] /\ hot[slotOf[d]] = Image(d)

\* ... the change's own slot lags behind by what the change has done, ...
OwnSlotLags ==
    /\ phase \in {"commit", "grace"} =>
         /\ hot[op.slot].writing <=> phase = "grace"
         /\ IF publishesSession THEN hot[op.slot].token # op.token
            ELSE hot[op.slot].token = tokenOf[op.dev]
         /\ Changing /\ ~publishesSession => packed[op.slot] = tokenOf[op.dev]
         /\ Closing => packed[op.slot] = 0
         /\ Changing /\ hot[op.slot].pads # serial[op.dev] => bumps[op.dev] > 0
    /\ phase = "token" => hot[op.slot] = Image(op.dev)

\* ... no token is in the slot of another connection, and only a change that has pads to
\* publish has moved the epoch.
TokensInPlace ==
    \A d \in live, k \in Slots : hot[k].token = tokenOf[d] => slotOf[d] = k
BumpsPending ==
    \A d \in Devices : bumps[d] # 0 => d = op.dev /\ Changing /\ phase \in {"commit", "grace"}

TableInv == UnownedEmpty /\ SlotsCurrent /\ OwnSlotLags /\ TokensInPlace /\ BumpsPending

\* The plan the change has for a pad of its connection, and the pad as it is.
Kind(i)      == change[i].kind
Wanted(i)    == change[i].desc
Given(i)     == change[i].serial
Waits(i)     == change[i].waits
IsPlugged(i) == change[i].plugged
Result(i)    == change[i].result
Todo(i)      == i \in todo
PadSerial(i) == serial[op.dev][i]
PadDesc(i)   == desc[op.dev][i]

\* A pad of the change is not committed yet; a pad that waits is so until the second round.
First(i) ==
    round = 1 /\ (phase \in {"plan", "open", "plug"} \/ (phase = "commit" /\ Todo(i)))
Open(i) ==
    \/ First(i)
    \/ phase = "commit" /\ Todo(i)
    \/ Waits(i) /\ (round = 1 \/ phase \in {"open", "plug"})

InForce(i) == PadSerial(i) # 0 /\ PadDesc(i) = Wanted(i)

\* What a pad's plan looks like as the change goes on, ...
PlanShape(i) ==
    /\ Kind(i) = "unplanned" <=> phase = "plan" /\ Todo(i)
    /\ Kind(i) = "unplanned" => Result(i) = "ok" /\ Wanted(i) \in Descs
    /\ Kind(i) \in {"update", "add", "replug", "inPlace"} =>
         Wanted(i) \in Descs /\ Wanted(i).type \in Supported
    /\ Waits(i) => Kind(i) \in {"add", "inPlace"}
    /\ Kind(i) = "inPlace" => Waits(i)
    /\ Given(i) # 0 => Kind(i) \in {"add", "replug", "inPlace"}
    /\ IsPlugged(i) => Given(i) # 0
    /\ Waits(i) /\ round = 1 =>
         Given(i) = 0 \/ (phase = "allocate" /\ ~Todo(i))
    /\ Waits(i) /\ (round = 1 \/ phase = "open") => ~IsPlugged(i)
    /\ round = 1 /\ phase \in {"plan", "open"} => ~IsPlugged(i)
    /\ Todo(i) /\ phase \in {"plug", "commit"} /\ round = 2 => Waits(i)
    /\ Todo(i) /\ phase = "plug" =>
         /\ Kind(i) \in {"add", "replug", "inPlace"} /\ Given(i) # 0
         /\ ~IsPlugged(i)
    /\ Todo(i) /\ phase = "commit" =>
         /\ Kind(i) \notin {"none", "unplanned", "refuse"}
         /\ round = 1 /\ Kind(i) = "add" => ~Waits(i)
    /\ Todo(i) /\ phase = "allocate" => Waits(i)
    /\ phase = "finish" /\ round = 1 => ~Waits(i)

\* ... and what it has come to: what the change will answer is what is in force.
PlanOutcome(i) ==
    /\ Kind(i) = "refuse" =>
         Result(i) = "invalidType" /\ Wanted(i).type \notin Supported
    /\ Kind(i) = "remove" /\ First(i) => PadSerial(i) # 0
    /\ Kind(i) = "update" =>
         /\ Result(i) = "ok" /\ PadSerial(i) # 0
         /\ IF First(i) THEN PadDesc(i).type = Wanted(i).type
            ELSE PadDesc(i) = Wanted(i)
    /\ Kind(i) = "replug" =>
         /\ PadSerial(i) # 0
         /\ IF First(i) THEN Result(i) = "ok"
            ELSE Result(i) = "ok" <=> PadDesc(i) = Wanted(i)
         /\ First(i) => PadDesc(i).type # Wanted(i).type
    /\ Kind(i) = "inPlace" /\ First(i) =>
         Result(i) = "ok" /\ PadSerial(i) # 0
    /\ Open(i) /\ (Kind(i) = "add" \/ (Kind(i) = "inPlace" /\ ~First(i))) =>
         Result(i) = "ok" /\ PadSerial(i) = 0
    /\ Kind(i) \in {"add", "inPlace"} /\ ~Open(i) =>
         (Result(i) = "ok" <=> InForce(i))

PlanInv == \A i \in Idx : PlanShape(i) /\ PlanOutcome(i)

\* A serial the change has allocated and not committed.
Claims(i) ==
    /\ change[i].kind \in {"add", "replug", "inPlace"} /\ ToCommit(i)
    /\ change[i].serial # 0

\* An active pad holds its serial, which the backend has plugged for it; ...
PadHeld(d, i) ==
    /\ serial[d][i] \in inUse /\ serial[d][i] \in plugged
    /\ serial[d][i] \notin retired \cup unplugged \cup stuck
    /\ bound[serial[d][i]] = [dev |-> d, idx |-> i, type |-> desc[d][i].type]
    /\ desc[d][i].type \in Supported
PadsHeld == \A d \in live, i \in Idx : serial[d][i] # 0 => PadHeld(d, i)
PadsApart ==
    \A d, e \in live, i, j \in Idx :
        serial[d][i] = serial[e][j] /\ serial[d][i] # 0 => d = e /\ i = j

\* ... a claim holds a serial no pad has, which is plugged once the change plugged it; ...
ClaimHeld(i) ==
    /\ change[i].serial \in inUse
    /\ change[i].serial \notin retired \cup unplugged \cup stuck
    /\ change[i].serial \in plugged <=> change[i].plugged
    /\ change[i].plugged => bound[change[i].serial] =
          [dev |-> op.dev, idx |-> i, type |-> change[i].desc.type]
    /\ \A d \in live, j \in Idx : serial[d][j] # change[i].serial
ClaimsHeld == \A i \in Idx : Claims(i) => ClaimHeld(i)
ClaimsApart ==
    \A i, j \in Idx :
        Claims(i) /\ Claims(j) /\ change[i].serial = change[j].serial => i = j

\* ... nobody else holds one; and what is plugged is in use or quarantined.
InUseHeld ==
    \A s \in inUse :
        \/ s \in retired \cup unplugged \cup stuck
        \/ \E d \in live, i \in Idx : serial[d][i] = s
        \/ \E i \in Idx : Claims(i) /\ change[i].serial = s
PoolSets ==
    /\ retired \cup unplugged \cup stuck \subseteq inUse
    /\ retired \cup stuck \cup quarantined \subseteq plugged
    /\ unplugged \cap plugged = {} /\ retired \cap stuck = {}
    /\ inUse \cap quarantined = {}
    /\ (phase = "finish" /\ op.kind = "closeAll") \/ plugged \subseteq inUse \cup quarantined
    /\ ~busOpen => plugged = {}
    /\ phase = "plug" /\ todo # {} => busOpen
    /\ phase = "idle" /\ busOpen => \E d \in live, i \in Idx : serial[d][i] # 0

PoolInv == PadsHeld /\ PadsApart /\ ClaimsHeld /\ ClaimsApart /\ InUseHeld /\ PoolSets

\* A published pad is in force, or retired by the change and not yet unplugged.
Published(d, i) ==
    LET s == hot[slotOf[d]].pads[i] IN
    s # 0 => /\ bound[s].dev = d /\ bound[s].idx = i
             /\ \/ serial[d][i] = s
                \/ d = op.dev /\ phase \in {"commit", "grace"} /\ s \in retired
PublishedInv == \A d \in live, i \in Idx : Published(d, i)

\* What a reader may rely on inside its bracket.
Relies(r) ==
    /\ rx[r].pc = "out" => rx[r].token = 0
    /\ BeforeAdopt => rx[r].token # op.token
    /\ rx[r].pc # "out" =>
         /\ rx[r].dev \in Devices /\ rx[r].idx \in Idx /\ rx[r].token \in Tokens
         /\ \A d \in live : tokenOf[d] = rx[r].token => d = rx[r].dev
         /\ \A k \in Slots :
              hot[k].token = rx[r].token => rx[r].dev \in live /\ slotOf[rx[r].dev] = k
    /\ rx[r].pc = "found" => rx[r].slot \in Slots
    /\ rx[r].pc = "submit" =>
         /\ rx[r].dev \in live /\ rx[r].serial # 0
         /\ hot[slotOf[rx[r].dev]].pads[rx[r].idx] = rx[r].serial
         /\ hot[slotOf[rx[r].dev]].writing => r \in scan \cup waited

ReaderInv == \A r \in Readers : Relies(r)

IInv ==
    /\ TypeOK /\ PhaseInv /\ CallInv /\ ConnInv /\ TableInv /\ PlanInv /\ PoolInv
    /\ PublishedInv /\ ReaderInv

\* What the code's searches return: allocateSerial a free serial or 0, and a scan of slots a
\* slot it looked for.
Searches ==
    /\ IF Free = {} THEN allocateSerial = 0 ELSE allocateSerial \in Free
    /\ \A S \in SUBSET Slots : S # {} => Min(S) \in S
=============================================================================
