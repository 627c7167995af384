-------------------------- MODULE SessionTopology --------------------------
(***************************************************************************)
(* The topology changes of SessionService (src/core/session_service.cpp):   *)
(* sessions are opened, rotated and closed, pads are plugged, replugged and *)
(* unplugged, while the receive thread and the mic worker keep submitting   *)
(* frames through the hot table without taking a lock.                      *)
(*                                                                         *)
(* One change runs at a time (topoMtx_).  It plans under mtx_, plugs with   *)
(* no lock, commits and publishes under mtx_, waits out the readers that    *)
(* may hold what it replaces, unplugs with no lock, settles the serial pool *)
(* and, when pads waited for a serial, goes round once more.                *)
(***************************************************************************)
EXTENDS Naturals, FiniteSets, FiniteSetsExt

CONSTANTS
    Devices,      \* paired devices: a device has at most one connection
    Idx,          \* controller indices of a connection
    NSerials,     \* MAX_BACKEND_CONTROLLERS
    NSlots,       \* MAX_SESSIONS
    Types,        \* controller types a descriptor may name
    Supported,    \* the types some backend can materialize
    Infos,        \* caps, touchpad mode and preferred backend of a descriptor
    Tokens,       \* tokens the generator draws from
    Readers       \* participants of RxEpoch that submit to the backend

ASSUME ConstantsAssumption ==
    /\ NSerials \in Nat \ {0}
    /\ NSlots \in Nat \ {0}
    /\ 0 \notin Tokens
    /\ Supported \subseteq Types
    /\ IsFiniteSet(Devices) /\ IsFiniteSet(Idx)

Serials == 1..NSerials
Slots   == 1..NSlots
Descs   == [type : Types, info : Infos]
NoDesc  == [type |-> "none", info |-> "none"]
NoPads  == [i \in Idx |-> 0]
NoDescs == [i \in Idx |-> NoDesc]

VARIABLES
    \* connections_ and their controllers, the cold state under mtx_
    live,         \* devices that have a connection
    slotOf,       \* the connection's hot slot
    tokenOf,      \* its current token
    serial,       \* serial[d][i]: the controller's serial, 0 when inactive
    desc,         \* desc[d][i]: the descriptor applied to it
    bumps,        \* how far the connection's epoch is ahead of the published one
    \* the serial pool under mtx_
    inUse, quarantined, scanStart,
    \* the backend
    busOpen, plugged, bound, calling,
    \* the hot table
    packed,       \* HotTable::tokens
    hot,          \* HotTable::slots
    \* the change under topoMtx_
    phase, op, round, change, todo, retired, unplugged, stuck, reopened, scan, waited,
    \* the lock-free readers
    rx

cold    == <<live, slotOf, tokenOf, serial, desc, bumps>>
pool    == <<inUse, quarantined, scanStart>>
backend == <<busOpen, plugged, bound, calling>>
table   == <<packed, hot>>
topo    == <<phase, op, round, change, todo, retired, unplugged, stuck, reopened, scan, waited>>
vars    == <<cold, pool, backend, table, topo, rx>>

NoCall   == [call |-> "none", serial |-> 0]
NoBound  == [dev |-> "none", idx |-> "none", type |-> "none"]
NoOp     == [kind |-> "none", dev |-> "none", slot |-> 0, token |-> 0, doomed |-> {}]
NoChange == [kind |-> "none", desc |-> NoDesc, serial |-> 0, retiring |-> 0,
             waits |-> FALSE, busDown |-> FALSE, plugged |-> FALSE, result |-> "ok"]
EmptySlot == [token |-> 0, pads |-> NoPads, descs |-> NoDescs, writing |-> FALSE]
IdleRx   == [pc |-> "out", dev |-> "none", token |-> 0, idx |-> "none", slot |-> 0, serial |-> 0]

Init ==
    /\ live = {}
    /\ slotOf = [d \in Devices |-> 0]
    /\ tokenOf = [d \in Devices |-> 0]
    /\ serial = [d \in Devices |-> NoPads]
    /\ desc = [d \in Devices |-> NoDescs]
    /\ bumps = [d \in Devices |-> 0]
    /\ inUse = {} /\ quarantined = {} /\ scanStart = 0
    /\ busOpen = FALSE /\ plugged = {} /\ calling = NoCall
    /\ bound = [s \in Serials |-> NoBound]
    /\ packed = [k \in Slots |-> 0]
    /\ hot = [k \in Slots |-> EmptySlot]
    /\ phase = "idle" /\ op = NoOp /\ round = 1
    /\ change = [i \in Idx |-> NoChange] /\ todo = {}
    /\ retired = {} /\ unplugged = {} /\ stuck = {} /\ reopened = FALSE
    /\ scan = {} /\ waited = {}
    /\ rx = [r \in Readers |-> IdleRx]
-----------------------------------------------------------------------------
(* The serial pool.                                                         *)

Free == Serials \ (inUse \cup quarantined)

\* Distance of a serial from the round-robin cursor.
ScanDistance(s) == ((s - 1) + NSerials - scanStart) % NSerials

\* allocateSerial: the first free serial from the cursor on, 0 when none is free.
allocateSerial ==
    IF Free = {} THEN 0
    ELSE CHOOSE s \in Free : \A u \in Free : ScanDistance(s) <= ScanDistance(u)

\* What allocateSerial leaves behind once it returned s.
Allocated(s) ==
    /\ inUse' = inUse \cup ({s} \ {0})
    /\ scanStart' = IF s = 0 THEN scanStart ELSE s % NSerials
    /\ UNCHANGED quarantined

ActivePads == {p \in live \X Idx : serial[p[1]][p[2]] # 0}

FreeSlots == {k \in Slots : packed[k] = 0 /\ ~hot[k].writing}

\* generateUniqueToken avoids the live tokens; that a 32-bit token also differs
\* from those of the datagrams in flight is left to its randomness.
FreshTokens ==
    Tokens \ ({tokenOf[d] : d \in live} \cup {rx[r].token : r \in Readers})
-----------------------------------------------------------------------------
(* The seven operations that take topoMtx_.                                 *)

Ask(ds) == [NoChange EXCEPT !.kind = "unplanned", !.desc = ds]
planRemoval == [NoChange EXCEPT !.kind = "remove"]

Begin(kind, d, k, t) ==
    /\ phase = "idle"
    /\ op' = [kind |-> kind, dev |-> d, slot |-> k, token |-> t, doomed |-> {}]
    /\ phase' = "plan"
    /\ UNCHANGED <<cold, pool, backend, table, round, retired, unplugged,
                   stuck, reopened, scan, waited, rx>>

\* planSessionPadsLocked, of the deduplicated list of descriptors: an active pad it does
\* not name is removed.
planSessionPads(d, want) ==
    /\ change' = [i \in Idx |-> CASE want[i] # NoDesc -> Ask(want[i])
                                  [] want[i] = NoDesc /\ serial[d][i] # 0 -> planRemoval
                                  [] OTHER -> NoChange]
    /\ todo' = {i \in Idx : want[i] # NoDesc}

\* upsertSession: a new connection needs a free slot, and every session a fresh token.
upsertSession(d, want) ==
    /\ d \in live \/ FreeSlots # {}
    /\ \E t \in FreshTokens :
           Begin("upsert", d, IF d \in live THEN slotOf[d] ELSE Min(FreeSlots), t)
    /\ planSessionPads(d, want)

applyController(d, i, ds) ==
    /\ d \in live
    /\ Begin("apply", d, slotOf[d], 0)
    /\ change' = [change EXCEPT ![i] = Ask(ds)]
    /\ todo' = {i}

removeController(d, i) ==
    /\ d \in live
    /\ Begin("apply", d, slotOf[d], 0)
    /\ change' = [change EXCEPT ![i] = IF serial[d][i] # 0 THEN planRemoval ELSE NoChange]
    /\ todo' = {}

Close(kind, ds) ==
    /\ phase = "idle"
    /\ op' = [NoOp EXCEPT !.kind = kind, !.doomed = ds]
    /\ phase' = "retire"
    /\ UNCHANGED <<cold, pool, backend, table, round, change, todo, retired,
                   unplugged, stuck, reopened, scan, waited, rx>>

\* closeSessionById and closeSessionsForDevice: a device has one connection.
closeSession(d) == d \in live /\ Close("close", {d})

\* Every connection silent past its timeout and its grace goes in one pass.
reapTimedOut(ds) == ds # {} /\ ds \subseteq live /\ Close("close", ds)

closeAllSessions == Close("closeAll", live)
-----------------------------------------------------------------------------
(* Planning, under mtx_: what becomes of each pad, and its serial.          *)

\* planPadLocked
PlanPad(i) ==
    LET cur   == serial[op.dev][i]
        ds    == change[i].desc
        s     == allocateSerial
        plan(kind, sn) == [change EXCEPT ![i] = [@ EXCEPT !.kind = kind, !.serial = sn]]
        swaps == ds.type \in Supported /\ cur # 0 /\ ds.type # desc[op.dev][i].type
    IN
    /\ phase = "plan" /\ i \in todo
    /\ todo' = todo \ {i}
    /\ \/ /\ ds.type \notin Supported
          /\ change' = [change EXCEPT ![i] = [@ EXCEPT !.kind = "refuse", !.result = "invalidType"]]
          /\ UNCHANGED pool
       \/ /\ ds.type \in Supported /\ cur = 0
          /\ change' = plan("add", s) /\ Allocated(s)
       \/ /\ ds.type \in Supported /\ cur # 0 /\ ~swaps
          /\ change' = plan("update", 0) /\ UNCHANGED pool
       \/ /\ swaps /\ (busOpen => s # 0)
          /\ LET new == IF busOpen THEN s ELSE 0 IN change' = plan("replug", new) /\ Allocated(new)
       \/ /\ swaps /\ busOpen /\ s = 0
          /\ change' = [change EXCEPT ![i] = [@ EXCEPT !.kind = "inPlace", !.retiring = cur,
                                                        !.waits = TRUE]]
          /\ UNCHANGED pool
    /\ UNCHANGED <<cold, backend, table, phase, op, round, retired, unplugged, stuck,
                   reopened, scan, waited, rx>>

\* deferUnservedAdds: an add that found no serial waits when the change frees one.
FinishPlan ==
    LET retires == \E i \in Idx :
                       \/ change[i].kind \in {"inPlace", "remove"}
                       \/ change[i].kind = "replug" /\ change[i].serial # 0
    IN
    /\ phase = "plan" /\ todo = {}
    /\ change' = [i \in Idx |->
                     IF change[i].kind = "add" /\ change[i].serial = 0
                     THEN [change[i] EXCEPT !.waits = retires] ELSE change[i]]
    /\ phase' = "open"
    /\ UNCHANGED <<cold, pool, backend, table, op, round, todo, retired, unplugged, stuck,
                   reopened, scan, waited, rx>>
-----------------------------------------------------------------------------
(* plugPads, with no lock: open the bus if needed, then plug one by one.    *)

plugsInRound == {i \in Idx : /\ change[i].kind \in {"add", "replug", "inPlace"}
                             /\ change[i].serial # 0
                             /\ change[i].waits = (round = 2)}

ensureBusOpen(ok) ==
    /\ phase = "open"
    /\ busOpen' = (busOpen \/ (plugsInRound # {} /\ ok))
    /\ reopened' = (reopened \/ (~busOpen /\ busOpen'))
    /\ todo' = IF busOpen' THEN plugsInRound ELSE {}
    /\ change' = [i \in Idx |-> IF i \in plugsInRound
                                THEN [change[i] EXCEPT !.busDown = ~busOpen'] ELSE change[i]]
    /\ phase' = "plug"
    /\ UNCHANGED <<cold, pool, plugged, bound, calling, table, op, round, retired,
                   unplugged, stuck, scan, waited, rx>>

PlugStart(i) ==
    /\ phase = "plug" /\ calling = NoCall /\ i \in todo
    /\ calling' = [call |-> "plug", serial |-> change[i].serial]
    /\ UNCHANGED <<cold, pool, busOpen, plugged, bound, table, topo, rx>>

PlugDone(i, ok) ==
    LET s == change[i].serial IN
    /\ phase = "plug" /\ i \in todo /\ calling = [call |-> "plug", serial |-> s]
    /\ calling' = NoCall
    /\ todo' = todo \ {i}
    /\ plugged' = IF ok THEN plugged \cup {s} ELSE plugged
    /\ bound' = IF ok
                THEN [bound EXCEPT ![s] = [dev |-> op.dev, idx |-> i, type |-> change[i].desc.type]]
                ELSE bound
    /\ change' = [change EXCEPT ![i].plugged = ok]
    /\ UNCHANGED <<cold, pool, busOpen, table, phase, op, round, retired, unplugged, stuck,
                   reopened, scan, waited, rx>>
-----------------------------------------------------------------------------
(* Commit, under mtx_.                                                      *)

publishesSession == op.kind = "upsert" /\ round = 1

\* adoptSessionLocked for an upsert, then the head of commitPadsLocked.
BeginCommit ==
    /\ phase = "plug" /\ todo = {} /\ calling = NoCall
    /\ live' = live \cup {op.dev}
    /\ slotOf' = [slotOf EXCEPT ![op.dev] = op.slot]
    /\ tokenOf' = IF publishesSession THEN [tokenOf EXCEPT ![op.dev] = op.token] ELSE tokenOf
    /\ quarantined' = IF reopened THEN {} ELSE quarantined
    /\ reopened' = FALSE
    /\ todo' = {i \in Idx : /\ change[i].kind \notin {"none", "refuse"}
                            /\ IF round = 2 THEN change[i].waits
                               ELSE change[i].kind = "add" => ~change[i].waits}
    /\ phase' = "commit"
    /\ UNCHANGED <<serial, desc, bumps, inUse, scanStart, backend, table, op, round,
                   change, retired, unplugged, stuck, scan, waited, rx>>

Committing(i, kinds) ==
    /\ phase = "commit" /\ i \in todo /\ change[i].kind \in kinds
    /\ todo' = todo \ {i}
    /\ UNCHANGED <<live, slotOf, tokenOf, quarantined, scanStart, backend, table, phase,
                   op, round, unplugged, stuck, reopened, scan, waited, rx>>

\* updatePadLocked
CommitUpdate(i) ==
    /\ Committing(i, {"update"})
    /\ desc' = [desc EXCEPT ![op.dev][i] = change[i].desc]
    /\ UNCHANGED <<serial, bumps, inUse, change, retired>>

\* Mutant: a pad vacated without a new epoch.
CommitVacateSilently(i) ==
    /\ Committing(i, {"remove", "inPlace"})
    /\ change[i].kind = "inPlace" => round = 1
    /\ retired' = retired \cup {serial[op.dev][i]}
    /\ serial' = [serial EXCEPT ![op.dev][i] = 0]
    /\ desc' = [desc EXCEPT ![op.dev][i] = NoDesc]
    /\ UNCHANGED <<bumps, inUse, change>>

\* vacatePadLocked: a removal, or the first half of a replug in place.
CommitVacate(i) ==
    /\ Committing(i, {"remove", "inPlace"})
    /\ change[i].kind = "inPlace" => round = 1
    /\ retired' = retired \cup {serial[op.dev][i]}
    /\ serial' = [serial EXCEPT ![op.dev][i] = 0]
    /\ desc' = [desc EXCEPT ![op.dev][i] = NoDesc]
    /\ bumps' = [bumps EXCEPT ![op.dev] = @ + 1]
    /\ UNCHANGED <<inUse, change>>

\* replugPadLocked: the old pad stays unless the new one is plugged.
CommitReplug(i) ==
    LET s == change[i].serial IN
    /\ Committing(i, {"replug"})
    /\ bumps' = [bumps EXCEPT ![op.dev] = @ + 1]
    /\ IF change[i].plugged
       THEN /\ retired' = retired \cup {serial[op.dev][i]}
            /\ serial' = [serial EXCEPT ![op.dev][i] = s]
            /\ desc' = [desc EXCEPT ![op.dev][i] = change[i].desc]
            /\ UNCHANGED <<inUse, change>>
       ELSE /\ inUse' = inUse \ {s}
            /\ change' = [change EXCEPT ![i].result = "replugFail"]
            /\ UNCHANGED <<serial, desc, retired>>

\* Mutant: an exhausted pool is reported as success.
BindFailureUnreported(i) ==
    CASE change[i].kind = "inPlace" -> "pluginFail"
      [] change[i].serial = 0 -> "ok"
      [] change[i].busDown -> "backendUnavail"
      [] OTHER -> "pluginFail"

\* Why addPadLocked and refitPadLocked could not bind the pad.
BindFailure(i) ==
    CASE change[i].kind = "inPlace" -> "pluginFail"
      [] change[i].serial = 0 -> "noSlots"
      [] change[i].busDown -> "backendUnavail"
      [] OTHER -> "pluginFail"

\* addPadLocked and refitPadLocked
CommitBind(i) ==
    LET s == change[i].serial IN
    /\ Committing(i, {"add", "inPlace"})
    /\ change[i].kind = "inPlace" => round = 2
    /\ IF change[i].plugged
       THEN /\ serial' = [serial EXCEPT ![op.dev][i] = s]
            /\ desc' = [desc EXCEPT ![op.dev][i] = change[i].desc]
            /\ bumps' = [bumps EXCEPT ![op.dev] = @ + 1]
            /\ UNCHANGED <<inUse, change>>
       ELSE /\ inUse' = inUse \ {s}
            /\ change' = [change EXCEPT ![i].result = BindFailure(i)]
            /\ UNCHANGED <<serial, desc, bumps>>
    /\ UNCHANGED retired

-----------------------------------------------------------------------------
(* Publishing, under mtx_: HotWrite marks the slot, waits out every reader   *)
(* that was inside its bracket, and only then replaces the slot's words.    *)

Next1 == IF round = 1 THEN "unplug" ELSE "finish"

\* Mutant: a change of descriptors alone is not noticed.
PadsPublished ==
    /\ hot[op.slot].pads = serial[op.dev]
    /\ bumps[op.dev] = 0

controllersPublished ==
    /\ hot[op.slot].pads = serial[op.dev]
    /\ hot[op.slot].descs = desc[op.dev]
    /\ bumps[op.dev] = 0

\* Mutant: the write does not wait for anyone.
BeginWriteAtOnce(k) ==
    /\ hot' = [hot EXCEPT ![k].writing = TRUE]
    /\ scan' = {} /\ waited' = {}
    /\ phase' = "grace"

BeginWrite(k) ==
    /\ hot' = [hot EXCEPT ![k].writing = TRUE]
    /\ scan' = Readers /\ waited' = {}
    /\ phase' = "grace"

\* publishSessionLocked always writes, publishControllersLocked only a difference.
Publish ==
    /\ phase = "commit" /\ todo = {}
    /\ publishesSession \/ ~controllersPublished
    /\ BeginWrite(op.slot)
    /\ UNCHANGED <<cold, pool, backend, packed, op, round, change, todo, retired,
                   unplugged, stuck, reopened, rx>>

SkipPublish ==
    /\ phase = "commit" /\ todo = {}
    /\ ~publishesSession /\ controllersPublished
    /\ phase' = Next1
    /\ UNCHANGED <<cold, pool, backend, table, op, round, change, todo, retired,
                   unplugged, stuck, reopened, scan, waited, rx>>

\* Mutant: the wait is for a moment when the reader is in no bracket at all.
waitOutside(r) ==
    /\ phase = "grace" /\ r \in scan /\ rx[r].pc = "out"
    /\ scan' = scan \ {r}
    /\ UNCHANGED <<cold, pool, backend, table, phase, op, round, change, todo, retired,
                   unplugged, stuck, reopened, waited, rx>>

\* waitOut: a reader seen inside its bracket is waited for until it leaves it.
waitOut(r) ==
    /\ phase = "grace" /\ r \in scan
    /\ scan' = scan \ {r}
    /\ waited' = IF rx[r].pc # "out" THEN waited \cup {r} ELSE waited
    /\ UNCHANGED <<cold, pool, backend, table, phase, op, round, change, todo, retired,
                   unplugged, stuck, reopened, rx>>

\* publishControllers and endWrite.
EndWrite ==
    /\ phase = "grace" /\ scan \cup waited = {} /\ op.kind \in {"upsert", "apply"}
    /\ hot' = [hot EXCEPT ![op.slot] =
                  [token |-> IF publishesSession THEN tokenOf[op.dev] ELSE @.token,
                   pads |-> serial[op.dev], descs |-> desc[op.dev], writing |-> FALSE]]
    /\ bumps' = [bumps EXCEPT ![op.dev] = 0]
    /\ phase' = IF publishesSession THEN "token" ELSE Next1
    /\ UNCHANGED <<live, slotOf, tokenOf, serial, desc, pool, backend, packed, op, round,
                   change, todo, retired, unplugged, stuck, reopened, scan, waited, rx>>

PublishToken ==
    /\ phase = "token"
    /\ packed' = [packed EXCEPT ![op.slot] = tokenOf[op.dev]]
    /\ phase' = "unplug"
    /\ UNCHANGED <<cold, pool, backend, hot, op, round, change, todo, retired, unplugged,
                   stuck, reopened, scan, waited, rx>>

\* retireConnectionLocked: the packed token goes first, then the slot is cleared.
RetireConnection(d) ==
    /\ phase = "retire" /\ d \in op.doomed
    /\ op' = [op EXCEPT !.dev = d, !.slot = slotOf[d], !.doomed = @ \ {d}]
    /\ retired' = retired \cup ({serial[d][i] : i \in Idx} \ {0})
    /\ serial' = [serial EXCEPT ![d] = NoPads]
    /\ desc' = [desc EXCEPT ![d] = NoDescs]
    /\ packed' = [packed EXCEPT ![slotOf[d]] = 0]
    /\ BeginWrite(slotOf[d])
    /\ UNCHANGED <<live, slotOf, tokenOf, bumps, pool, backend, round, change, todo,
                   unplugged, stuck, reopened, rx>>

EndRetire ==
    /\ phase = "grace" /\ scan \cup waited = {} /\ op.kind \in {"close", "closeAll"}
    /\ hot' = [hot EXCEPT ![op.slot] = EmptySlot]
    /\ live' = live \ {op.dev}
    /\ slotOf' = [slotOf EXCEPT ![op.dev] = 0]
    /\ tokenOf' = [tokenOf EXCEPT ![op.dev] = 0]
    /\ phase' = "retire"
    /\ UNCHANGED <<serial, desc, bumps, pool, backend, packed, op, round, change, todo,
                   retired, unplugged, stuck, reopened, scan, waited, rx>>

AllRetired ==
    /\ phase = "retire" /\ op.doomed = {}
    /\ phase' = "unplug"
    /\ UNCHANGED <<cold, pool, backend, table, op, round, change, todo, retired, unplugged,
                   stuck, reopened, scan, waited, rx>>
-----------------------------------------------------------------------------
(* unplugRetired with no lock, then the settlement under mtx_.              *)

UnplugStart(s) ==
    /\ phase = "unplug" /\ calling = NoCall /\ s \in retired
    /\ calling' = [call |-> "unplug", serial |-> s]
    /\ UNCHANGED <<cold, pool, busOpen, plugged, bound, table, topo, rx>>

\* An unconfirmed unplug leaves a target that may still exist.
UnplugDone(s, ok) ==
    /\ phase = "unplug" /\ calling = [call |-> "unplug", serial |-> s]
    /\ calling' = NoCall
    /\ retired' = retired \ {s}
    /\ plugged' = IF ok THEN plugged \ {s} ELSE plugged
    /\ unplugged' = IF ok THEN unplugged \cup {s} ELSE unplugged
    /\ stuck' = IF ok THEN stuck ELSE stuck \cup {s}
    /\ UNCHANGED <<cold, pool, busOpen, bound, table, phase, op, round, change, todo,
                   reopened, scan, waited, rx>>

Waiting == {i \in Idx : \/ change[i].kind = "inPlace"
                        \/ change[i].kind = "add" /\ change[i].waits}

\* settleRetiredLocked; closeAllSessions also wipes the pool.
Settle ==
    /\ phase = "unplug" /\ retired = {} /\ calling = NoCall
    /\ inUse' = IF op.kind = "closeAll" THEN {} ELSE inUse \ (unplugged \cup stuck)
    /\ quarantined' = IF op.kind = "closeAll" THEN {} ELSE quarantined \cup stuck
    /\ unplugged' = {} /\ stuck' = {}
    /\ todo' = Waiting
    /\ phase' = IF Waiting # {} THEN "allocate" ELSE "finish"
    /\ UNCHANGED <<cold, scanStart, backend, table, op, round, change, retired, reopened,
                   scan, waited, rx>>

\* allocateWaitingLocked: replugs in place come first and prefer their old serial.
AllocateWaiting(i) ==
    LET own == change[i].kind = "inPlace" /\ change[i].retiring \in Free
        s   == IF own THEN change[i].retiring ELSE allocateSerial
    IN
    /\ phase = "allocate" /\ i \in todo
    /\ change[i].kind = "inPlace" \/ \A j \in todo : change[j].kind = "add"
    /\ change' = [change EXCEPT ![i].serial = s]
    /\ inUse' = inUse \cup ({s} \ {0})
    /\ scanStart' = IF own \/ s = 0 THEN scanStart ELSE s % NSerials
    /\ todo' = todo \ {i}
    /\ UNCHANGED <<cold, quarantined, backend, table, phase, op, round, retired, unplugged,
                   stuck, reopened, scan, waited, rx>>

SecondRound ==
    /\ phase = "allocate" /\ todo = {}
    /\ round' = 2
    /\ phase' = "open"
    /\ UNCHANGED <<cold, pool, backend, table, op, change, todo, retired, unplugged, stuck,
                   reopened, scan, waited, rx>>

\* Mutant: the bus stays open for the quarantined zombies.
busIdleWithoutZombies == busOpen /\ ActivePads = {} /\ quarantined = {}

busIdle == busOpen /\ ActivePads = {}

EndChange ==
    /\ phase' = "idle" /\ op' = NoOp /\ round' = 1
    /\ change' = [i \in Idx |-> NoChange] /\ todo' = {}
    /\ UNCHANGED <<cold, inUse, scanStart, table, retired, unplugged, stuck, reopened, scan,
                   waited, rx>>

Finish ==
    /\ phase = "finish" /\ ~busIdle
    /\ EndChange
    /\ UNCHANGED <<quarantined, backend>>

\* closeBusIfIdle
CloseBusStart ==
    /\ phase = "finish" /\ calling = NoCall /\ busIdle
    /\ calling' = [call |-> "closeBus", serial |-> 0]
    /\ UNCHANGED <<cold, pool, busOpen, plugged, bound, table, topo, rx>>

CloseBusDone ==
    /\ phase = "finish" /\ calling.call = "closeBus"
    /\ calling' = NoCall
    /\ busOpen' = FALSE /\ plugged' = {} /\ quarantined' = {}
    /\ UNCHANGED bound
    /\ EndChange
-----------------------------------------------------------------------------
(* submitHotFrame inside its RxEpoch bracket, and the mic worker's submit.  *)

UnchangedButRx == UNCHANGED <<cold, pool, backend, table, phase, op, round, change, todo,
                              retired, unplugged, stuck, reopened, scan>>

\* A datagram of a connected device arrives and the reader enters its bracket.
RxEnter(r, d, i) ==
    /\ rx[r].pc = "out" /\ d \in live
    /\ rx' = [rx EXCEPT ![r] = [IdleRx EXCEPT !.pc = "in", !.dev = d, !.token = tokenOf[d],
                                              !.idx = i]]
    /\ UnchangedButRx /\ UNCHANGED waited

\* HotTable::find
RxFind(r) ==
    LET hits == {k \in Slots : packed[k] = rx[r].token} IN
    /\ rx[r].pc = "in"
    /\ rx' = [rx EXCEPT ![r] = [@ EXCEPT !.pc = IF hits = {} THEN "leave" ELSE "found",
                                         !.slot = IF hits = {} THEN 0 ELSE Min(hits)]]
    /\ UnchangedButRx /\ UNCHANGED waited

\* The stable read of the slot, the token check and the active test.
RxRead(r) ==
    LET slot == hot[rx[r].slot]
        ok   == ~slot.writing /\ slot.token = rx[r].token /\ slot.pads[rx[r].idx] # 0
    IN
    /\ rx[r].pc = "found"
    /\ rx' = [rx EXCEPT ![r] = [@ EXCEPT !.pc = IF ok THEN "submit" ELSE "leave",
                                         !.serial = IF ok THEN slot.pads[rx[r].idx] ELSE 0]]
    /\ UnchangedButRx /\ UNCHANGED waited

\* The submit returns and the reader leaves its bracket.
RxExit(r) ==
    /\ rx[r].pc \in {"leave", "submit"}
    /\ rx' = [rx EXCEPT ![r] = IdleRx]
    /\ waited' = waited \ {r}
    /\ UnchangedButRx
-----------------------------------------------------------------------------
Request ==
    \/ \E d \in Devices, want \in [Idx -> Descs \cup {NoDesc}] : upsertSession(d, want)
    \/ \E d \in Devices, i \in Idx, ds \in Descs : applyController(d, i, ds)
    \/ \E d \in Devices, i \in Idx : removeController(d, i)
    \/ \E d \in Devices : closeSession(d)
    \/ \E ds \in SUBSET Devices : reapTimedOut(ds)
    \/ closeAllSessions

\* The steps of the thread that holds topoMtx_.
ChangeStep ==
    \/ \E i \in Idx : PlanPad(i) \/ AllocateWaiting(i)
    \/ FinishPlan
    \/ \E ok \in BOOLEAN : ensureBusOpen(ok)
    \/ \E i \in Idx : PlugStart(i) \/ \E ok \in BOOLEAN : PlugDone(i, ok)
    \/ BeginCommit
    \/ \E i \in Idx : \/ CommitUpdate(i) \/ CommitVacate(i) \/ CommitReplug(i)
                      \/ CommitBind(i)
    \/ Publish \/ SkipPublish \/ EndWrite \/ PublishToken
    \/ \E r \in Readers : waitOut(r)
    \/ \E d \in Devices : RetireConnection(d)
    \/ EndRetire \/ AllRetired
    \/ \E s \in Serials : UnplugStart(s) \/ \E ok \in BOOLEAN : UnplugDone(s, ok)
    \/ Settle \/ SecondRound
    \/ Finish \/ CloseBusStart \/ CloseBusDone

\* The steps of a reader inside its bracket.
BracketStep(r) == RxFind(r) \/ RxRead(r) \/ RxExit(r)

Next ==
    \/ Request
    \/ ChangeStep
    \/ \E r \in Readers : BracketStep(r) \/ \E d \in Devices, i \in Idx : RxEnter(r, d, i)

Spec == Init /\ [][Next]_vars

\* Backend calls return and the scheduler runs every thread.
Fairness == WF_vars(ChangeStep) /\ \A r \in Readers : WF_vars(BracketStep(r))

FairSpec == Spec /\ Fairness
-----------------------------------------------------------------------------
(* Properties.                                                              *)

Kinds  == {"none", "unplanned", "refuse", "update", "add", "replug", "inPlace", "remove"}
Phases == {"idle", "plan", "open", "plug", "commit", "grace", "token", "retire", "unplug",
           "allocate", "finish"}
Pad0   == Serials \cup {0}
PadChange ==
    [kind : Kinds, desc : Descs \cup {NoDesc}, serial : Pad0, retiring : Pad0,
     waits : BOOLEAN, busDown : BOOLEAN, plugged : BOOLEAN,
     result : {"ok", "invalidType", "noSlots", "backendUnavail", "pluginFail", "replugFail"}]

\* Every variable stays in the range the code's types give it.
TypeOK ==
    /\ live \subseteq Devices
    /\ slotOf \in [Devices -> Slots \cup {0}]
    /\ tokenOf \in [Devices -> Tokens \cup {0}]
    /\ serial \in [Devices -> [Idx -> Pad0]]
    /\ desc \in [Devices -> [Idx -> Descs \cup {NoDesc}]]
    /\ bumps \in [Devices -> Nat]
    /\ inUse \subseteq Serials /\ quarantined \subseteq Serials
    /\ scanStart \in 0..(NSerials - 1)
    /\ busOpen \in BOOLEAN /\ plugged \subseteq Serials
    /\ bound \in [Serials -> [dev : Devices \cup {"none"}, idx : Idx \cup {"none"},
                              type : Types \cup {"none"}]]
    /\ calling \in [call : {"none", "plug", "unplug", "closeBus"}, serial : Pad0]
    /\ packed \in [Slots -> Tokens \cup {0}]
    /\ hot \in [Slots -> [token : Tokens \cup {0}, pads : [Idx -> Pad0],
                          descs : [Idx -> Descs \cup {NoDesc}], writing : BOOLEAN]]
    /\ phase \in Phases /\ round \in {1, 2}
    /\ op \in [kind : {"none", "upsert", "apply", "close", "closeAll"},
               dev : Devices \cup {"none"}, slot : Slots \cup {0},
               token : Tokens \cup {0}, doomed : SUBSET Devices]
    /\ change \in [Idx -> PadChange]
    /\ todo \subseteq Idx
    /\ retired \subseteq Serials /\ unplugged \subseteq Serials /\ stuck \subseteq Serials
    /\ reopened \in BOOLEAN
    /\ scan \subseteq Readers /\ waited \subseteq Readers
    /\ rx \in [Readers -> [pc : {"out", "in", "found", "leave", "submit"},
                           dev : Devices \cup {"none"}, token : Tokens \cup {0},
                           idx : Idx \cup {"none"}, slot : Slots \cup {0}, serial : Pad0]]

\* A submit reaches the pad plugged for the device and index its frame names, also when
\* the slot, the token or the serial changed hands since the datagram was accepted, and it
\* never overlaps a plug or an unplug of that serial or a bus close: what the grace wait
\* of HotWrite buys.
FrameReachesItsOwnPad ==
    \A r \in Readers : rx[r].pc = "submit" =>
        /\ rx[r].serial \in plugged
        /\ bound[rx[r].serial].dev = rx[r].dev
        /\ bound[rx[r].serial].idx = rx[r].idx
        /\ calling.serial # rx[r].serial
        /\ calling.call # "closeBus"

\* The serials the running change holds: allocated and not yet committed, or taken
\* from a pad and not yet settled.
ToCommit(i) ==
    \/ phase \in {"plan", "open", "plug"} /\ (round = 2 => change[i].waits)
    \/ phase = "commit" /\ i \in todo
    \/ phase = "allocate" /\ change[i].waits
Pending == {change[i].serial : i \in {j \in Idx :
               change[j].kind \in {"add", "replug", "inPlace"} /\ ToCommit(j)}} \ {0}
HeldByPads == {serial[p[1]][p[2]] : p \in ActivePads}

\* The pool's books balance at every step: a serial is in use exactly when a pad, the
\* running change or the list of retired serials holds it, and only one of them does.
SerialBooksBalance ==
    /\ inUse = HeldByPads \cup Pending \cup retired \cup unplugged \cup stuck
    /\ HeldByPads \cap (Pending \cup retired \cup unplugged \cup stuck) = {}
    /\ Pending \cap (retired \cup unplugged \cup stuck) = {}
    /\ \A p, q \in ActivePads : serial[p[1]][p[2]] = serial[q[1]][q[2]] => p = q
    /\ inUse \cap quarantined = {}

\* The serial of a plug holds no target, in particular not the zombie an unconfirmed
\* unplug left behind (unplugDevice == false obliges the caller to quarantine).  Between
\* changes the bus is open exactly while a pad is active, and the backend holds the active
\* pads and the quarantined zombies and nothing else.  The pool's books balance throughout.
BackendMatchesPads ==
    /\ SerialBooksBalance
    /\ calling.call = "plug" => calling.serial \notin plugged
    /\ phase = "idle" =>
         /\ busOpen <=> ActivePads # {}
         /\ plugged = inUse \cup quarantined
         /\ inUse = HeldByPads

\* Between changes the hot table says what the cold state says: the readers are never
\* left with a stale slot.
HotMatchesCold ==
    phase = "idle" =>
        /\ \A d \in live : /\ packed[slotOf[d]] = tokenOf[d]
                           /\ hot[slotOf[d]] = [token |-> tokenOf[d], pads |-> serial[d],
                                                descs |-> desc[d], writing |-> FALSE]
                           /\ bumps[d] = 0
        /\ \A k \in Slots : packed[k] # 0 => \E d \in live : slotOf[d] = k

\* A pad never changes identity under its serial: the backend holds each active pad as
\* the type the session applied.
PadsKeepTheirIdentity ==
    \A p \in ActivePads :
        bound[serial[p[1]][p[2]]] = [dev |-> p[1], idx |-> p[2], type |-> desc[p[1]][p[2]].type]

\* What a change reports is what it did: a descriptor is answered "ok" exactly when the
\* pad is in force with the type and the info asked for, and the backend holds every pad as
\* what the session says it is.
ReportMatchesApplied ==
    /\ PadsKeepTheirIdentity
    /\ phase = "finish" =>
         \A i \in Idx : change[i].kind \notin {"none", "remove"} =>
             (change[i].result = "ok" <=> /\ serial[op.dev][i] # 0
                                          /\ desc[op.dev][i] = change[i].desc)

\* Published controllers change their serials only with a new epoch or a new token, so
\* a client that reads the epoch in a heartbeat ack sees every topology change.
EpochMoves ==
    \A k \in Slots :
        hot'[k].pads # hot[k].pads /\ hot'[k].token = hot[k].token => bumps[op.dev] > 0
EpochMovesWithPads == [][EpochMoves]_vars

\* Every topology change ends: no grace wait is starved by readers that keep coming.
ChangeCompletes == phase # "idle" ~> phase = "idle"
=============================================================================
