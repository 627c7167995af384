---------------------------- MODULE ConfigStore ----------------------------
(***************************************************************************)
(* The configuration (src/core/config_store.cpp): callers publish immutable *)
(* snapshots under writeMtx_, one saver thread writes the latest one to the *)
(* file outside every lock, flush() and stop() wait for it, and             *)
(* ConfigEffects applies the settings with a side effect.  The file is      *)
(* written the way atomicWriteFile does it, and the process may crash or    *)
(* lose power between any two steps and start again from the file.          *)
(*                                                                         *)
(* A configuration is the number of updates that led to it, which stands    *)
(* for everything in it, and the autostart setting, which has a side        *)
(* effect.  snapshotMtx_ covers single loads and stores.                    *)
(***************************************************************************)
EXTENDS Integers

CONSTANTS
    Callers,     \* HTTP, tray and update threads
    Nobody,      \* not a caller
    WriteThrough, \* whether the rename is written through (Windows) or the directory
                 \* left to the file system (POSIX)
    MaxUpdates,  \* bound: updates a configuration can have behind it
    MaxFlushes,  \* bound: flushes called
    MaxCrashes   \* bound: crashes

ASSUME ConfigAssumption ==
    /\ Nobody \notin Callers /\ WriteThrough \in BOOLEAN
    /\ MaxUpdates \in Nat /\ MaxFlushes \in Nat /\ MaxCrashes \in Nat

VARIABLES
    snapshot,    \* snapshot_
    generation,  \* generation_
    writer,      \* who is inside update(), with writeMtx_ held
    pc,          \* pc[c]: what a caller is doing
    wanted,      \* wanted[c]: the generation a flush waits for
    read,        \* read[c]: the autostart setting an apply has read
    applied,     \* applied_.autoStart: "never", "on" or "off"
    registry,    \* the autostart setting in force
    stopping,    \* stopping_
    persisted,   \* persistedGeneration_
    saver,       \* the saver: where it is and what it saves
    failed,      \* whether its last attempt failed: failures > 0
    tmp, file,   \* the temporary file and the configuration file
    older,       \* the file its last rename has replaced
    base,        \* history: the configuration the process started with
    confirmed,   \* history: the latest configuration a flush called saved
    stopAt,      \* history: the generation stop() was called at
    lost,        \* history: whether a loss of power has undone a rename
    flushes, crashes

store   == <<snapshot, generation, writer>>
callers == <<pc, wanted, read, applied, registry>>
saving  == <<persisted, saver, failed>>
disk    == <<tmp, file, older>>
history == <<base, confirmed, stopAt, lost, flushes, crashes>>
vars    == <<store, callers, stopping, saving, disk, history>>

Settings == {"on", "off"}
Configs == [n : Nat, autoStart : Settings]
Default == [n |-> 0, autoStart |-> "on"]

\* A file on disk: what it holds, whether it holds all of it, and whether it would
\* survive a loss of power.
Files == [cfg : Configs, whole : BOOLEAN, synced : BOOLEAN]
NoFile == [cfg |-> Default, whole |-> FALSE, synced |-> FALSE]
Written(cfg) == [cfg |-> cfg, whole |-> TRUE, synced |-> FALSE]

Resting == [at |-> "wait", gen |-> 0, cfg |-> Default, final |-> FALSE]

Init ==
    /\ file = [cfg |-> Default, whole |-> TRUE, synced |-> TRUE] /\ older = file /\ tmp = NoFile
    /\ snapshot = Default /\ generation = 0 /\ persisted = 0 /\ writer = Nobody
    /\ pc = [c \in Callers |-> "idle"]
    /\ wanted = [c \in Callers |-> 0] /\ read = [c \in Callers |-> "on"]
    /\ applied = "never" /\ registry = "on"
    /\ stopping = FALSE /\ saver = Resting /\ failed = FALSE
    /\ base = 0 /\ confirmed = 0 /\ stopAt = 0 /\ lost = FALSE /\ flushes = 0 /\ crashes = 0
-----------------------------------------------------------------------------
(* The callers.                                                             *)

\* update(): copy, mutate, publish.  configRoute goes on to apply the effects; the other
\* callers leave autostart alone.  A mutate that declines changes nothing.
update(c, autoStart, then) ==
    /\ pc[c] = "idle" /\ writer = Nobody
    /\ base + generation < MaxUpdates
    /\ then = "publish" => autoStart = snapshot.autoStart
    /\ snapshot' = [n |-> snapshot.n + 1, autoStart |-> autoStart]
    /\ writer' = c
    /\ pc' = [pc EXCEPT ![c] = then]
    /\ UNCHANGED <<generation, wanted, read, applied, registry, stopping, saving, disk, history>>

\* Its end, still under writeMtx_: the atomics are stored and the generation counts.
endUpdate(c) ==
    /\ writer = c /\ pc[c] \in {"publish", "publishSettings"}
    /\ generation' = generation + 1
    /\ writer' = Nobody
    /\ pc' = [pc EXCEPT ![c] = IF @ = "publish" THEN "idle" ELSE "effects"]
    /\ UNCHANGED <<snapshot, wanted, read, applied, registry, stopping, saving, disk, history>>

\* ConfigEffects::apply takes its lock and then the latest snapshot.
apply(c) ==
    /\ pc[c] = "effects" /\ \A d \in Callers : pc[d] # "apply"
    /\ pc' = [pc EXCEPT ![c] = "apply"]
    /\ read' = [read EXCEPT ![c] = snapshot.autoStart]
    /\ UNCHANGED <<store, wanted, applied, registry, stopping, saving, disk, history>>

\* Only a value other than the one applied last reaches the system.
applyConfigEffects(c) ==
    /\ pc[c] = "apply"
    /\ registry' = IF applied # read[c] THEN read[c] ELSE registry
    /\ applied' = read[c]
    /\ pc' = [pc EXCEPT ![c] = "idle"]
    /\ read' = [read EXCEPT ![c] = "on"]
    /\ UNCHANGED <<store, wanted, stopping, saving, disk, history>>

\* flush() returns true: everything published before the call is in the file.
Confirm(g) == confirmed' = IF base + g > confirmed THEN base + g ELSE confirmed

flush(c) ==
    /\ pc[c] = "idle" /\ writer = Nobody /\ flushes < MaxFlushes
    /\ flushes' = flushes + 1
    /\ \/ persisted >= generation /\ Confirm(generation) /\ UNCHANGED <<pc, wanted>>
       \/ /\ persisted < generation
          /\ pc' = [pc EXCEPT ![c] = "flush"]
          /\ wanted' = [wanted EXCEPT ![c] = generation]
          /\ UNCHANGED confirmed
    /\ UNCHANGED <<store, read, applied, registry, stopping, saving, disk, base, stopAt, lost, crashes>>

\* Mutant: a flush takes the attempt for the success.
flushTrusting(c) ==
    /\ pc[c] = "flush" /\ writer = Nobody
    /\ IF saver.gen >= wanted[c] THEN Confirm(wanted[c]) ELSE UNCHANGED confirmed
    /\ pc' = [pc EXCEPT ![c] = "idle"]
    /\ wanted' = [wanted EXCEPT ![c] = 0]
    /\ UNCHANGED <<store, read, applied, registry, stopping, saving, disk,
                   base, stopAt, lost, flushes, crashes>>

\* It is settled, or the deadline has come: either way it answers with what is saved.
flushReturns(c) ==
    /\ pc[c] = "flush" /\ writer = Nobody
    /\ IF persisted >= wanted[c] THEN Confirm(wanted[c]) ELSE UNCHANGED confirmed
    /\ pc' = [pc EXCEPT ![c] = "idle"]
    /\ wanted' = [wanted EXCEPT ![c] = 0]
    /\ UNCHANGED <<store, read, applied, registry, stopping, saving, disk,
                   base, stopAt, lost, flushes, crashes>>

stop ==
    /\ ~stopping /\ writer = Nobody
    /\ stopping' = TRUE
    /\ stopAt' = generation
    /\ UNCHANGED <<store, callers, saving, disk, base, confirmed, lost, flushes, crashes>>
-----------------------------------------------------------------------------
(* The saver.                                                               *)

SaverGoes(where) == saver' = [saver EXCEPT !.at = where]
SaverOnly == UNCHANGED <<store, callers, stopping, history>>

\* Woken by a new generation or by stop(); it gives a burst of updates time to settle,
\* unless the last attempt failed.
saverWakes ==
    /\ saver.at = "wait" /\ writer = Nobody
    /\ stopping \/ generation # persisted
    /\ ~failed \/ generation = persisted
    /\ SaverGoes(IF generation = persisted THEN "done" ELSE "delay")
    /\ UNCHANGED <<persisted, failed, disk>> /\ SaverOnly

\* The delay is over, or was cut short, or there was none: what is saved is decided.
saverTakes ==
    /\ writer = Nobody
    /\ saver.at = "delay" \/ (saver.at = "wait" /\ failed /\ generation # persisted)
    /\ saver' = [at |-> "open", gen |-> generation, cfg |-> snapshot, final |-> stopping]
    /\ UNCHANGED <<persisted, failed, disk>> /\ SaverOnly

\* atomicWriteFile: open and truncate, write, sync, rename.  A failure removes what was
\* written.
openTmp ==
    /\ saver.at = "open"
    /\ \/ tmp' = NoFile /\ SaverGoes("write")
       \/ UNCHANGED tmp /\ SaverGoes("notSaved")
    /\ UNCHANGED <<persisted, failed, file, older>> /\ SaverOnly

writeTmp ==
    /\ saver.at = "write"
    /\ \/ tmp' = Written(saver.cfg) /\ SaverGoes("sync")
       \/ tmp' = NoFile /\ SaverGoes("notSaved")
    /\ UNCHANGED <<persisted, failed, file, older>> /\ SaverOnly

\* Mutant: the file is renamed without having been synced.
NoSync ==
    /\ saver.at = "sync"
    /\ \/ UNCHANGED tmp /\ SaverGoes("rename")
       \/ tmp' = NoFile /\ SaverGoes("notSaved")
    /\ UNCHANGED <<persisted, failed, file, older>> /\ SaverOnly

syncTmp ==
    /\ saver.at = "sync"
    /\ \/ tmp' = [tmp EXCEPT !.synced = TRUE] /\ SaverGoes("rename")
       \/ tmp' = NoFile /\ SaverGoes("notSaved")
    /\ UNCHANGED <<persisted, failed, file, older>> /\ SaverOnly

renameTmp ==
    /\ saver.at = "rename"
    /\ tmp' = NoFile
    /\ \/ file' = tmp /\ older' = file /\ SaverGoes("saved")
       \/ UNCHANGED <<file, older>> /\ SaverGoes("notSaved")
    /\ UNCHANGED <<persisted, failed>> /\ SaverOnly

saved ==
    /\ saver.at = "saved" /\ writer = Nobody
    /\ persisted' = saver.gen
    /\ failed' = FALSE
    /\ SaverGoes(IF saver.final THEN "done" ELSE "wait")
    /\ UNCHANGED disk /\ SaverOnly

notSaved ==
    /\ saver.at = "notSaved" /\ writer = Nobody
    /\ failed' = TRUE
    /\ SaverGoes(IF stopping THEN "done" ELSE "backoff")
    /\ UNCHANGED <<persisted, disk>> /\ SaverOnly

\* Mutant: a failure is not retried before the next update.
GiveUp ==
    /\ saver.at = "backoff" /\ writer = Nobody /\ stopping
    /\ SaverGoes("wait")
    /\ UNCHANGED <<persisted, failed, disk>> /\ SaverOnly

\* retryDelayAfter has passed, or stop() was called.
backoff ==
    /\ saver.at = "backoff" /\ writer = Nobody
    /\ SaverGoes("wait")
    /\ UNCHANGED <<persisted, failed, disk>> /\ SaverOnly
-----------------------------------------------------------------------------
\* A crash, with or without a loss of power, and the next start from the file.  Without
\* power what was not synced is gone, and so may be a rename that was not written through.
\* A file that does not parse leaves the defaults.
Crash ==
    /\ crashes < MaxCrashes
    /\ crashes' = crashes + 1
    /\ \/ UNCHANGED <<file, older, lost>>
       \/ \E f \in {file} \cup (IF WriteThrough THEN {} ELSE {older}) :
            /\ file' = IF f.synced THEN f ELSE NoFile
            /\ older' = file'
            /\ lost' = (lost \/ f # file)
    /\ snapshot' = IF file'.whole THEN file'.cfg ELSE Default
    /\ base' = snapshot'.n
    /\ generation' = 0 /\ persisted' = 0 /\ writer' = Nobody
    /\ stopping' = FALSE /\ stopAt' = 0 /\ saver' = Resting /\ failed' = FALSE
    /\ pc' = [c \in Callers |-> "idle"]
    /\ wanted' = [c \in Callers |-> 0] /\ read' = [c \in Callers |-> "on"]
    /\ applied' = "never"
    /\ UNCHANGED <<registry, tmp, confirmed, flushes>>

CallerStep(c) ==
    \/ endUpdate(c) \/ apply(c) \/ applyConfigEffects(c) \/ flushReturns(c)

SaverStep ==
    \/ saverWakes \/ saverTakes \/ openTmp \/ writeTmp \/ syncTmp \/ renameTmp
    \/ saved \/ notSaved \/ backoff

Next ==
    \/ \E c \in Callers, a \in Settings, then \in {"publish", "publishSettings"} :
            update(c, a, then)
    \/ \E c \in Callers : flush(c) \/ CallerStep(c)
    \/ stop \/ SaverStep \/ Crash

Spec == Init /\ [][Next]_vars

\* The threads run on; the file system may fail for ever.
Fairness == WF_vars(SaverStep) /\ \A c \in Callers : WF_vars(CallerStep(c))

FairSpec == Spec /\ Fairness
-----------------------------------------------------------------------------
\* The store, its threads and its files stay in their types.
TypeOK ==
    /\ snapshot \in Configs /\ generation \in Nat /\ writer \in Callers \cup {Nobody}
    /\ pc \in [Callers -> {"idle", "publish", "publishSettings", "effects", "apply", "flush"}]
    /\ wanted \in [Callers -> Nat] /\ read \in [Callers -> Settings]
    /\ applied \in Settings \cup {"never"} /\ registry \in Settings
    /\ stopping \in BOOLEAN /\ lost \in BOOLEAN /\ persisted \in Nat /\ failed \in BOOLEAN
    /\ saver \in [at : {"wait", "delay", "open", "write", "sync", "rename", "saved", "notSaved",
                        "backoff", "done"},
                  gen : Nat, cfg : Configs, final : BOOLEAN]
    /\ tmp \in Files /\ file \in Files /\ older \in Files
    /\ base \in Nat /\ confirmed \in Nat /\ stopAt \in Nat
    /\ flushes \in Nat /\ crashes \in Nat

\* What a flush has called saved is in the file, whatever happens after it: a crash, a
\* failed attempt, a later update, and a loss of power if renames are written through.
FlushIsDurable == file.whole /\ (file.cfg.n >= confirmed \/ lost) /\ (WriteThrough => ~lost)

\* The file is never torn and never goes back to an older configuration, crash or not.
\* Only a loss of power can undo a rename, where the directory is not written through.
FileMovesForward ==
    [][/\ file'.whole
       /\ file'.cfg.n >= file.cfg.n \/ (~WriteThrough /\ lost' /\ crashes' # crashes)]_vars

\* Once the settings requests are through, the system has the autostart setting of the
\* latest snapshot, however the requests were interleaved.
EffectsFollow ==
    applied # "never" /\ (\A c \in Callers : pc[c] \in {"idle", "flush"}) =>
        registry = snapshot.autoStart

\* A saver that ends without a failure has saved everything published before stop().
StopSaves == saver.at = "done" /\ ~failed => persisted >= stopAt

\* What is published is saved in the end, unless the process stops or the attempts fail
\* for ever: a failure leaves the saver trying, and no update slips in behind its back.
\* And stop() returns, even if no attempt ever works.
SaverGetsThere ==
    /\ \/ []<>(saver.at = "notSaved")
       \/ (generation # persisted) ~> (generation = persisted \/ stopping)
    /\ stopping ~> (saver.at = "done" \/ ~stopping)
=============================================================================
