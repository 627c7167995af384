---------------------------- MODULE ConfigProofs ----------------------------
(***************************************************************************)
(* Proofs about ConfigStore for any number of callers, updates, flushes and *)
(* crashes: its types, that a flush tells the truth, that the file only     *)
(* moves forward, that a clean stop has saved everything, and that the      *)
(* effects follow the latest snapshot.                                      *)
(***************************************************************************)
EXTENDS ConfigStore, TLAPS

Attempting == {"open", "write", "sync", "rename"}

\* The snapshot is as many updates on from the start as the generation says, one more
\* while an update is under way, and nobody else is inside update() then.
SnapshotCounts ==
    /\ writer = Nobody => snapshot.n = base + generation
    /\ writer # Nobody => snapshot.n = base + generation + 1
    /\ \A c \in Callers : writer = c <=> pc[c] \in {"publish", "publishSettings"}

\* What is called saved is in the file, and the file holds nothing the store has not seen.
FileIsKnown ==
    /\ file.whole /\ file.synced /\ older.whole /\ older.synced
    /\ older.cfg.n <= file.cfg.n
    /\ base + persisted <= file.cfg.n
    /\ confirmed <= file.cfg.n \/ lost
    /\ WriteThrough => ~lost
    /\ file.cfg.n <= base + generation

\* An attempt carries a snapshot no older than the file, written whole and synced before
\* it takes the file's place.
AttemptIsNewer ==
    /\ saver.gen <= generation
    /\ saver.at \in Attempting => saver.cfg.n = base + saver.gen /\ file.cfg.n <= saver.cfg.n
    /\ saver.at = "sync" => tmp = Written(saver.cfg)
    /\ saver.at = "rename" => tmp = [cfg |-> saver.cfg, whole |-> TRUE, synced |-> TRUE]
    /\ saver.at = "saved" => file.cfg.n = base + saver.gen

\* A final attempt began after stop(), and without a failure the saver only ends with
\* everything saved that was published before it.
EndIsClean ==
    /\ stopping => stopAt <= generation
    /\ ~stopping => stopAt = 0
    /\ saver.at \in Attempting \cup {"saved"} /\ saver.final => stopping /\ saver.gen >= stopAt
    /\ saver.at = "done" => stopping
    /\ StopSaves

\* Once somebody has applied a setting, the system has it; a snapshot that differs has a
\* caller that will still look at it, and the one applying now holds the lock.
EffectsPending ==
    /\ applied # "never" => registry = applied
    /\ applied # "never" /\ applied # snapshot.autoStart =>
          \E c \in Callers : \/ pc[c] \in {"publishSettings", "effects"}
                             \/ pc[c] = "apply" /\ read[c] = snapshot.autoStart
    /\ \A c, d \in Callers : pc[c] = "apply" /\ pc[d] = "apply" => c = d
    /\ \A c \in Callers : pc[c] = "apply" /\ read[c] # snapshot.autoStart =>
          \E d \in Callers : pc[d] \in {"publishSettings", "effects"}

IInv ==
    TypeOK /\ SnapshotCounts /\ FileIsKnown /\ AttemptIsNewer /\ EndIsClean /\ EffectsPending
-----------------------------------------------------------------------------
\* What the saver and a crash make of the files are files.
LEMMA FileTypes ==
    /\ Default \in Configs /\ NoFile \in Files
    /\ \A cfg \in Configs : Written(cfg) \in Files
    /\ \A f \in Files : f.cfg \in Configs /\ [f EXCEPT !.synced = TRUE] \in Files
  BY DEF Default, Configs, Settings, NoFile, Files, Written

\* Every action keeps the types.
LEMMA TypeStep == IInv /\ [Next]_vars => TypeOK'
  <1> SUFFICES ASSUME IInv, [Next]_vars PROVE TypeOK'
    OBVIOUS
  <1> USE ConfigAssumption DEF IInv, TypeOK, store, callers, saving, disk, history, Settings
  <1>1. ASSUME NEW c \in Callers, NEW a \in Settings,
               NEW then \in {"publish", "publishSettings"}, update(c, a, then)
        PROVE TypeOK'
    BY <1>1 DEF update, Configs
  <1>2. ASSUME NEW c \in Callers, flush(c) PROVE TypeOK'
    BY <1>2 DEF flush, Confirm
  <1>3. ASSUME NEW c \in Callers, CallerStep(c) PROVE TypeOK'
    BY <1>3 DEF CallerStep, endUpdate, apply, applyConfigEffects, flushReturns, Confirm, Configs
  <1>4. CASE stop
    BY <1>4 DEF stop
  <1>5. CASE SaverStep
    <2> USE DEF SaverGoes, SaverOnly
    <2>1. CASE saverWakes
      BY <2>1 DEF saverWakes
    <2>2. CASE saverTakes
      BY <2>2 DEF saverTakes
    <2>3. CASE openTmp
      BY <2>3, FileTypes DEF openTmp
    <2>4. CASE writeTmp
      BY <2>4, FileTypes DEF writeTmp
    <2>5. CASE syncTmp
      BY <2>5, FileTypes DEF syncTmp
    <2>6. CASE renameTmp
      BY <2>6, FileTypes DEF renameTmp
    <2>7. CASE saved
      <3>1. saver' = [saver EXCEPT !.at = "done"] \/ saver' = [saver EXCEPT !.at = "wait"]
        BY <2>7 DEF saved
      <3> QED
        BY <2>7, <3>1 DEF saved
    <2>8. CASE notSaved
      BY <2>8 DEF notSaved
    <2>9. CASE backoff
      BY <2>9 DEF backoff
    <2> QED
      BY <1>5, <2>1, <2>2, <2>3, <2>4, <2>5, <2>6, <2>7, <2>8, <2>9 DEF SaverStep
  <1>6. CASE Crash
    <2>1. file' \in Files /\ older' \in Files /\ lost' \in BOOLEAN
      BY <1>6, FileTypes DEF Crash
    <2>2. snapshot' \in Configs /\ base' \in Nat
      <3>1. snapshot' \in Configs
        BY <1>6, <2>1, FileTypes DEF Crash
      <3> QED
        BY <1>6, <3>1 DEF Crash, Configs
    <2>3. saver' \in [at : {"wait", "delay", "open", "write", "sync", "rename", "saved",
                            "notSaved", "backoff", "done"},
                      gen : Nat, cfg : Configs, final : BOOLEAN]
      BY <1>6, FileTypes DEF Crash, Resting
    <2>4. /\ pc' \in [Callers -> {"idle", "publish", "publishSettings", "effects", "apply",
                                  "flush"}]
          /\ wanted' \in [Callers -> Nat] /\ read' \in [Callers -> Settings]
      BY <1>6 DEF Crash
    <2>5. /\ generation' = 0 /\ writer' = Nobody /\ applied' = "never" /\ registry' = registry
          /\ stopping' = FALSE /\ persisted' = 0 /\ failed' = FALSE /\ tmp' = tmp /\ stopAt' = 0
          /\ confirmed' = confirmed /\ flushes' = flushes /\ crashes' = crashes + 1
      BY <1>6 DEF Crash
    <2>6. applied' \in Settings \cup {"never"} /\ writer' \in Callers \cup {Nobody}
      BY <2>5
    <2>7. registry' \in Settings /\ tmp' \in Files
      BY <2>5
    <2>8. confirmed' \in Nat /\ flushes' \in Nat /\ crashes' \in Nat
      BY <2>5
    <2> HIDE DEF Settings, IInv
    <2> QED
      BY <2>1, <2>2, <2>3, <2>4, <2>5, <2>6, <2>7, <2>8
  <1>7. CASE UNCHANGED vars
    BY <1>7 DEF vars
  <1> QED
    BY <1>1, <1>2, <1>3, <1>4, <1>5, <1>6, <1>7 DEF Next

\* The snapshot and the generation move together.
LEMMA SnapshotCountsStep == IInv /\ TypeOK' /\ [Next]_vars => SnapshotCounts'
  <1> SUFFICES ASSUME IInv, TypeOK', [Next]_vars PROVE SnapshotCounts'
    OBVIOUS
  <1> USE ConfigAssumption DEF IInv, TypeOK, store, callers, saving, disk, history, Configs,
           Settings, Files, SnapshotCounts
  <1>1. ASSUME NEW c \in Callers, NEW a \in Settings,
               NEW then \in {"publish", "publishSettings"}, update(c, a, then)
        PROVE SnapshotCounts'
    BY <1>1 DEF update, SnapshotCounts
  <1>2. ASSUME NEW c \in Callers, flush(c) PROVE SnapshotCounts'
    BY <1>2 DEF flush, Confirm
  <1>3. ASSUME NEW c \in Callers, CallerStep(c) PROVE SnapshotCounts'
    <2>1. CASE endUpdate(c)
      BY <2>1 DEF endUpdate
    <2>2. CASE apply(c)
      BY <2>2 DEF apply
    <2>3. CASE applyConfigEffects(c)
      BY <2>3 DEF applyConfigEffects
    <2>4. CASE flushReturns(c)
      BY <2>4 DEF flushReturns, Confirm
    <2> QED
      BY <1>3, <2>1, <2>2, <2>3, <2>4 DEF CallerStep
  <1>4. CASE stop
    BY <1>4 DEF stop
  <1>5. CASE SaverStep
    <2> USE DEF SaverGoes, SaverOnly, Attempting
    <2>1. CASE saverWakes
      BY <2>1 DEF saverWakes, FileIsKnown
    <2>2. CASE saverTakes
      BY <2>2 DEF saverTakes, SnapshotCounts, FileIsKnown
    <2>3. CASE openTmp
      BY <2>3 DEF openTmp, NoFile
    <2>4. CASE writeTmp
      BY <2>4 DEF writeTmp, Written, NoFile
    <2>5. CASE syncTmp
      BY <2>5 DEF syncTmp, Written, NoFile
    <2>6. CASE renameTmp
      BY <2>6 DEF renameTmp, AttemptIsNewer, NoFile
    <2>7. CASE saved
      BY <2>7 DEF saved, AttemptIsNewer, EndIsClean
    <2>8. CASE notSaved
      BY <2>8 DEF notSaved
    <2>9. CASE backoff
      BY <2>9 DEF backoff
    <2> QED
      BY <1>5, <2>1, <2>2, <2>3, <2>4, <2>5, <2>6, <2>7, <2>8, <2>9 DEF SaverStep
  <1>6. CASE Crash
    BY <1>6 DEF Crash, Resting, Default, FileIsKnown, Attempting
  <1>7. CASE UNCHANGED vars
    BY <1>7 DEF vars, Attempting
  <1> QED
    BY <1>1, <1>2, <1>3, <1>4, <1>5, <1>6, <1>7 DEF Next

\* Nothing older, torn or unsynced takes the place of the file.
LEMMA FileIsKnownStep == IInv /\ TypeOK' /\ [Next]_vars => FileIsKnown'
  <1> SUFFICES ASSUME IInv, TypeOK', [Next]_vars PROVE FileIsKnown'
    OBVIOUS
  <1> USE ConfigAssumption DEF IInv, TypeOK, store, callers, saving, disk, history, Configs,
           Settings, Files, FileIsKnown
  <1>1. ASSUME NEW c \in Callers, NEW a \in Settings,
               NEW then \in {"publish", "publishSettings"}, update(c, a, then)
        PROVE FileIsKnown'
    BY <1>1 DEF update, SnapshotCounts
  <1>2. ASSUME NEW c \in Callers, flush(c) PROVE FileIsKnown'
    BY <1>2 DEF flush, Confirm
  <1>3. ASSUME NEW c \in Callers, CallerStep(c) PROVE FileIsKnown'
    <2>1. CASE endUpdate(c)
      BY <2>1 DEF endUpdate
    <2>2. CASE apply(c)
      BY <2>2 DEF apply
    <2>3. CASE applyConfigEffects(c)
      BY <2>3 DEF applyConfigEffects
    <2>4. CASE flushReturns(c)
      BY <2>4 DEF flushReturns, Confirm
    <2> QED
      BY <1>3, <2>1, <2>2, <2>3, <2>4 DEF CallerStep
  <1>4. CASE stop
    BY <1>4 DEF stop
  <1>5. CASE SaverStep
    <2> USE DEF SaverGoes, SaverOnly, Attempting
    <2>1. CASE saverWakes
      BY <2>1 DEF saverWakes, FileIsKnown
    <2>2. CASE saverTakes
      BY <2>2 DEF saverTakes, SnapshotCounts, FileIsKnown
    <2>3. CASE openTmp
      BY <2>3 DEF openTmp, NoFile
    <2>4. CASE writeTmp
      BY <2>4 DEF writeTmp, Written, NoFile
    <2>5. CASE syncTmp
      BY <2>5 DEF syncTmp, Written, NoFile
    <2>6. CASE renameTmp
      BY <2>6 DEF renameTmp, AttemptIsNewer, NoFile
    <2>7. CASE saved
      BY <2>7 DEF saved, AttemptIsNewer, EndIsClean
    <2>8. CASE notSaved
      BY <2>8 DEF notSaved
    <2>9. CASE backoff
      BY <2>9 DEF backoff
    <2> QED
      BY <1>5, <2>1, <2>2, <2>3, <2>4, <2>5, <2>6, <2>7, <2>8, <2>9 DEF SaverStep
  <1>6. CASE Crash
    BY <1>6 DEF Crash, Resting, Default, FileIsKnown, Attempting
  <1>7. CASE UNCHANGED vars
    BY <1>7 DEF vars, Attempting
  <1> QED
    BY <1>1, <1>2, <1>3, <1>4, <1>5, <1>6, <1>7 DEF Next

\* What an attempt writes is what it took.
LEMMA AttemptIsNewerStep == IInv /\ TypeOK' /\ [Next]_vars => AttemptIsNewer'
  <1> SUFFICES ASSUME IInv, TypeOK', [Next]_vars PROVE AttemptIsNewer'
    OBVIOUS
  <1> USE ConfigAssumption DEF IInv, TypeOK, store, callers, saving, disk, history, Configs,
           Settings, Files, AttemptIsNewer
  <1>1. ASSUME NEW c \in Callers, NEW a \in Settings,
               NEW then \in {"publish", "publishSettings"}, update(c, a, then)
        PROVE AttemptIsNewer'
    BY <1>1 DEF update, SnapshotCounts
  <1>2. ASSUME NEW c \in Callers, flush(c) PROVE AttemptIsNewer'
    BY <1>2 DEF flush, Confirm
  <1>3. ASSUME NEW c \in Callers, CallerStep(c) PROVE AttemptIsNewer'
    <2>1. CASE endUpdate(c)
      BY <2>1 DEF endUpdate
    <2>2. CASE apply(c)
      BY <2>2 DEF apply
    <2>3. CASE applyConfigEffects(c)
      BY <2>3 DEF applyConfigEffects
    <2>4. CASE flushReturns(c)
      BY <2>4 DEF flushReturns, Confirm
    <2> QED
      BY <1>3, <2>1, <2>2, <2>3, <2>4 DEF CallerStep
  <1>4. CASE stop
    BY <1>4 DEF stop
  <1>5. CASE SaverStep
    <2> USE DEF SaverGoes, SaverOnly, Attempting
    <2>1. CASE saverWakes
      BY <2>1 DEF saverWakes, FileIsKnown
    <2>2. CASE saverTakes
      BY <2>2 DEF saverTakes, SnapshotCounts, FileIsKnown
    <2>3. CASE openTmp
      BY <2>3 DEF openTmp, NoFile
    <2>4. CASE writeTmp
      BY <2>4 DEF writeTmp, Written, NoFile
    <2>5. CASE syncTmp
      BY <2>5 DEF syncTmp, Written, NoFile
    <2>6. CASE renameTmp
      BY <2>6 DEF renameTmp, AttemptIsNewer, NoFile
    <2>7. CASE saved
      BY <2>7 DEF saved, AttemptIsNewer, EndIsClean
    <2>8. CASE notSaved
      BY <2>8 DEF notSaved
    <2>9. CASE backoff
      BY <2>9 DEF backoff
    <2> QED
      BY <1>5, <2>1, <2>2, <2>3, <2>4, <2>5, <2>6, <2>7, <2>8, <2>9 DEF SaverStep
  <1>6. CASE Crash
    BY <1>6 DEF Crash, Resting, Default, FileIsKnown, Attempting
  <1>7. CASE UNCHANGED vars
    BY <1>7 DEF vars, Attempting
  <1> QED
    BY <1>1, <1>2, <1>3, <1>4, <1>5, <1>6, <1>7 DEF Next

\* A last attempt covers what stop() found.
LEMMA EndIsCleanStep == IInv /\ TypeOK' /\ [Next]_vars => EndIsClean'
  <1> SUFFICES ASSUME IInv, TypeOK', [Next]_vars PROVE EndIsClean'
    OBVIOUS
  <1> USE ConfigAssumption DEF IInv, TypeOK, store, callers, saving, disk, history, Configs,
           Settings, Files, EndIsClean, StopSaves
  <1>1. ASSUME NEW c \in Callers, NEW a \in Settings,
               NEW then \in {"publish", "publishSettings"}, update(c, a, then)
        PROVE EndIsClean'
    BY <1>1 DEF update, SnapshotCounts
  <1>2. ASSUME NEW c \in Callers, flush(c) PROVE EndIsClean'
    BY <1>2 DEF flush, Confirm
  <1>3. ASSUME NEW c \in Callers, CallerStep(c) PROVE EndIsClean'
    <2>1. CASE endUpdate(c)
      BY <2>1 DEF endUpdate
    <2>2. CASE apply(c)
      BY <2>2 DEF apply
    <2>3. CASE applyConfigEffects(c)
      BY <2>3 DEF applyConfigEffects
    <2>4. CASE flushReturns(c)
      BY <2>4 DEF flushReturns, Confirm
    <2> QED
      BY <1>3, <2>1, <2>2, <2>3, <2>4 DEF CallerStep
  <1>4. CASE stop
    BY <1>4 DEF stop
  <1>5. CASE SaverStep
    <2> USE DEF SaverGoes, SaverOnly, Attempting
    <2>1. CASE saverWakes
      BY <2>1 DEF saverWakes, FileIsKnown
    <2>2. CASE saverTakes
      BY <2>2 DEF saverTakes, SnapshotCounts, FileIsKnown
    <2>3. CASE openTmp
      BY <2>3 DEF openTmp, NoFile
    <2>4. CASE writeTmp
      BY <2>4 DEF writeTmp, Written, NoFile
    <2>5. CASE syncTmp
      BY <2>5 DEF syncTmp, Written, NoFile
    <2>6. CASE renameTmp
      BY <2>6 DEF renameTmp, AttemptIsNewer, NoFile
    <2>7. CASE saved
      <3>1. CASE saver.final
        BY <2>7, <3>1 DEF saved
      <3>2. CASE ~saver.final
        BY <2>7, <3>2 DEF saved
      <3> QED
        BY <3>1, <3>2
    <2>8. CASE notSaved
      BY <2>8 DEF notSaved
    <2>9. CASE backoff
      BY <2>9 DEF backoff
    <2> QED
      BY <1>5, <2>1, <2>2, <2>3, <2>4, <2>5, <2>6, <2>7, <2>8, <2>9 DEF SaverStep
  <1>6. CASE Crash
    BY <1>6 DEF Crash, Resting, Default, FileIsKnown, Attempting
  <1>7. CASE UNCHANGED vars
    BY <1>7 DEF vars, Attempting
  <1> QED
    BY <1>1, <1>2, <1>3, <1>4, <1>5, <1>6, <1>7 DEF Next

\* A change of a setting is looked at by its caller after every earlier one.
LEMMA EffectsPendingStep == IInv /\ TypeOK' /\ [Next]_vars => EffectsPending'
  <1> SUFFICES ASSUME IInv, TypeOK', [Next]_vars PROVE EffectsPending'
    OBVIOUS
  <1> USE ConfigAssumption DEF IInv, TypeOK, store, callers, saving, disk, history, Configs,
           Settings, Files, EffectsPending
  <1>1. ASSUME NEW c \in Callers, NEW a \in Settings,
               NEW then \in {"publish", "publishSettings"}, update(c, a, then)
        PROVE EffectsPending'
    BY <1>1 DEF update, SnapshotCounts
  <1>2. ASSUME NEW c \in Callers, flush(c) PROVE EffectsPending'
    BY <1>2 DEF flush, Confirm
  <1>3. ASSUME NEW c \in Callers, CallerStep(c) PROVE EffectsPending'
    <2>1. CASE endUpdate(c)
      BY <2>1 DEF endUpdate
    <2>2. CASE apply(c)
      BY <2>2 DEF apply
    <2>3. CASE applyConfigEffects(c)
      BY <2>3 DEF applyConfigEffects
    <2>4. CASE flushReturns(c)
      BY <2>4 DEF flushReturns, Confirm
    <2> QED
      BY <1>3, <2>1, <2>2, <2>3, <2>4 DEF CallerStep
  <1>4. CASE stop
    BY <1>4 DEF stop
  <1>5. CASE SaverStep
    <2> USE DEF SaverGoes, SaverOnly, Attempting
    <2>1. CASE saverWakes
      BY <2>1 DEF saverWakes, FileIsKnown
    <2>2. CASE saverTakes
      BY <2>2 DEF saverTakes, SnapshotCounts, FileIsKnown
    <2>3. CASE openTmp
      BY <2>3 DEF openTmp, NoFile
    <2>4. CASE writeTmp
      BY <2>4 DEF writeTmp, Written, NoFile
    <2>5. CASE syncTmp
      BY <2>5 DEF syncTmp, Written, NoFile
    <2>6. CASE renameTmp
      BY <2>6 DEF renameTmp, AttemptIsNewer, NoFile
    <2>7. CASE saved
      BY <2>7 DEF saved, AttemptIsNewer, EndIsClean
    <2>8. CASE notSaved
      BY <2>8 DEF notSaved
    <2>9. CASE backoff
      BY <2>9 DEF backoff
    <2> QED
      BY <1>5, <2>1, <2>2, <2>3, <2>4, <2>5, <2>6, <2>7, <2>8, <2>9 DEF SaverStep
  <1>6. CASE Crash
    BY <1>6 DEF Crash, Resting, Default, FileIsKnown, Attempting
  <1>7. CASE UNCHANGED vars
    BY <1>7 DEF vars, Attempting
  <1> QED
    BY <1>1, <1>2, <1>3, <1>4, <1>5, <1>6, <1>7 DEF Next

\* The inductive invariant holds throughout.
THEOREM Invariance == Spec => []IInv
  <1>1. Init => IInv
    <2> SUFFICES ASSUME Init PROVE IInv
      OBVIOUS
    <2>1. TypeOK
      <3>1. [cfg |-> Default, whole |-> TRUE, synced |-> TRUE] \in Files
        BY FileTypes DEF Files
      <3> QED
        BY <3>1, FileTypes DEF Init, TypeOK, Resting, Settings
    <2>2. SnapshotCounts /\ FileIsKnown /\ EndIsClean /\ AttemptIsNewer
      BY ConfigAssumption DEF Init, SnapshotCounts, FileIsKnown, EndIsClean, AttemptIsNewer,
         StopSaves, Resting, Default, Attempting
    <2>3. EffectsPending
      BY DEF Init, EffectsPending
    <2> QED
      BY <2>1, <2>2, <2>3 DEF IInv
  <1>2. IInv /\ [Next]_vars => IInv'
    BY TypeStep, SnapshotCountsStep, FileIsKnownStep, AttemptIsNewerStep, EndIsCleanStep,
       EffectsPendingStep DEF IInv
  <1> QED
    BY <1>1, <1>2, PTL DEF Spec

\* The store, its threads and its files keep their types.
THEOREM TypeCorrect == Spec => []TypeOK
  BY Invariance, PTL DEF IInv

\* A flush that answers true has everything published before it in a file that survives
\* a crash, and a loss of power if renames are written through.
THEOREM FlushDurable == Spec => []FlushIsDurable
  <1>1. IInv => FlushIsDurable
    BY DEF IInv, TypeOK, Files, Configs, FileIsKnown, FlushIsDurable
  <1> QED
    BY <1>1, Invariance, PTL

\* stop() without a failed attempt has saved everything published before it.
THEOREM StopSavesAll == Spec => []StopSaves
  <1>1. IInv => StopSaves
    BY DEF IInv, EndIsClean
  <1> QED
    BY <1>1, Invariance, PTL

\* Concurrent settings requests leave the system with the latest setting.
THEOREM EffectsSettle == Spec => []EffectsFollow
  <1>1. IInv => EffectsFollow
    BY DEF IInv, EffectsPending, EffectsFollow
  <1> QED
    BY <1>1, Invariance, PTL

\* No save, crash or loss of power tears the file or takes it back, unless the power goes
\* before a rename has reached the disk.
THEOREM FileForward == Spec => FileMovesForward
  <1> DEFINE Forward ==
           /\ file'.whole
           /\ file'.cfg.n >= file.cfg.n \/ (~WriteThrough /\ lost' /\ crashes' # crashes)
  <1>1. IInv /\ IInv' /\ [Next]_vars => Forward
    <2> SUFFICES ASSUME IInv, IInv', [Next]_vars PROVE Forward
      OBVIOUS
    <2>1. file'.whole /\ file.cfg.n \in Nat
      BY DEF IInv, FileIsKnown, TypeOK, Files, Configs
    <2>2. CASE renameTmp
      BY <2>1, <2>2 DEF renameTmp, SaverGoes, IInv, AttemptIsNewer, Attempting, TypeOK, Files,
         Configs
    <2>3. CASE Crash
      <3>1. crashes' # crashes
        BY <2>3 DEF Crash, IInv, TypeOK
      <3>2. CASE UNCHANGED file
        BY <2>1, <3>2
      <3>3. CASE file' = older /\ ~WriteThrough /\ lost'
        BY <2>1, <3>1, <3>3
      <3> QED
        BY <2>3, <3>2, <3>3 DEF Crash, IInv, FileIsKnown
    <2>4. CASE ~renameTmp /\ ~Crash
      <3>1. UNCHANGED file
        BY <2>4 DEF Next, update, flush, Confirm, CallerStep, endUpdate, apply, applyConfigEffects,
           flushReturns, stop, SaverStep, saverWakes, saverTakes, openTmp, writeTmp, syncTmp,
           saved, notSaved, backoff, vars, disk
      <3> QED
        BY <2>1, <3>1
    <2> QED
      BY <2>2, <2>3, <2>4
  <1>2. IInv /\ IInv' /\ [Next]_vars => [Forward]_vars
    BY <1>1
  <1> QED
    BY <1>2, Invariance, PTL DEF Spec, FileMovesForward
=============================================================================
