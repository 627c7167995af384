--------------------------- MODULE UpdateService ---------------------------
(***************************************************************************)
(* The update service (src/core/update_service.cpp): requests of the        *)
(* dashboard and the tray, a timer, and one worker that checks, downloads,  *)
(* verifies and installs through the updater port.  Every request and every *)
(* step of the worker that holds mtx_ is one action; the port's calls run   *)
(* with the lock free, so anything may happen while they last.              *)
(*                                                                         *)
(* A release is its version, the bytes of its asset, and whether it         *)
(* publishes a digest of them.  An asset is stored under a name that        *)
(* follows its version.                                                     *)
(***************************************************************************)
EXTENDS Integers

CONSTANTS
    Releases,        \* what the release page may name: [version, bytes, digest]
    Empty,           \* the release of a default UpdateInfo: version, bytes 0
    CurrentVersion,  \* the version that runs
    InstallMethod,   \* of this machine's releases: "SelfInstall" or "Manual"
    MaxCalls         \* bound: requests made

Versions == {r.version : r \in Releases}

ASSUME UpdateAssumption ==
    /\ Empty = [version |-> 0, bytes |-> 0, digest |-> FALSE]
    /\ \A r \in Releases : r.version \in Nat \ {0} /\ r.bytes \in Nat \ {0}
                           /\ r.digest \in BOOLEAN
                           /\ r = [version |-> r.version, bytes |-> r.bytes,
                                   digest |-> r.digest]
    /\ CurrentVersion \in Nat
    /\ InstallMethod \in {"SelfInstall", "Manual"}
    /\ MaxCalls \in Nat

VARIABLES
    state, failedPhase,          \* state_, failedPhase_
    info, available,             \* info_ and its field available
    staged,                      \* staged_: the release that was verified
    path,                        \* downloadedPath_: the version in the file name
    dismissed,                   \* dismissedVersion_
    pending,                     \* pendingCheck_, pendingDownload_, pendingInstall_
    repairPending, userCheck,    \* repairPending_, userInitiatedCheck_
    cancelFlag,
    config,                      \* skipVersion, autoDownload, autoInstall
    disk,                        \* disk[v]: the bytes stored for version v, -1 torn
    worker,                      \* the worker: where it is and its locals
    caller,                      \* a request between two of its sections
    stopping,                    \* stop(): "no", "set", "joining"
    launched,                    \* the installer runs, this process is to exit
    asked,                       \* history: what the user waits for: "check", "cancel"
    calls

phase  == <<state, failedPhase, dismissed>>
known  == <<info, available>>
files  == <<staged, path, disk>>
wanted == <<pending, repairPending, userCheck>>
ends   == <<cancelFlag, stopping, launched>>
vars   == <<phase, known, files, wanted, ends, config, worker, caller, asked, calls>>

States == {"Idle", "Checking", "UpToDate", "UpdateAvailable", "Downloading",
           "Verifying", "Downloaded", "Installing", "Error"}
Torn == -1
Disks == {0, Torn} \cup {r.bytes : r \in Releases}
Known == Releases \cup {Empty}

\* The worker between two of its sections, with the locals it carries along.
At(where) == [at |-> where, rel |-> Empty, arg |-> 0, ok |-> FALSE]
With(where, r, arg, ok) == [at |-> where, rel |-> r, arg |-> arg, ok |-> ok]
Places == {"idle", "check", "fetched", "queue", "queueing", "begin", "download",
           "settleDownload", "verify", "verified", "install", "apply",
           "settleInstall", "done"}
NoCall == [then |-> "none", arg |-> 0]

Init ==
    /\ state = "Idle" /\ failedPhase = "Idle" /\ dismissed = 0
    /\ info = Empty /\ available = FALSE
    /\ staged = Empty /\ path = 0 /\ disk = [v \in Versions |-> 0]
    /\ pending = {} /\ repairPending = FALSE /\ userCheck = FALSE
    /\ cancelFlag = FALSE /\ stopping = "no" /\ launched = FALSE
    /\ config \in [skipVersion : {0}, autoDownload : BOOLEAN, autoInstall : BOOLEAN]
    /\ worker = At("idle")
    /\ caller = NoCall
    /\ asked = {} /\ calls = 0
-----------------------------------------------------------------------------
(* The predicates and the assignments the sections share.                   *)

workInFlight(s) == s \in {"Checking", "Downloading", "Verifying", "Installing"}
dismissible(s) == s \in {"UpdateAvailable", "Downloaded"}

\* Version, name and digest are those of the verified asset.  Two assets without a
\* digest look the same.
isStaged(r) ==
    /\ staged # Empty
    /\ r.version = staged.version /\ r.digest = staged.digest
    /\ r.digest => r.bytes = staged.bytes

failedCheckState ==
    IF userCheck THEN "Error"
    ELSE IF isStaged(info) THEN "Downloaded"
    ELSE IF available THEN "UpdateAvailable" ELSE "Error"

retryStepFor ==
    CASE state # "Error" -> "none"
      [] state = "Error" /\ failedPhase \in {"Downloading", "Verifying"} ->
            IF available THEN "download" ELSE "repair"
      [] state = "Error" /\ failedPhase = "Installing" -> "install"
      [] OTHER -> "check"

\* The method of a default UpdateInfo is SelfInstall, whatever the machine's is.
Manual(r) == r # Empty /\ InstallMethod = "Manual"

checkQueued == "check" \in pending \/ state = "Checking"
checkSuperseded == state # "Checking" \/ "check" \in pending

enterState(s) == state' = s /\ failedPhase' = "Idle"
fail(during) == state' = "Error" /\ failedPhase' = during /\ UNCHANGED dismissed

acceptCheck(userInitiated) ==
    /\ pending' = pending \cup {"check"}
    /\ userCheck' = userInitiated
    /\ enterState("Checking")

acceptDownload ==
    /\ pending' = pending \cup {"download"}
    /\ dismissed' = 0
    /\ enterState("Downloading")

acceptInstall ==
    /\ pending' = pending \cup {"install"}
    /\ repairPending' = FALSE
    /\ dismissed' = 0
    /\ enterState("Installing")

abandonDownload == enterState(IF available THEN "UpdateAvailable" ELSE "Idle")
-----------------------------------------------------------------------------
(* The requests.                                                            *)

\* Mutant: a request that joins a queued check decides who asked for it.
CheckOverwrites(userInitiated) ==
    IF checkQueued
      THEN userCheck' = userInitiated /\ UNCHANGED <<phase, pending>>
      ELSE IF workInFlight(state) THEN UNCHANGED <<phase, pending, userCheck>>
      ELSE acceptCheck(userInitiated) /\ UNCHANGED dismissed

\* The section of requestCheck.
Check(userInitiated) ==
    IF checkQueued
      THEN userCheck' = (userCheck \/ userInitiated) /\ UNCHANGED <<phase, pending>>
      ELSE IF workInFlight(state) THEN UNCHANGED <<phase, pending, userCheck>>
      ELSE acceptCheck(userInitiated) /\ UNCHANGED dismissed

\* The user waits for the check they started or joined.
Await(userInitiated) ==
    asked' = IF userInitiated /\ (checkQueued \/ ~workInFlight(state))
             THEN asked \cup {"check"} ELSE asked

Call == calls < MaxCalls /\ calls' = calls + 1

requestCheck(userInitiated) ==
    /\ Check(userInitiated) /\ Await(userInitiated)
    /\ UNCHANGED <<known, files, repairPending, ends, config, worker>>

requestDownload ==
    /\ IF state \in {"UpdateAvailable", "Error"} /\ available /\ ~Manual(info)
         THEN acceptDownload
         ELSE UNCHANGED <<phase, pending>>
    /\ UNCHANGED <<known, files, repairPending, userCheck, ends, config, worker, asked>>

requestRepair ==
    /\ IF Manual(info) THEN UNCHANGED <<phase, wanted, asked>>
       ELSE IF checkQueued
         THEN /\ repairPending' = TRUE /\ userCheck' = TRUE /\ dismissed' = 0
              /\ asked' = asked \cup {"check"}
              /\ UNCHANGED <<state, failedPhase, pending>>
       ELSE IF workInFlight(state) \/ state = "Downloaded"
         THEN UNCHANGED <<phase, wanted, asked>>
       ELSE /\ repairPending' = TRUE
            /\ IF info.version = 0
                 THEN acceptCheck(TRUE) /\ asked' = asked \cup {"check"} /\ UNCHANGED dismissed
                 ELSE acceptDownload /\ UNCHANGED <<userCheck, asked>>
    /\ UNCHANGED <<known, files, ends, config, worker>>

\* Mutant: an install does not ask for a verified file.
InstallUnstaged ==
    /\ IF state = "Downloaded" \/ (state = "Error" /\ failedPhase \in {"Verifying", "Installing"})
         THEN acceptInstall
         ELSE UNCHANGED <<phase, pending, repairPending>>
    /\ UNCHANGED <<known, files, userCheck, ends, config, worker, asked>>

requestInstall ==
    /\ IF /\ state = "Downloaded" \/ (state = "Error" /\ failedPhase = "Installing")
          /\ isStaged(info)
         THEN acceptInstall
         ELSE UNCHANGED <<phase, pending, repairPending>>
    /\ UNCHANGED <<known, files, userCheck, ends, config, worker, asked>>

\* requestRetry looks at the failure, lets go of the lock and makes the request.
requestRetry ==
    /\ Call /\ caller = NoCall
    /\ caller' = [then |-> retryStepFor, arg |-> 0]
    /\ UNCHANGED <<phase, known, files, wanted, ends, config, worker, asked>>

\* Mutant: a queued download is not taken back.
CancelRunningOnly ==
    /\ Call
    /\ cancelFlag' = TRUE
    /\ asked' = IF state = "Downloading" THEN asked \cup {"cancel"} ELSE asked
    /\ UNCHANGED <<phase, wanted, known, files, stopping, launched, config, worker, caller>>

cancelInFlight ==
    /\ Call
    /\ cancelFlag' = TRUE
    /\ IF "download" \in pending
         THEN /\ pending' = pending \ {"download"}
              /\ repairPending' = FALSE
              /\ abandonDownload
              /\ UNCHANGED <<dismissed, userCheck>>
         ELSE UNCHANGED <<phase, wanted>>
    /\ asked' = IF state' = "Downloading" THEN asked \cup {"cancel"} ELSE asked \ {"cancel"}
    /\ UNCHANGED <<known, files, stopping, launched, config, worker, caller>>

\* skipVersion for the release on display: the configuration first, the state after.
skipVersion ==
    /\ Call /\ caller = NoCall /\ info # Empty
    /\ config' = [config EXCEPT !.skipVersion = info.version]
    /\ caller' = [then |-> "skip", arg |-> info.version]
    /\ UNCHANGED <<phase, known, files, wanted, ends, worker, asked>>

skipState(version) ==
    /\ IF info.version = version
         THEN /\ info' = Empty /\ available' = FALSE
              /\ enterState("Idle")
              /\ asked' = {}
              /\ UNCHANGED dismissed
         ELSE UNCHANGED <<phase, known, asked>>
    /\ staged' = IF staged.version = version THEN Empty ELSE staged
    /\ UNCHANGED <<path, disk, wanted, ends, config, worker>>

dismiss ==
    /\ Call /\ dismissible(state)
    /\ dismissed' = info.version
    /\ UNCHANGED <<state, failedPhase, known, files, wanted, ends, config, worker, caller, asked>>

\* A changed channel asks for a check once the preferences are stored.
updatePreferences(download, install, channelChanged) ==
    /\ Call /\ caller = NoCall
    /\ config' = [config EXCEPT !.autoDownload = download, !.autoInstall = install]
    /\ caller' = IF channelChanged THEN [then |-> "recheck", arg |-> 0] ELSE NoCall
    /\ UNCHANGED <<phase, known, files, wanted, ends, worker, asked>>

\* The second half of a request that holds the lock twice.
Continue ==
    /\ caller # NoCall
    /\ caller' = NoCall
    /\ CASE caller.then = "skip"     -> skipState(caller.arg)
         [] caller.then = "recheck"  -> requestCheck(FALSE)
         [] caller.then = "check"    -> requestCheck(TRUE)
         [] caller.then = "download" -> requestDownload
         [] caller.then = "repair"   -> requestRepair
         [] caller.then = "install"  -> requestInstall
    /\ UNCHANGED calls

\* The dashboard's and the tray's requests; the timer's is a check nobody asked for.
Request ==
    /\ Call /\ UNCHANGED caller
    /\ \/ \E u \in BOOLEAN : requestCheck(u)
       \/ requestDownload \/ requestRepair \/ requestInstall

\* stop(): the flag, then under the lock the cancel flag and the wake, then the join.
stop ==
    /\ stopping = "no"
    /\ stopping' = "set"
    /\ UNCHANGED <<phase, known, files, wanted, cancelFlag, launched, config, worker, caller,
                   asked, calls>>

stopJoin ==
    /\ stopping = "set"
    /\ stopping' = "joining" /\ cancelFlag' = TRUE
    /\ UNCHANGED <<phase, known, files, wanted, launched, config, worker, caller, asked, calls>>
-----------------------------------------------------------------------------
(* The worker.  Each section leaves what its successor needs in worker.     *)

Goes(next) == worker' = next /\ UNCHANGED <<caller, calls, stopping, launched>>

\* Install outranks download outranks check.
takeNextJob ==
    /\ worker.at = "idle"
    /\ stopping # "no" \/ pending # {}
    /\ IF stopping # "no"
         THEN Goes(At("done")) /\ UNCHANGED <<cancelFlag, pending, phase>>
         ELSE /\ cancelFlag' = FALSE
              /\ IF "install" \in pending
                   THEN /\ pending' = pending \ {"install"}
                        /\ Goes(At("install")) /\ UNCHANGED phase
                 ELSE IF "download" \in pending
                   THEN /\ pending' = pending \ {"download"}
                        /\ Goes(At("begin")) /\ UNCHANGED phase
                 ELSE /\ pending' = pending \ {"check"}
                      /\ enterState("Checking")
                      /\ Goes(At("check")) /\ UNCHANGED dismissed
    /\ UNCHANGED <<known, files, repairPending, userCheck, config, asked>>

\* The port's answer: some release of the page, or no answer, or one without an asset.
fetchLatestRelease ==
    {[ok |-> TRUE, rel |-> r] : r \in Releases} \cup {[ok |-> FALSE, rel |-> Empty]}

\* doCheck reads the configuration, then fetches: the version to skip may change since.
beginCheck ==
    /\ worker.at = "check"
    /\ \E f \in fetchLatestRelease : Goes(With("fetched", f.rel, config.skipVersion, f.ok))
    /\ UNCHANGED <<phase, known, files, wanted, cancelFlag, config, asked>>

\* A newer release that is not skipped is offered.
Offered(r, skip) == r.version > CurrentVersion /\ ~(skip # 0 /\ r.version <= skip)

\* Mutant: a check that something has overtaken still settles.
SettleAnyway ==
    /\ worker.at = "fetched" /\ worker.ok
    /\ info' = worker.rel
    /\ available' = Offered(worker.rel, worker.arg)
    /\ enterState(IF isStaged(worker.rel) THEN "Downloaded"
                  ELSE IF available' THEN "UpdateAvailable" ELSE "UpToDate")
    /\ dismissed' = 0 /\ asked' = asked \ {"check"}
    /\ Goes(With("queue", Empty, 0, TRUE))
    /\ UNCHANGED <<files, wanted, cancelFlag, config>>

settleCheck ==
    /\ worker.at = "fetched" /\ worker.ok
    /\ IF checkSuperseded THEN UNCHANGED <<known, phase, asked>>
       ELSE /\ info' = worker.rel
            /\ available' = Offered(worker.rel, worker.arg)
            /\ enterState(IF isStaged(worker.rel) THEN "Downloaded"
                          ELSE IF available' THEN "UpdateAvailable" ELSE "UpToDate")
            /\ dismissed' = 0 /\ asked' = asked \ {"check"}
    /\ Goes(With("queue", Empty, 0, TRUE))
    /\ UNCHANGED <<files, wanted, cancelFlag, config>>

settleFailedCheck ==
    /\ worker.at = "fetched" /\ ~worker.ok
    /\ IF checkSuperseded THEN UNCHANGED <<phase, asked>>
       ELSE /\ state' = failedCheckState
            /\ failedPhase' = IF state' = "Error" THEN "Checking" ELSE "Idle"
            /\ asked' = asked \ {"check"}
            /\ UNCHANGED dismissed
    /\ Goes(With("queue", Empty, 0, FALSE))
    /\ UNCHANGED <<known, files, wanted, cancelFlag, config>>

\* queueDownloadIfWanted reads the preference, then takes the lock.
readAutoDownload ==
    /\ worker.at = "queue"
    /\ Goes([worker EXCEPT !.at = "queueing", !.arg = IF config.autoDownload THEN 1 ELSE 0])
    /\ UNCHANGED <<phase, known, files, wanted, cancelFlag, config, asked>>

queueDownloadIfWanted ==
    /\ worker.at = "queueing"
    /\ LET selfInstallable == ~Manual(info)
           offered == worker.ok /\ state = "UpdateAvailable" /\ selfInstallable
           repairWanted == /\ repairPending /\ worker.ok /\ state # "Downloaded"
                           /\ info.version # 0 /\ selfInstallable
       IN IF workInFlight(state) THEN UNCHANGED <<phase, pending, repairPending>>
          ELSE /\ repairPending' = repairWanted
               /\ IF (worker.arg = 1 /\ offered) \/ repairWanted
                    THEN acceptDownload ELSE UNCHANGED <<phase, pending>>
    /\ Goes(At("idle"))
    /\ UNCHANGED <<known, files, userCheck, cancelFlag, config, asked>>

\* Moves into Downloading, or settles; an accepted check has taken the download's place.
beginDownload ==
    /\ worker.at = "begin"
    /\ IF "check" \in pending
         THEN Goes(At("idle")) /\ UNCHANGED <<state, failedPhase, repairPending, staged>>
         ELSE /\ repairPending' = FALSE
              /\ IF (~available /\ ~repairPending) \/ Manual(info)
                   THEN abandonDownload /\ Goes(At("idle")) /\ UNCHANGED staged
                   ELSE /\ enterState("Downloading")
                        /\ staged' = Empty
                        /\ Goes(With("download", info, 0, FALSE))
    /\ asked' = IF state' = "Downloading" THEN asked ELSE asked \ {"cancel"}
    /\ UNCHANGED <<dismissed, known, path, disk, pending, userCheck, cancelFlag, config>>

\* The port's downloadArtifact.  It ends when it was cancelled, and may end by itself; what
\* it stored is the asset, or damaged, or cut off.  A default UpdateInfo has no URL to open.
\* After a failure the worker looks whether it was cancelled.
CancelledDownload ==
    /\ worker.at = "download" /\ cancelFlag
    /\ disk' = IF worker.rel = Empty THEN disk ELSE [disk EXCEPT ![worker.rel.version] = Torn]
    /\ Goes([worker EXCEPT !.at = "settleDownload", !.ok = FALSE,
                         !.arg = IF cancelFlag THEN 1 ELSE 0])
    /\ UNCHANGED <<phase, known, staged, path, wanted, cancelFlag, config, asked>>

downloadArtifact ==
    /\ worker.at = "download"
    /\ \/ /\ worker.rel # Empty
          /\ \E b \in {worker.rel.bytes, Torn} :
                disk' = [disk EXCEPT ![worker.rel.version] = b]
          /\ Goes([worker EXCEPT !.at = "settleDownload", !.ok = TRUE])
       \/ /\ disk' = IF worker.rel = Empty THEN disk
                     ELSE [disk EXCEPT ![worker.rel.version] = Torn]
          /\ Goes([worker EXCEPT !.at = "settleDownload", !.ok = FALSE,
                         !.arg = IF cancelFlag THEN 1 ELSE 0])
    /\ UNCHANGED <<phase, known, staged, path, wanted, cancelFlag, config, asked>>

\* The end of doDownload, after a success, a failure or a cancel.
settleDownload ==
    /\ worker.at = "settleDownload"
    /\ IF state # "Downloading"
         THEN Goes(At("idle")) /\ UNCHANGED <<phase, path>>
       ELSE IF worker.ok
         THEN /\ path' = worker.rel.version
              /\ state' = "Verifying" /\ UNCHANGED <<failedPhase, dismissed>>
              /\ Goes(At("verify"))
       ELSE IF worker.arg = 1
         THEN abandonDownload /\ Goes(At("idle")) /\ UNCHANGED <<path, dismissed>>
       ELSE fail("Downloading") /\ Goes(At("idle")) /\ UNCHANGED path
    /\ asked' = asked \ {"cancel"}
    /\ UNCHANGED <<known, staged, disk, wanted, cancelFlag, config>>

\* The port's verifyArtifact: the digest decides, and where none is published a release
\* passes (Linux) or needs a signature (Windows).
verifyArtifact(file, r) ==
    IF r.digest THEN {file = r.bytes} ELSE BOOLEAN

\* doVerify takes the release and the file, verifies, and reads the preference.
doVerify ==
    /\ worker.at = "verify"
    /\ \E ok \in verifyArtifact(IF path = 0 THEN 0 ELSE disk[path], info) :
          Goes(With("verified", info, IF ok /\ config.autoInstall THEN 1 ELSE 0, ok))
    /\ UNCHANGED <<phase, known, files, wanted, cancelFlag, config, asked>>

settleVerify ==
    /\ worker.at = "verified"
    /\ IF state # "Verifying" THEN UNCHANGED <<phase, staged, pending, repairPending>>
       ELSE IF ~worker.ok THEN fail("Verifying") /\ UNCHANGED <<staged, pending, repairPending>>
       ELSE /\ staged' = worker.rel
            /\ IF worker.arg = 1 THEN acceptInstall
               ELSE /\ state' = "Downloaded"
                    /\ UNCHANGED <<failedPhase, dismissed, pending, repairPending>>
    /\ Goes(At("idle"))
    /\ UNCHANGED <<known, path, disk, userCheck, cancelFlag, config, asked>>

doInstall ==
    /\ worker.at = "install"
    /\ Goes(IF state = "Installing" THEN With("apply", info, path, FALSE) ELSE At("idle"))
    /\ UNCHANGED <<phase, known, files, wanted, cancelFlag, config, asked>>

\* The port's applyUpdate: the installer runs and this process is told to exit.
applyUpdate ==
    /\ worker.at = "apply"
    /\ \/ launched' = TRUE /\ worker' = At("idle")
       \/ launched' = launched /\ worker' = At("settleInstall")
    /\ UNCHANGED <<phase, known, files, wanted, cancelFlag, stopping, config, caller, asked, calls>>

settleFailedInstall ==
    /\ worker.at = "settleInstall"
    /\ IF state = "Installing" THEN fail("Installing") ELSE UNCHANGED phase
    /\ Goes(At("idle"))
    /\ UNCHANGED <<known, files, wanted, cancelFlag, config, asked>>

WorkerStep ==
    \/ takeNextJob \/ beginCheck \/ settleCheck \/ settleFailedCheck
    \/ readAutoDownload \/ queueDownloadIfWanted
    \/ beginDownload \/ CancelledDownload \/ settleDownload
    \/ doVerify \/ settleVerify \/ doInstall \/ applyUpdate \/ settleFailedInstall

Requests ==
    \/ Request \/ requestRetry \/ cancelInFlight \/ skipVersion \/ dismiss
    \/ \E d, i, c \in BOOLEAN : updatePreferences(d, i, c)

Stopped == worker.at = "done" /\ stopping = "joining" /\ caller = NoCall /\ UNCHANGED vars

Next ==
    \/ Requests \/ Continue \/ stop \/ stopJoin
    \/ WorkerStep \/ downloadArtifact
    \/ Stopped

Spec == Init /\ [][Next]_vars

\* The threads of the process run on, the port's calls return, a cancelled download ends.
\* A download that nobody cancels may hang, and nobody need ever ask or stop.
FairSpec == Spec /\ WF_vars(WorkerStep) /\ WF_vars(Continue) /\ WF_vars(stopJoin)
-----------------------------------------------------------------------------
\* The service, its files and its threads stay in their types.
TypeOK ==
    /\ state \in States /\ failedPhase \in States
    /\ info \in Known /\ available \in BOOLEAN
    /\ staged \in Known /\ path \in Versions \cup {0}
    /\ dismissed \in Versions \cup {0}
    /\ pending \subseteq {"check", "download", "install"}
    /\ repairPending \in BOOLEAN /\ userCheck \in BOOLEAN /\ cancelFlag \in BOOLEAN
    /\ config \in [skipVersion : Versions \cup {0}, autoDownload : BOOLEAN,
                   autoInstall : BOOLEAN]
    /\ disk \in [Versions -> Disks]
    /\ worker \in [at : Places, rel : Known, arg : Versions \cup {0, 1}, ok : BOOLEAN]
    /\ caller \in [then : {"none", "skip", "recheck", "check", "download", "repair", "install"},
                   arg : Versions \cup {0}]
    /\ stopping \in {"no", "set", "joining"}
    /\ launched \in BOOLEAN /\ asked \subseteq {"check", "cancel"} /\ calls \in 0..MaxCalls

\* A state that tells the user to wait always has its job queued or under way: no skip,
\* cancel or overtaken result leaves the dashboard on a step nobody works on.
InFlightHasAJob ==
    /\ state = "Checking" => "check" \in pending \/ worker.at \in {"check", "fetched"}
    /\ state = "Downloading" =>
          "download" \in pending \/ worker.at \in {"begin", "download", "settleDownload"}
    /\ state = "Verifying" => worker.at \in {"verify", "verified"}
    /\ state = "Installing" =>
          "install" \in pending \/ worker.at \in {"install", "apply", "settleInstall"} \/ launched

\* What is staged is on disk as it was verified, also after later checks, downloads that
\* failed and a re-published release; and what the installer is handed is the release the
\* service names, in the file that was verified for it.  Where no digest is published only
\* the file's name can be right.
InstallsWhatItVerified ==
    /\ staged # Empty =>
         /\ path = staged.version
         /\ staged.digest => disk[staged.version] = staged.bytes
    /\ worker.at = "apply" =>
         /\ worker.rel # Empty /\ worker.arg = worker.rel.version
         /\ worker.rel.digest => disk[worker.rel.version] = worker.rel.bytes

\* A version the user skipped is not offered again, whatever check was running meanwhile.
SkippedIsNotOffered ==
    available /\ caller.then # "skip" => info.version # config.skipVersion

\* The two together: what the dashboard tells the user to wait for or to take is there.
DashboardIsTrue == InFlightHasAJob /\ SkippedIsNotOffered

\* A user who asked for a check learns that it failed, even when they joined a check the
\* timer had started.
UserLearnsOfFailure ==
    [][settleFailedCheck /\ "check" \in asked \ asked' => state' = "Error"]_vars

\* A check, a verification or an install does not stay on the dashboard for ever, and no
\* download does that was cancelled.  Only a download that hangs, skipped meanwhile, may
\* hold up the check after it.  And stop() returns: the worker ends, also out of a download
\* that would hang.
InFlightEnds ==
    /\ (state = "Checking") ~>
           (state # "Checking" \/ worker.at = "download" \/ stopping # "no")
    /\ (state = "Verifying") ~> (state # "Verifying" \/ stopping # "no")
    /\ (state = "Installing") ~> (state # "Installing" \/ launched \/ stopping # "no")
    /\ ("cancel" \in asked) ~> ("cancel" \notin asked \/ stopping # "no")
    /\ (stopping = "joining") ~> (worker.at = "done")
=============================================================================
