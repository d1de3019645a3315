---------------------------- MODULE LauncherUpdate ----------------------------
(***************************************************************************)
(* The launcher replaces itself (src/launcher/source/launcher_update.cpp,  *)
(* main.cpp's update screen).  A worker asks for the latest release and    *)
(* downloads its NRO beside the launcher; the update screen, one frame     *)
(* after the other, puts the verified file in the launcher's place and     *)
(* keeps the old one as a backup, which the next start removes or restores.*)
(* Any rename may fail, any file may be unreadable, and the power may be   *)
(* cut between any two steps.                                              *)
(***************************************************************************)
EXTENDS Naturals

CONSTANT MaxRelease     \* releases published, numbered in their order

Release == 1..MaxRelease
None == 0
Partial == MaxRelease + 1       \* a download that was not verified

VARIABLES
    launcher, backup, temp,  \* the NRO, ".update.old" and ".update.tmp"
    stored,     \* Wrapper/InstalledReleaseTag
    built,      \* the release that runs, None while no launcher does
    screen,     \* "library", "update" or "exit"
    seen,       \* the snapshot that this frame's events are judged by
    step,       \* what is left to do of the frame: "none", "activate", ...
    state,      \* s_state
    release,    \* s_release's tag
    cancel,     \* s_cancel
    job         \* s_worker's task, its result, and what it found

files == <<launcher, backup, temp>>
ui == <<screen, seen, step>>
update == <<state, release, cancel>>
vars == <<launcher, backup, temp, stored, built, screen, seen, step,
          state, release, cancel, job>>

NoJob == [task |-> "none", result |-> "pending", tag |-> None]
Running == built # None /\ step = "none"

Init ==
    /\ launcher = 1 /\ backup = None /\ temp = None /\ stored = None
    /\ built = None /\ screen = "library" /\ seen = "Idle" /\ step = "none"
    /\ state = "Idle" /\ release = None /\ cancel = FALSE /\ job = NoJob

-----------------------------------------------------------------------------
(* Versions.  Two tags share their numbers and differ in a suffix.         *)
ParseVersion(tag) == tag \div 2

IsNewer(candidate, installed) ==
    candidate # installed /\ ParseVersion(candidate) >= ParseVersion(installed)

installedReleaseTag ==
    IF stored # None /\ IsNewer(stored, built) THEN stored ELSE built

-----------------------------------------------------------------------------
(* The worker.  A transfer that is told to stop ends with an error.        *)

FetchLatestRelease ==
    /\ job.task = "check" /\ job.result = "pending"
    /\ \/ \E tag \in Release : ~cancel /\ job' = [task |-> "check", result |-> "ok", tag |-> tag]
       \/ job' = [job EXCEPT !.result = "failed"]
    /\ UNCHANGED <<files, stored, built, ui, update>>

\* The file is written, then its hash and its headers are verified.
DownloadRelease ==
    /\ job.task = "download" /\ job.result = "pending"
    /\ \/ temp # Partial /\ temp' = Partial /\ UNCHANGED job
       \/ /\ temp = Partial /\ ~cancel
          /\ temp' = job.tag /\ job' = [job EXCEPT !.result = "ok"]
       \/ temp' = None /\ job' = [job EXCEPT !.result = "failed"]
    /\ UNCHANGED <<launcher, backup, stored, built, ui, update>>

Failed == IF cancel THEN "Cancelled" ELSE "Error"

CheckEnds ==
    /\ job.task = "check" /\ job.result # "pending"
    /\ IF job.result = "failed"
       THEN state' = Failed /\ UNCHANGED release
       ELSE /\ release' = job.tag
            /\ state' \in IF IsNewer(job.tag, installedReleaseTag)
                          THEN {"UpdateAvailable", "Error"}    \* no asset
                          ELSE {"UpToDate"}
    /\ job' = NoJob
    /\ UNCHANGED <<files, stored, built, ui, cancel>>

DownloadEnds ==
    /\ job.task = "download" /\ job.result # "pending"
    /\ state' = IF job.result = "ok" THEN "ReadyToInstall" ELSE Failed
    /\ job' = NoJob
    /\ UNCHANGED <<files, stored, built, ui, release, cancel>>

Worker == FetchLatestRelease \/ DownloadRelease \/ CheckEnds \/ DownloadEnds

-----------------------------------------------------------------------------
(* What the main thread asks of it.  Either start joins the last worker.   *)

StartCheck ==
    /\ state \notin {"Checking", "Downloading", "ReadyToInstall", "Installing"}
    /\ job = NoJob
    /\ state' = "Checking" /\ release' = None /\ cancel' = FALSE
    /\ job' = [task |-> "check", result |-> "pending", tag |-> None]

StartDownload ==
    /\ state = "UpdateAvailable" /\ job = NoJob
    /\ state' = "Downloading" /\ cancel' = FALSE
    /\ job' = [task |-> "download", result |-> "pending", tag |-> release]
    /\ UNCHANGED release

-----------------------------------------------------------------------------
(* The update screen.  A frame begins with a snapshot; a download that is  *)
(* ready is installed before the frame's events are looked at.             *)

OpenUpdateScreen ==
    /\ Running /\ screen = "library"
    /\ screen' = "update" /\ seen' = "none"
    /\ IF state = "Idle" THEN StartCheck ELSE UNCHANGED <<update, job>>
    /\ UNCHANGED <<files, stored, built, step>>

UpdateFrame ==
    /\ Running /\ screen = "update"
    /\ \/ /\ state = "ReadyToInstall" /\ job = NoJob
          /\ state' = "Installing" /\ step' = "preserve" /\ UNCHANGED seen
       \/ state # "ReadyToInstall" /\ seen' = state /\ UNCHANGED <<state, step>>
    /\ UNCHANGED <<files, stored, built, screen, release, cancel, job>>

InstallFails ==
    state' = "Error" /\ seen' = "Error" /\ step' = "none"

(* The bug of the old launcher removed to make room for the new one.       *)
PreserveByRemoving ==
    /\ step = "preserve"
    /\ launcher' = None /\ backup' = None /\ step' = "activate"
    /\ UNCHANGED <<temp, stored, built, screen, seen, update, job>>

\* ReplaceLauncher, by its renames: the previous backup goes first.
Preserve ==
    /\ step = "preserve"
    /\ \/ /\ launcher # None
          /\ launcher' = None /\ backup' = launcher /\ step' = "activate"
          /\ UNCHANGED <<temp, seen, state>>
       \/ /\ InstallFails /\ UNCHANGED <<launcher, temp>>
          /\ backup' \in IF launcher = None THEN {backup} ELSE {None, backup}
    /\ UNCHANGED <<stored, built, screen, release, cancel, job>>

\* What was put in place is removed, and the backup renamed back; nobody looks
\* whether either succeeds.
PutBack ==
    \/ launcher' = backup /\ backup' = None
    \/ launcher' = None /\ UNCHANGED backup
    \/ UNCHANGED <<launcher, backup>>

Activate ==
    /\ step = "activate"
    /\ \/ /\ launcher' = temp /\ temp' = None /\ step' = "validate"
          /\ UNCHANGED <<backup, seen, state>>
       \/ PutBack /\ InstallFails /\ UNCHANGED temp
    /\ UNCHANGED <<stored, built, screen, release, cancel, job>>

Validate ==
    /\ step = "validate"
    /\ \/ state' = "Installed" /\ step' = "save" /\ UNCHANGED <<files, seen>>
       \/ PutBack /\ InstallFails /\ UNCHANGED temp
    /\ UNCHANGED <<stored, built, screen, release, cancel, job>>

SaveTag ==
    /\ step = "save"
    /\ stored' = release /\ seen' = "Installed" /\ step' = "none"
    /\ UNCHANGED <<files, built, screen, update, job>>

InstallDownloaded == Preserve \/ Activate \/ Validate \/ SaveTag

Cancel ==
    /\ Running /\ screen = "update" /\ seen = "Downloading"
    /\ cancel' = TRUE
    /\ UNCHANGED <<files, stored, built, ui, state, release, job>>

Confirm ==
    /\ Running /\ screen = "update"
    /\ \/ seen = "UpdateAvailable" /\ StartDownload /\ UNCHANGED screen
       \/ seen \in {"Error", "Cancelled"} /\ StartCheck /\ UNCHANGED screen
       \/ seen = "Installed" /\ screen' = "exit" /\ UNCHANGED <<update, job>>
    /\ UNCHANGED <<files, stored, built, seen, step>>

Leave ==
    /\ Running /\ screen = "update" /\ seen \notin {"none", "Downloading", "Installed"}
    /\ screen' = "library" /\ UNCHANGED <<files, stored, built, seen, step, update, job>>

-----------------------------------------------------------------------------
(* Starting and ending.  A path that names no file is no launcher path, so *)
(* that the launcher that recovers always exists itself.                   *)

RecoverInstallation ==
    \/ UNCHANGED <<launcher, backup>>         \* no backup, or it cannot be changed
    \/ backup # None /\ backup' = None /\ UNCHANGED launcher
    \/ backup # None /\ PutBack               \* the launcher cannot be read

Start ==
    /\ built = None /\ launcher # None
    /\ built' = launcher
    /\ RecoverInstallation /\ temp' = None
    /\ screen' = "library" /\ seen' = "none" /\ step' = "none"
    /\ \/ state' = "Idle" /\ release' = None /\ cancel' = FALSE /\ job' = NoJob
       \/ /\ state' = "Checking" /\ release' = None /\ cancel' = FALSE
          /\ job' = [task |-> "check", result |-> "pending", tag |-> None]
    /\ UNCHANGED stored

RequestExit ==
    /\ Running /\ screen # "exit"
    /\ screen' = "exit" /\ cancel' = TRUE
    /\ UNCHANGED <<files, stored, built, seen, step, state, release, job>>

\* cleanupLauncher: the worker is told to stop and is joined.
Exit ==
    /\ Running /\ screen = "exit" /\ job = NoJob
    /\ built' = None /\ cancel' = TRUE
    /\ UNCHANGED <<files, stored, ui, state, release, job>>

PowerCut ==
    /\ built # None
    /\ built' = None /\ job' = NoJob /\ step' = "none"
    /\ UNCHANGED <<files, stored, screen, seen, update>>

Screen == OpenUpdateScreen \/ UpdateFrame \/ Cancel \/ Confirm \/ Leave
Next ==
    \/ Worker
    \/ Screen
    \/ InstallDownloaded
    \/ Start
    \/ RequestExit
    \/ Exit
    \/ PowerCut

Spec == Init /\ [][Next]_vars

-----------------------------------------------------------------------------
Jobs == [task : {"none", "check", "download"}, result : {"pending", "ok", "failed"},
         tag : Release \cup {None}]

TypeOK ==
    /\ launcher \in Release \cup {None} /\ backup \in Release \cup {None}
    /\ temp \in Release \cup {None, Partial} /\ stored \in Release \cup {None}
    /\ built \in Release \cup {None}
    /\ screen \in {"library", "update", "exit"}
    /\ step \in {"none", "preserve", "activate", "validate", "save"}
    /\ release \in Release \cup {None} /\ cancel \in BOOLEAN
    /\ job \in Jobs

\* Whatever fails, wherever the power is cut and whenever the user cancels, a
\* whole launcher stays on the card, in its place or as its backup; what is in
\* its place was verified.
LauncherSurvives ==
    /\ launcher # Partial /\ backup # Partial
    /\ launcher # None \/ backup # None

-----------------------------------------------------------------------------
(* What LauncherSurvives rests on.                                         *)

\* What a check found, and what is downloaded, are releases.
TagsAreReleases ==
    /\ job.task = "download" \/ job.result = "ok" => job.tag \in Release
    /\ state = "UpdateAvailable" => release \in Release

\* The download that is about to be put in place was verified, and no worker
\* writes to it.
DownloadVerified ==
    /\ job.task = "download" /\ job.result = "ok" => temp \in Release
    /\ state = "ReadyToInstall" \/ step = "preserve" \/ step = "activate" =>
          temp \in Release
    /\ state = "ReadyToInstall" \/ step # "none" => job.task = "none"
    /\ step # "none" => state # "ReadyToInstall"

\* Until the new launcher has proved readable, the old one is its backup.
OldIsKept == step = "activate" \/ step = "validate" => backup \in Release

IInv == TypeOK /\ TagsAreReleases /\ DownloadVerified /\ OldIsKept /\ LauncherSurvives
================================================================================
