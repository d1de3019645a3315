----------------------------- MODULE LauncherLibrary -----------------------------
(***************************************************************************)
(* The game library of launcher/source/main.cpp: the main loop, the scan   *)
(* worker that reads the game folders, the worker that mounts the storage  *)
(* at startup, and a USB disk that comes and goes.                         *)
(*                                                                         *)
(* One folder lies on the SD card, one on a network share, one on a USB    *)
(* disk; each holds one game.  The USB folder is stored with the stable    *)
(* identity of the disk "own", the path it resolves to is where the disk   *)
(* is mounted, and another disk can be mounted there later.  A pass of the *)
(* main loop is a sequence of steps between which the workers run; each    *)
(* section under a lock, and each read of an atomic, is one step.          *)
(***************************************************************************)
EXTENDS Naturals, Sequences

CONSTANT Disk  \* the disks that may be plugged in; "own" is the configured one

None == "none"
Folder == {"sd", "smb", "usb"}
\* A game, and the disk that was known as its source when its scan began.
Game == [folder : Folder, disk : Disk \cup {None}, source : Disk \cup {None}]

VARIABLES
  loop,        \* the step of the main loop
  mode,        \* "browse", or started by a shortcut: with a "key" or a "direct" path
  waiting,     \* forwarderPending
  launch,      \* the game to launch, if one was selected
  disk,        \* the mounted USB disk
  moved,       \* UsbStatusGeneration differs from usbGeneration
  refreshAt,   \* usbRefreshAt is set
  usbPath,     \* the disk's folder in gamePaths is a mounted path
  storage,     \* the mount worker: "starting", "done", then "integrated"
  share,       \* the network share is mounted
  queued,      \* pendingMountedSources
  scan,        \* g_libraryScan
  sawEmpty,    \* pumpGameScan found ready empty
  games,       \* g_games
  dropped      \* history: games of the disk's last scan that were found too late

usb == <<disk, moved>>
shortcut == <<mode, waiting, launch>>
sources == <<refreshAt, usbPath, queued>>
mounts == <<storage, share>>
listed == <<games, dropped>>
vars == <<loop, shortcut, usb, sources, mounts, scan, sawEmpty, listed>>

NoScan == [on |-> FALSE, replace |-> FALSE, cleared |-> FALSE, todo |-> {}, open |-> None,
           stable |-> None, ready |-> <<>>, found |-> {}, completed |-> {}, done |-> FALSE]

--------------------------------------------------------------------------------
(* libraryScanWorker *)

Mounted(f) == f = "sd" \/ (f = "smb" /\ share) \/ (f = "usb" /\ disk # None)

Scanning == scan.on /\ ~scan.done

\* The folders in the user's order, which may be any.
OpenFolder ==
  /\ Scanning /\ scan.open = None
  /\ \E f \in scan.todo :
       scan' = [scan EXCEPT !.todo = @ \ {f},
                            !.open = IF Mounted(f) THEN f ELSE None,
                            !.completed = IF Mounted(f) THEN @ \cup {f} ELSE @]
  /\ UNCHANGED <<loop, shortcut, usb, sources, mounts, sawEmpty, listed>>

\* The folder's game is found and published; a folder that is gone has no more.
ReadFolder ==
  /\ Scanning /\ scan.open # None
  /\ LET f == scan.open
         g == [folder |-> f, disk |-> IF f = "usb" THEN disk ELSE None,
               source |-> IF f = "usb" THEN scan.stable ELSE None]
     IN scan' = [scan EXCEPT !.open = None,
                             !.ready = IF Mounted(f) THEN Append(@, g) ELSE @,
                             !.found = IF Mounted(f) THEN @ \cup {g} ELSE @]
  /\ UNCHANGED <<loop, shortcut, usb, sources, mounts, sawEmpty, listed>>

ScanDone ==
  /\ Scanning /\ scan.open = None /\ scan.todo = {}
  /\ scan' = [scan EXCEPT !.done = TRUE]
  /\ UNCHANGED <<loop, shortcut, usb, sources, mounts, sawEmpty, listed>>

Worker == OpenFolder \/ ReadFolder \/ ScanDone

--------------------------------------------------------------------------------
(* The storage *)

\* storageInitWorker mounts USB and the shares; a share may fail to mount.
StorageStarts ==
  /\ storage = "starting" /\ storage' = "done"
  /\ share' \in BOOLEAN
  /\ disk' \in Disk \cup {None} /\ moved' = TRUE
  /\ UNCHANGED <<loop, shortcut, sources, scan, sawEmpty, listed>>

\* SwitchStorage changes its list of locations and its generation together.
Plug(d) ==
  /\ storage # "starting" /\ loop # "closed" /\ disk = None
  /\ disk' = d /\ moved' = TRUE
  /\ UNCHANGED <<loop, shortcut, sources, mounts, scan, sawEmpty, listed>>

Unplug ==
  /\ disk # None /\ loop # "closed"
  /\ disk' = None /\ moved' = TRUE
  /\ UNCHANGED <<loop, shortcut, sources, mounts, scan, sawEmpty, listed>>

--------------------------------------------------------------------------------
(* The main loop *)

Goto(l) == loop' = l

\* loadGameSources and refreshConfiguredUsbSources: the binding is to the disk.
Resolved == disk = "own"

\* startGameScan: the scan under way is cancelled and joined, what it has ready
\* is dropped; a USB folder whose disk is not mounted is left out.
StartScan(folders, path, replace) ==
  /\ scan' = [NoScan EXCEPT !.on = TRUE, !.replace = replace, !.stable = disk,
                            !.todo = {f \in folders : f = "usb" => path}]
  /\ dropped' = (dropped /\ ~("usb" \in folders /\ path))

Rows(n) == IF n < 2 THEN n ELSE 2

\* pumpGameScan publishes two games a frame, ...
Pump ==
  /\ loop = "pump" /\ Goto("finish")
  /\ LET k == Rows(Len(scan.ready))
         batch == {scan.ready[i] : i \in 1 .. k}
         clear == k > 0 /\ scan.replace /\ ~scan.cleared
     IN /\ games' = (IF clear THEN {} ELSE games) \cup batch
        /\ scan' = [scan EXCEPT !.ready = SubSeq(@, k + 1, Len(@)), !.cleared = @ \/ clear]
        /\ sawEmpty' = (Len(scan.ready) = k)
  /\ UNCHANGED <<shortcut, usb, sources, mounts, dropped>>

Stale(g) == g.folder \in scan.completed /\ g \notin scan.found

\* ... and finishes when the worker has ended and nothing was left: games of
\* the folders that were read and did not come again are removed.  What the
\* worker has published since the queue was seen empty is dropped.
FinishScan ==
  /\ loop = "finish" /\ Goto("start")
  /\ IF scan.on /\ scan.done /\ sawEmpty
     THEN /\ games' = IF scan.replace THEN (IF scan.cleared THEN games ELSE {})
                      ELSE {g \in games : ~Stale(g)}
          /\ dropped' = (dropped \/ scan.ready # <<>>)
          /\ scan' = NoScan
     ELSE UNCHANGED <<games, scan, dropped>>
  /\ sawEmpty' = FALSE
  /\ UNCHANGED <<shortcut, usb, sources, mounts>>

StartQueued ==
  /\ loop = "start" /\ Goto("integrate")
  /\ IF mode # "direct" /\ ~scan.on /\ queued # {}
     THEN StartScan(queued, TRUE, FALSE) /\ queued' = {}
     ELSE UNCHANGED <<scan, queued, dropped>>
  /\ UNCHANGED <<shortcut, usb, refreshAt, usbPath, mounts, sawEmpty, games>>

\* The mount worker is joined once, and what it mounted is queued for a scan.
Integrate ==
  /\ loop = "integrate" /\ Goto("shortcut")
  /\ IF storage = "done"
     THEN /\ storage' = "integrated" /\ moved' = FALSE
          /\ usbPath' = Resolved
          /\ queued' = IF mode = "direct" THEN queued
                       ELSE queued \cup {"smb"} \cup (IF Resolved THEN {"usb"} ELSE {})
     ELSE UNCHANGED <<storage, moved, usbPath, queued>>
  /\ UNCHANGED <<shortcut, disk, refreshAt, share, scan, sawEmpty, listed>>

\* The game of the shortcut lies on the USB disk: prepareDirectForwarderGame
\* looks for its file, findGameByKey for its entry.
Found ==
  IF mode = "direct" THEN disk = "own"
  ELSE \E g \in games : g.folder = "usb" /\ g.disk = "own"

Answer ==
  /\ loop = "shortcut"
  /\ IF waiting /\ Found
     THEN launch' = TRUE /\ waiting' = FALSE /\ Goto("closing")
     ELSE UNCHANGED <<launch, waiting>> /\ Goto("usb")
  /\ UNCHANGED <<mode, usb, sources, mounts, scan, sawEmpty, listed>>

\* Mutant: the new generation is noted, and no refresh scheduled.
NoticeOnly ==
  /\ loop = "usb"
  /\ moved' = FALSE
  /\ UNCHANGED refreshAt /\ Goto("events")
  /\ UNCHANGED <<shortcut, disk, usbPath, queued, mounts, scan, sawEmpty, listed>>

\* A change of the disks schedules a refresh 300 ms later.
Notice ==
  /\ loop = "usb"
  /\ IF mode # "direct" /\ storage = "integrated"
     THEN /\ moved' = FALSE /\ refreshAt' = (refreshAt \/ moved)
          /\ Goto("events") \/ (refreshAt' /\ ~moved /\ Goto("refresh"))
     ELSE UNCHANGED <<moved, refreshAt>> /\ Goto("events")
  /\ UNCHANGED <<shortcut, disk, usbPath, queued, mounts, scan, sawEmpty, listed>>

\* removeUnavailableUsbGames, then every folder from its stable binding; the
\* USB folders replace whatever was queued.
Refresh ==
  /\ loop = "refresh" /\ Goto("events")
  /\ refreshAt' = FALSE
  /\ games' = {g \in games : g.source \in {None, disk}}
  /\ usbPath' = Resolved
  /\ queued' = IF Resolved THEN {"usb"} ELSE queued
  /\ UNCHANGED <<shortcut, usb, mounts, scan, sawEmpty, dropped>>

NoEvent ==
  /\ loop = "events" /\ Goto("pump")
  /\ UNCHANGED <<shortcut, usb, sources, mounts, scan, sawEmpty, listed>>

\* The deadline of the shortcut: the missing game is reported, the launcher ends.
GiveUp ==
  /\ loop = "events" /\ waiting /\ Goto("closing")
  /\ waiting' = FALSE
  /\ UNCHANGED <<mode, launch, usb, sources, mounts, scan, sawEmpty, listed>>

\* The user's events: a game is selected, the launcher left, ...
Select ==
  /\ loop = "events" /\ ~waiting /\ games # {} /\ Goto("closing")
  /\ launch' = TRUE
  /\ UNCHANGED <<mode, waiting, usb, sources, mounts, scan, sawEmpty, listed>>

RequestExit ==
  /\ loop = "events" /\ Goto("closing")
  /\ waiting' = FALSE
  /\ UNCHANGED <<mode, launch, usb, sources, mounts, scan, sawEmpty, listed>>

\* ... a game deleted: every folder is read again, as gamePaths has it, ...
Rescan ==
  /\ loop = "events" /\ ~waiting /\ games # {} /\ Goto("pump")
  /\ StartScan(Folder, usbPath, TRUE)
  /\ UNCHANGED <<shortcut, usb, sources, mounts, sawEmpty, games>>

\* ... or the settings asked for it: the folders are resolved again first.
RescanAfterSettings ==
  /\ loop = "events" /\ ~waiting /\ Goto("pump")
  /\ usbPath' = Resolved /\ moved' = FALSE /\ refreshAt' = FALSE
  /\ StartScan(Folder, Resolved, TRUE)
  /\ UNCHANGED <<shortcut, disk, queued, mounts, sawEmpty, games>>

\* stopGameScan, and the mount worker joined.
Close ==
  /\ loop = "closing" /\ storage # "starting" /\ Goto("closed")
  /\ scan' = NoScan
  /\ UNCHANGED <<shortcut, usb, sources, mounts, sawEmpty, listed>>

--------------------------------------------------------------------------------
\* The start of main: a scan of the folders that need no mount, unless a
\* shortcut names the file.
Init ==
  /\ loop = "pump" /\ mode \in {"browse", "key", "direct"}
  /\ waiting = (mode # "browse") /\ launch = FALSE
  /\ disk = None /\ moved = FALSE
  /\ refreshAt = (mode # "browse")
  /\ usbPath = FALSE /\ queued = {}
  /\ storage = "starting" /\ share = FALSE
  /\ scan = IF mode = "direct" THEN NoScan
            ELSE [NoScan EXCEPT !.on = TRUE, !.replace = TRUE, !.todo = {"sd"}]
  /\ sawEmpty = FALSE /\ games = {} /\ dropped = FALSE

Pass == Pump \/ FinishScan \/ StartQueued \/ Integrate \/ Answer \/ Notice \/ Refresh
User == Select \/ RequestExit \/ Rescan \/ RescanAfterSettings

Next == Worker \/ StorageStarts \/ Pass \/ NoEvent \/ User \/ GiveUp \/ Close \/ Unplug \/ \E d \in Disk : Plug(d)

Spec == Init /\ [][Next]_vars

--------------------------------------------------------------------------------
(* Properties *)

(* When nothing is left to do for the library, the disk that is plugged in    *)
(* has its game listed: no change of it is overlooked that falls into a scan, *)
(* into the startup or between the reads of a refresh.  But for a scan that   *)
(* ends, with a last game, between pumpGameScan's look into the queue and its *)
(* look at the end, which the code does not exclude (main.cpp:2930-2931).     *)
NothingLeftToDo ==
  /\ loop = "events" /\ mode # "direct" /\ storage = "integrated"
  /\ ~moved /\ ~refreshAt /\ queued = {} /\ ~scan.on

DiskIsListed ==
  NothingLeftToDo /\ disk = "own" /\ ~dropped => \E g \in games : g.folder = "usb"

--------------------------------------------------------------------------------
(* What holds in every state, and why the disk is listed.                     *)
Scan == [on : BOOLEAN, replace : BOOLEAN, cleared : BOOLEAN, todo : SUBSET Folder,
         open : Folder \cup {None}, stable : Disk \cup {None}, ready : Seq(Game),
         found : SUBSET Game, completed : SUBSET Folder, done : BOOLEAN]

TypeOK ==
  /\ mode \in {"browse", "key", "direct"}
  /\ disk \in Disk \cup {None} /\ moved \in BOOLEAN /\ refreshAt \in BOOLEAN
  /\ usbPath \in BOOLEAN /\ queued \subseteq {"smb", "usb"}
  /\ scan \in Scan /\ games \subseteq Game /\ dropped \in BOOLEAN

(* What is ready was found by a scan, and one that ended has read its folders. *)
ScanInOrder ==
  /\ \A i \in DOMAIN scan.ready : scan.ready[i] \in scan.found
  /\ ~scan.on => scan.ready = <<>>
  /\ scan.done => scan.todo = {} /\ scan.open = None

(* The disk's folder will be read, is being read, or was read with a game     *)
(* that the scan's end will leave in the list.                                *)
Reading ==
  \/ "usb" \in scan.todo \/ scan.open = "usb"
  \/ \E i \in DOMAIN scan.ready : scan.ready[i].folder = "usb"

Stays(g) ==
  scan.on => IF scan.replace THEN scan.cleared
             ELSE "usb" \notin scan.completed \/ g \in scan.found

WillBeListed ==
  \/ "usb" \in queued
  \/ scan.on /\ Reading
  \/ \E g \in games : g.folder = "usb" /\ Stays(g)

(* The launcher knows of the disk that is there.                              *)
Known ==
  /\ loop # "closed" /\ mode # "direct" /\ storage = "integrated"
  /\ ~moved /\ ~refreshAt /\ disk = "own"

KnownIsListed == Known => usbPath /\ (~dropped => WillBeListed)

IInv == TypeOK /\ ScanInOrder /\ KnownIsListed
================================================================================
