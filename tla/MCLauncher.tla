------------------------------ MODULE MCLauncher -------------------------------
(* The launcher and the storage below it, one component at a time.  They share  *)
(* no state here: a behaviour exercises one of them, the part, and its          *)
(* variables are held in the slots v1, v2, ...; the slots a part has no use     *)
(* for stay as they are.                                                        *)
EXTENDS Naturals, Sequences

(* What SteamGridDB may send: names with quotes, brackets, a backslash and a    *)
(* character of two escapes, or named like a field; and two addresses.         *)
SentNames == {<<>>, <<"q", "]", "}", "b">>, <<"wide", "{">>, <<"id">>}

TwoAddresses == {<<"x", "/">>, <<"/", "y">>}

CONSTANTS
  UsbDisk,                                \* Library
  MaxChanges, Builds,                     \* Boot
  OptionChanges, GameOptions, PagesOpen,  \* Screens
  GamePath,                               \* Identity
  Files,                                  \* Transfer
  Share, SavedFolder, MaxShares, MaxFolders, \* Shares
  LibrarySize, PageCols, PageRows,        \* Covers
  JobLimit, ReadyLimit, RequestBudget,
  UploadBudget, PumpLimit, CacheLimit,
  MaxRelease,                             \* Update
  ShortcutBuilds,                         \* Forwarder
  Nro,                                    \* Loader
  MountThread, MaxMounts,                 \* Mounts
  FileSize, MaxSize, AheadMin, AheadMax,  \* File
  ReadMax, MaxLength,
  TagLimit, MaxCommands,                  \* Transport
  Reader, Drive, Slots, MaxContexts,      \* Disks
  Sent, Addresses, ResultsKept,           \* Covered
  ObjectsSent, IconsKept

(* The counts that bound a part are counts, and a launcher has a first build    *)
(* and a first release.                                                         *)
ASSUME MaxChangesAssumption == MaxChanges \in Nat

ASSUME BuildsAssumption == Builds \in Nat \ {0}

ASSUME MaxReleaseAssumption == MaxRelease \in Nat \ {0}

ASSUME ShortcutBuildsAssumption == ShortcutBuilds \in Nat \ {0}

(* There is a game, and a page has room for one; so has the queue of the        *)
(* covers' jobs.                                                                *)
ASSUME CoversAssumption ==
  /\ LibrarySize \in Nat \ {0} /\ PageCols \in Nat \ {0} /\ PageRows \in Nat \ {0}
  /\ JobLimit \in Nat \ {0} /\ RequestBudget \in Nat

(* A transfer is of one file at least. *)
ASSUME FilesAssumption == 1 \in Files

(* No share's identity is the name of the card's device, or of no device. *)
ASSUME ShareAssumption == "card" \notin Share /\ "none" \notin Share

(* No thread is called like the state of a lock that nobody holds, and no       *)
(* reader like the drive manager's thread.                                      *)
ASSUME MountThreadAssumption == "free" \notin MountThread

ASSUME ReaderAssumption == "nobody" \notin Reader /\ "manager" \notin Reader

ASSUME MaxMountsAssumption == MaxMounts \in Nat

ASSUME MaxContextsAssumption == MaxContexts \in Nat

(* The file is of a size it may have. *)
ASSUME ReadsAssumption ==
  /\ FileSize \in Nat /\ MaxSize \in Nat /\ FileSize <= MaxSize
  /\ AheadMin \in Nat /\ AheadMax \in Nat /\ ReadMax \in Nat /\ MaxLength \in Nat

(* No command's tag comes round again within the bound: a command uses three at *)
(* most, two of them for its recovery.                                          *)
ASSUME TagsAssumption ==
  TagLimit \in Nat /\ MaxCommands \in Nat /\ 3 * MaxCommands + 2 < TagLimit

VARIABLES part, v1, v2, v3, v4, v5, v6, v7, v8, v9, v10, v11, v12, v13, v14, v15

after14 == <<v15>>
Zero14 == v15 = 0
after13 == <<v14, after14>>
Zero13 == v14 = 0 /\ Zero14
after12 == <<v13, after13>>
Zero12 == v13 = 0 /\ Zero13
after11 == <<v12, after12>>
Zero11 == v12 = 0 /\ Zero12
after10 == <<v11, after11>>
Zero10 == v11 = 0 /\ Zero11
after9 == <<v10, after10>>
Zero9 == v10 = 0 /\ Zero10
after8 == <<v9, after9>>
Zero8 == v9 = 0 /\ Zero9
after7 == <<v8, after8>>
Zero7 == v8 = 0 /\ Zero8
after6 == <<v7, after7>>
Zero6 == v7 = 0 /\ Zero7

allVars == <<part, v1, v2, v3, v4, v5, v6, after6>>

Library == INSTANCE LauncherLibrary WITH
    Disk <- UsbDisk,
    loop <- v1, mode <- v2, waiting <- v3, launch <- v4, disk <- v5,
    moved <- v6, refreshAt <- v7, usbPath <- v8, storage <- v9, share <- v10,
    queued <- v11, scan <- v12, sawEmpty <- v13, games <- v14, dropped <- v15

Boot == INSTANCE LauncherBoot WITH
    pc <- v1, after <- v2, cur <- v3, old <- v4, tmp <- v5, mem <- v6,
    first <- v7, unread <- v8, profiles <- v9, build <- v10, core <- v11,
    marker <- v12, saved <- v13

Screens == INSTANCE LauncherScreens WITH
    MaxChanges <- OptionChanges, MaxGame <- GameOptions, MaxPages <- PagesOpen,
    stack <- v1, exit <- v2, active <- v3, global <- v4, disk <- v5,
    failed <- v6, game <- v7, own <- v8, older <- v9, meant <- v10,
    listed <- v11, folders <- v12, scanned <- v13, rescan <- v14,
    launch <- v15

Identity == INSTANCE LauncherIdentity WITH
    Path <- GamePath, MaxRecords <- 4, MaxEdits <- 2,
    files <- v1, edits <- v2, records <- v3, reserved <- v4, claimed <- v5,
    todo <- v6, found <- v7, scan <- v8, games <- v9, held <- v10

Transfer == INSTANCE LauncherTransfer WITH
    File <- Files,
    pc <- v1, kind <- v2, move <- v3, same <- v4, src <- v5, dst <- v6,
    bak <- v7, part <- v8, copying <- v9, aside <- v10, cancelled <- v11,
    saved <- v12, result <- v13, unlisted <- v14

Shares == INSTANCE LauncherShares WITH
    Folder <- SavedFolder,
    shares <- v1, autoMount <- v2, mounted <- v3, sources <- v4,
    pinned <- v5, clipboard <- v6, rescan <- v7, open <- v8, held <- v9,
    slot <- v10, current <- v11, stale <- v12

Covers == INSTANCE LauncherCovers WITH
    Games <- LibrarySize, Cols <- PageCols, Rows <- PageRows,
    mode <- v1, phase <- v2, frame <- v3, page <- v4, budget <- v5,
    sel <- v6, answer <- v7, texture <- v8, queued <- v9, recent <- v10,
    jobs <- v11, busy <- v12, ready <- v13, downloaded <- v14,
    unnoticed <- v15

Update == INSTANCE LauncherUpdate WITH
    launcher <- v1, backup <- v2, temp <- v3, stored <- v4, built <- v5,
    screen <- v6, seen <- v7, step <- v8, state <- v9, release <- v10,
    cancel <- v11, job <- v12

Forwarder == INSTANCE LauncherForwarder WITH
    Builds <- ShortcutBuilds,
    cfg <- v1, old <- v2, tmp <- v3, meta <- v4, contents <- v5,
    record <- v6, path <- v7, pc <- v8, build <- v9, created <- v10,
    hadPrevious <- v11, metaBackup <- v12, unrestored <- v13

Loader == INSTANCE ForwarderLoader WITH
    config <- v1, next <- v2, default <- v3, mapped <- v4, proc <- v5,
    argv <- v6, chosen <- v7

Mounts == INSTANCE SmbMounts WITH
    Thread <- MountThread,
    created <- v1, registered <- v2, retired <- v3, context <- v4,
    state <- v5, io <- v6, call <- v7

File == INSTANCE SmbFile WITH
    content <- v1, handle <- v2, current <- v3, file <- v4, left <- v5,
    overtaken <- v6

Transport == INSTANCE UasTransport WITH
    pc <- v1, command <- v2, hasData <- v3, tag <- v4, taskTag <- v5,
    nextTag <- v6, open <- v7, status <- v8, data <- v9, answers <- v10,
    result <- v11, clobbered <- v12

Disks == INSTANCE UasContexts WITH
    made <- v1, driveOf <- v2, freed <- v3, table <- v4, mutex <- v5,
    io <- v6, uasp <- v7, endpoints <- v8, call <- v9

Covered == INSTANCE GridDb WITH
    Names <- Sent, Urls <- Addresses, Limit <- ResultsKept, MaxObjects <- ObjectsSent,
    MaxIcons <- IconsKept,
    call <- v1, cancel <- v2, offered <- v3, found <- v4, wanted <- v5,
    card <- v6, had <- v7, icons <- v8

LauncherInit ==
  \/ part = "library" /\ Library!Init
  \/ part = "boot" /\ Boot!Init /\ Zero13
  \/ part = "screens" /\ Screens!Init
  \/ part = "identity" /\ Identity!Init /\ Zero10
  \/ part = "transfer" /\ Transfer!Init /\ Zero14
  \/ part = "shares" /\ Shares!Init /\ Zero12
  \/ part = "covers" /\ Covers!Init
  \/ part = "update" /\ Update!Init /\ Zero12
  \/ part = "forwarder" /\ Forwarder!Init /\ Zero13
  \/ part = "loader" /\ Loader!Init /\ Zero7
  \/ part = "mounts" /\ Mounts!Init /\ Zero7
  \/ part = "file" /\ File!Init /\ Zero6
  \/ part = "uas" /\ Transport!Init /\ Zero12
  \/ part = "disks" /\ Disks!Init /\ Zero9
  \/ part = "griddb" /\ Covered!Init /\ Zero8

LauncherNext ==
  /\ UNCHANGED part
  /\ \/ part = "library" /\ Library!Next
     \/ part = "boot" /\ Boot!Next /\ UNCHANGED after13
     \/ part = "screens" /\ Screens!Next
     \/ part = "identity" /\ Identity!Next /\ UNCHANGED after10
     \/ part = "transfer" /\ Transfer!Next /\ UNCHANGED after14
     \/ part = "shares" /\ Shares!Next /\ UNCHANGED after12
     \/ part = "covers" /\ Covers!Next
     \/ part = "update" /\ Update!Next /\ UNCHANGED after12
     \/ part = "forwarder" /\ Forwarder!Next /\ UNCHANGED after13
     \/ part = "loader" /\ Loader!Next /\ UNCHANGED after7
     \/ part = "mounts" /\ Mounts!Next /\ UNCHANGED after7
     \/ part = "file" /\ File!Next /\ UNCHANGED after6
     \/ part = "uas" /\ Transport!Next /\ UNCHANGED after12
     \/ part = "disks" /\ Disks!Next /\ UNCHANGED after9
     \/ part = "griddb" /\ Covered!Next /\ UNCHANGED after8

LauncherSpec == LauncherInit /\ [][LauncherNext]_allVars

DiskIsListed == part = "library" => Library!DiskIsListed
RestartsWhole == part = "boot" => Boot!RestartsWhole
OptionsAreKept == part = "screens" => Screens!OptionsAreKept
NothingLost == part = "transfer" => Transfer!NothingLost
SavedHaveShares == part = "shares" => Shares!SavedHaveShares
CoversAreServed == part = "covers" => Covers!CoversAreServed
LauncherSurvives == part = "update" => Update!LauncherSurvives
ShortcutIsWhole == part = "forwarder" => Forwarder!ShortcutIsWhole
ChosenGameOnly == part = "loader" => Loader!ChosenGameOnly
ContextOutlivesUse == part = "mounts" => Mounts!ContextOutlivesUse
FileReadsItsBytes == part = "file" => File!FileReadsItsBytes
AnswerIsOwn == part = "uas" => Transport!AnswerIsOwn
TransportOutlivesUse == part = "disks" => Disks!TransportOutlivesUse
FetchedWhole == part = "griddb" => Covered!FetchedWhole

(* What no step of a part may do. *)
KeyNamesOneGame == [][part = "identity" => Identity!KeyNamesOneGame]_allVars
ReplacedIsKept == [][part = "transfer" => Transfer!ReplacedIsKept]_allVars
================================================================================
