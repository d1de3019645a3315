--------------------------- MODULE LauncherShares ---------------------------
(***************************************************************************)
(* The launcher's network shares and the folders saved on them: the list   *)
(* of SMB shares, the game folders, the pinned folders, the clipboard, and *)
(* the screens that edit them - the folder list, the file browser and the  *)
(* share list - opened from one another                                    *)
(* (src/launcher/source/main.cpp:3291-3407 and 3632-4185).                 *)
(*                                                                         *)
(* A path is <<device, folder>>; a device is the card or a share.  The     *)
(* folder list keeps the copy of the game folders it has loaded while the  *)
(* browser above it runs, and the browser can open the share list.  The    *)
(* order of the game folders is left out.                                  *)
(***************************************************************************)
EXTENDS Naturals, Sequences, FiniteSets, SequencesExt

CONSTANTS
    Share,       \* the identities a share may be given
    Folder,      \* the folders a device has
    MaxShares,   \* shares at most (networkSharesScreen allows 8)
    MaxFolders   \* game folders at most (gameSourcesScreen allows 16)

Card == "card"
Path == ({Card} \cup Share) \X Folder
NoPath == <<"none", 0>>
Screens == {"library", "folders", "browser", "shares"}

VARIABLES
    shares,     \* the configured shares
    autoMount,  \* those connected at the launcher's start
    mounted,    \* those connected now
    sources,    \* the saved game folders
    pinned,     \* the saved pinned folders
    clipboard,  \* the path g_fileClipboard holds
    rescan,     \* g_rescanAfterSettings
    open,       \* the screens open, the one in front last
    held,       \* the folder list's own copy of the game folders
    slot,       \* the folder in the copy that the browser is to change; NoPath to add one
    current,    \* the folder the browser shows; NoPath for the locations
    stale       \* history: what an open folder list's copy had on a removed share

saved == <<sources, pinned, clipboard, rescan>>
network == <<shares, autoMount, mounted, stale>>
view == <<open, held, slot, current>>
vars == <<shares, autoMount, mounted, sources, pinned, clipboard, rescan,
          open, held, slot, current, stale>>

TypeOK ==
    /\ shares \in SUBSET Share
    /\ autoMount \in SUBSET shares
    /\ mounted \in SUBSET shares
    /\ sources \in SUBSET Path
    /\ pinned \in SUBSET Path
    /\ clipboard \in Path \cup {NoPath}
    /\ rescan \in BOOLEAN
    /\ open \in Seq(Screens)
    /\ held \in SUBSET Path
    /\ slot \in Path \cup {NoPath}
    /\ current \in Path \cup {NoPath}
    /\ stale \in SUBSET Path

(* A launcher.ini with no share and no folder yet, and the library shown.  *)
Init ==
    /\ shares = {} /\ autoMount = {} /\ mounted = {}
    /\ sources = {} /\ pinned = {} /\ clipboard = NoPath /\ rescan = FALSE
    /\ open = <<"library">> /\ held = {} /\ slot = NoPath /\ current = NoPath
    /\ stale = {}

InFront(s) == Last(open) = s
Browsing == InFront("browser")
\* The browser runs above the folder list (SelectFolder) or above the
\* library screen (the file manager).
Managing == Browsing /\ open[Len(open) - 1] = "library"
ListOpen == \E i \in 1..Len(open) : open[i] = "folders"

(* libraryStorageScreen's rows: the folder list loads its copy, the file   *)
(* manager starts at the locations.                                        *)
OpenFolders ==
    /\ InFront("library")
    /\ open' = Append(open, "folders") /\ held' = sources
    /\ UNCHANGED <<network, saved, slot, current>>

OpenManager ==
    /\ InFront("library")
    /\ open' = Append(open, "browser") /\ current' = NoPath
    /\ UNCHANGED <<network, saved, held, slot>>

(* "Manage SMB shares" stands at the browser's locations, and in the       *)
(* library screen.                                                         *)
OpenShares ==
    /\ InFront("library") \/ (Browsing /\ current = NoPath)
    /\ open' = Append(open, "shares")
    /\ UNCHANGED <<network, saved, held, slot, current>>

(* B, or a request to leave: the screen below comes back.  The browser's   *)
(* B goes up a folder first; the folder list loads its copy afresh only    *)
(* when the browser has returned a folder.                                 *)
Back ==
    /\ Len(open) > 1
    /\ \/ Browsing /\ current # NoPath /\ current' = NoPath /\ UNCHANGED open
       \/ open' = Front(open) /\ UNCHANGED current
    /\ UNCHANGED <<network, saved, held, slot>>

-----------------------------------------------------------------------------
(* The share list.                                                         *)

(* A share that was added is connected, and kept when that fails.          *)
AddShare ==
    /\ InFront("shares") /\ Cardinality(shares) < MaxShares
    /\ \E s \in Share \ shares, startup \in BOOLEAN, now \in BOOLEAN :
        /\ shares' = shares \cup {s}
        /\ autoMount' = IF startup THEN autoMount \cup {s} ELSE autoMount
        /\ mounted' = IF now THEN mounted \cup {s} ELSE mounted
    /\ UNCHANGED <<stale, saved, view>>

(* "Connect" and "Disconnect", and an edit, which disconnects the share    *)
(* and connects it again if it was connected or is to be at startup.       *)
ConnectShare ==
    /\ InFront("shares")
    /\ \E s \in shares : mounted' \in {mounted \cup {s}, mounted \ {s}}
    /\ UNCHANGED <<shares, autoMount, stale, saved, view>>

EditShare ==
    /\ InFront("shares")
    /\ \E s \in shares, startup \in BOOLEAN, now \in BOOLEAN :
        /\ autoMount' = IF startup THEN autoMount \cup {s} ELSE autoMount \ {s}
        /\ now => s \in mounted \/ startup
        /\ mounted' = IF now THEN mounted \cup {s} ELSE mounted \ {s}
    /\ UNCHANGED <<shares, stale, saved, view>>

(* "Toggle connect at startup".                                            *)
ToggleStartup ==
    /\ InFront("shares")
    /\ \E s \in shares : autoMount' = SymDiff(autoMount, {s})
    /\ UNCHANGED <<shares, mounted, stale, saved, view>>

Below(p, s) == p[1] = s

(* Mutant: a removal that forgets the pinned folders and the clipboard.    *)
RemoveSavedSourcesOnly(s) ==
    /\ sources' = {p \in sources : ~Below(p, s)}
    /\ rescan' = TRUE
    /\ UNCHANGED <<pinned, clipboard>>

(* removeSavedPathsBelow: what is saved on the share goes with it; an open *)
(* folder list's copy is not told.                                         *)
RemoveSaved(s) ==
    /\ sources' = {p \in sources : ~Below(p, s)}
    /\ pinned' = {p \in pinned : ~Below(p, s)}
    /\ clipboard' = IF Below(clipboard, s) THEN NoPath ELSE clipboard
    /\ rescan' = TRUE

RemoveShare ==
    /\ InFront("shares")
    /\ \E s \in shares :
        /\ shares' = shares \ {s}
        /\ autoMount' = autoMount \ {s}
        /\ mounted' = mounted \ {s}
        /\ RemoveSaved(s)
        /\ stale' = {p \in stale : ~Below(p, s)}
                      \cup IF ListOpen THEN {p \in held : Below(p, s)} ELSE {}
    /\ UNCHANGED view

-----------------------------------------------------------------------------
(* The browser.                                                            *)

(* ensurePathMounted: a location on a share is connected before it is      *)
(* shown; the folder may then turn out unreadable.                         *)
Enter ==
    /\ Browsing
    /\ \E p \in Path :
        /\ p[1] \in {Card} \cup shares
        /\ \/ p[1] = Card /\ UNCHANGED mounted
           \/ p[1] # Card /\ mounted' = mounted \cup {p[1]}
        /\ current' = p
    /\ UNCHANGED <<shares, autoMount, stale, saved, open, held, slot>>

(* The device went away: the browser shows the locations again.            *)
Unavailable ==
    /\ Browsing /\ current # NoPath
    /\ current' = NoPath
    /\ mounted' \in {mounted, mounted \ {current[1]}}
    /\ UNCHANGED <<shares, autoMount, stale, saved, open, held, slot>>

(* ensureSavedPathMountedAtStartup: a saved folder's share is connected at *)
(* the next start.                                                         *)
AtStartup(p) == autoMount \cup ({p[1]} \cap shares)

(* toggleFavorite, for the folder shown or one listed in it.               *)
TogglePinned ==
    /\ Browsing /\ current # NoPath
    /\ \E p \in Path :
        /\ p[1] = current[1]
        /\ IF p \in pinned
           THEN pinned' = pinned \ {p} /\ UNCHANGED autoMount
           ELSE pinned' = pinned \cup {p} /\ autoMount' = AtStartup(p)
    /\ UNCHANGED <<shares, mounted, stale, sources, clipboard, rescan, view>>

(* "Copy" and "Move".                                                      *)
PutOnClipboard ==
    /\ Managing /\ current # NoPath
    /\ clipboard' \in {p \in Path : p[1] = current[1]}
    /\ UNCHANGED <<network, sources, pinned, rescan, view>>

(* A rename, and the paste of a moved folder, carry what is saved below    *)
(* the old path to the new one (replaceSavedPathPrefix).                   *)
Renamed(p, from, to) == IF p = from THEN to ELSE p
MoveFolder ==
    /\ Managing /\ current # NoPath
    /\ \E from, to \in Path :
        /\ from # to /\ to[1] = current[1]
        /\ from[1] = current[1] \/ from = clipboard
        /\ sources' = {Renamed(p, from, to) : p \in sources}
        /\ pinned' = {Renamed(p, from, to) : p \in pinned}
        /\ clipboard' = IF from = clipboard /\ from[1] # current[1] THEN NoPath
                        ELSE Renamed(clipboard, from, to)
    /\ rescan' = TRUE
    /\ UNCHANGED <<network, view>>

-----------------------------------------------------------------------------
(* The folder list.                                                        *)

(* "[ Add game folder ]" and "Change folder" open the browser, at the      *)
(* locations or at the folder to be changed.                               *)
PickFolder ==
    /\ InFront("folders")
    /\ \/ slot' = NoPath /\ Cardinality(held) < MaxFolders
       \/ slot' \in held
    /\ current' = IF slot'[1] \in {Card} \cup mounted THEN slot' ELSE NoPath
    /\ open' = Append(open, "browser")
    /\ UNCHANGED <<network, saved, held>>

(* "[ Use this folder ]" returns to the folder list, which puts the folder *)
(* into its copy, unless it stands there elsewhere, and saves the copy.    *)
SaveSources(s) == sources' = s /\ held' = s /\ rescan' = TRUE

UseFolder ==
    /\ Browsing /\ ~Managing /\ current # NoPath
    /\ open' = Front(open)
    /\ IF current \notin held \ {slot}
       THEN /\ SaveSources((held \ {slot}) \cup {current})
            /\ autoMount' = AtStartup(current)
       ELSE held' = sources /\ UNCHANGED <<sources, rescan, autoMount>>
    /\ UNCHANGED <<shares, mounted, stale, pinned, clipboard, slot, current>>

(* "Move up" and "Move down", which keep the folders, and "Remove".        *)
MoveSource ==
    /\ InFront("folders")
    /\ Cardinality(held) > 1 /\ SaveSources(held)
    /\ UNCHANGED <<network, pinned, clipboard, open, slot, current>>

RemoveSource ==
    /\ InFront("folders")
    /\ \E p \in held : SaveSources(held \ {p})
    /\ UNCHANGED <<network, pinned, clipboard, open, slot, current>>

Next ==
    \/ OpenFolders \/ OpenManager \/ OpenShares \/ Back
    \/ AddShare \/ ConnectShare \/ EditShare \/ ToggleStartup \/ RemoveShare
    \/ Enter \/ Unavailable \/ TogglePinned \/ PutOnClipboard \/ MoveFolder
    \/ PickFolder \/ UseFolder \/ MoveSource \/ RemoveSource

Spec == Init /\ [][Next]_vars

-----------------------------------------------------------------------------
OnShare(p) == p \in Path /\ p[1] # Card

(* A share is removed with everything saved on it: no pinned folder, no    *)
(* clipboard entry and no game folder is on a share that is no longer      *)
(* configured (main.cpp:3863-3868, 3398-3407), but for a game folder that  *)
(* the folder list still held when the share was removed above it, and     *)
(* saved again with its copy (main.cpp:5790, 5818, 5831-5834).             *)
SavedHaveShares ==
    /\ \A p \in pinned \cup {clipboard} : OnShare(p) => p[1] \in shares
    /\ \A p \in sources : OnShare(p) => p[1] \in shares \/ p \in stale

-----------------------------------------------------------------------------
(* What SavedHaveShares rests on.                                          *)

(* The folder list stands on the library, the browser on either of the     *)
(* two, and the share list in front of whatever opened it.                 *)
Opened ==
    /\ open \in Seq(Screens) /\ Len(open) >= 1 /\ open[1] = "library"
    /\ \A i \in 1..Len(open) :
        /\ open[i] = "library" => i = 1
        /\ open[i] = "shares" => i = Len(open)
        /\ open[i] = "folders" => i = 2
        /\ open[i] = "browser" => i = 2 \/ (i = 3 /\ open[2] = "folders")

(* What an open folder list holds is on the card or on a share, or stale.  *)
HeldHaveShares ==
    ListOpen =>
        \A p \in held : OnShare(p) => p[1] \in shares \/ p \in stale

BrowserOpen == \E i \in 1..Len(open) : open[i] = "browser"

(* The folder that an open browser shows is on the card or on a share, and *)
(* none is shown below the share list.                                     *)
BrowsesShare ==
    BrowserOpen =>
        /\ current = NoPath \/ current[1] = Card \/ current[1] \in shares
        /\ Last(open) = "shares" => current = NoPath

IInv ==
    /\ mounted \subseteq shares /\ Opened /\ BrowsesShare
    /\ HeldHaveShares /\ SavedHaveShares
=============================================================================
