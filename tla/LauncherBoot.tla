------------------------------ MODULE LauncherBoot ------------------------------
(***************************************************************************)
(* What the launcher keeps on the SD card, across power cuts: launcher.ini *)
(* with its .tmp and .old companions, the per-game profiles, and the files *)
(* it unpacks for the emulator with their build markers.  main.cpp from    *)
(* the start of main to the chain into the emulator, and back.             *)
(*                                                                         *)
(* Every file operation is a step, can fail, and the power can go before   *)
(* any of them.  The content of launcher.ini is the number of the user's   *)
(* last change in it, whether it binds the user's game folders, and the    *)
(* version of its settings.                                                *)
(***************************************************************************)
EXTENDS Naturals

CONSTANTS
  MaxChanges,  \* bound: changes of the settings
  Builds       \* bound: the launcher's builds are 1 .. Builds

Nothing == [change |-> 0, bound |-> FALSE, version |-> 0]
\* No file, and a file whose writing was cut off.
Missing == [Nothing EXCEPT !.change = MaxChanges + 1]
Torn == [Nothing EXCEPT !.change = MaxChanges + 2]
NoBuild == 0

VARIABLES
  pc,        \* the step of main
  after,     \* where main goes on when the save it is in returns
  cur, old, tmp,   \* launcher.ini, launcher.ini.old, launcher.ini.tmp
  mem,       \* g_global
  first,     \* firstRun
  unread,    \* history: a recovery failed at a load, which gave an empty store
  profiles,  \* the per-game profiles' fast-forward values are migrated
  build,     \* the launcher that is installed
  core, marker,    \* the builds of the unpacked core and of its marker
  saved      \* history: the content of the last save that succeeded

file == <<cur, old, tmp>>
unpacked == <<core, marker>>
vars == <<pc, after, file, mem, first, unread, profiles, build, unpacked, saved>>

--------------------------------------------------------------------------------
(* recoverAtomicFile *)

\* Its next operation; there is none when the file is settled.
Settled == tmp = Missing /\ (cur = Missing \/ old = Missing) /\ (cur # Missing \/ old = Missing)

RecoverStep ==
  \/ /\ cur = Missing /\ old # Missing
     /\ cur' = old /\ old' = Missing /\ UNCHANGED tmp
  \/ /\ cur # Missing \/ old = Missing
     /\ tmp # Missing /\ tmp' = Missing /\ UNCHANGED <<cur, old>>
  \/ /\ cur # Missing /\ old # Missing /\ tmp = Missing
     /\ old' = Missing /\ UNCHANGED <<cur, tmp>>

--------------------------------------------------------------------------------
(* storeSave: writeAtomicText and replaceAtomic *)

Save(next) == pc' = "recover" /\ after' = next

\* A save returns; startup ends when a save of its own fails.
Return(ok) ==
  /\ pc' = IF after # "startup" THEN after ELSE IF ok THEN "sources" ELSE "off"
  /\ saved' = IF ok THEN mem ELSE saved

SaveRecovers ==
  /\ pc = "recover"
  /\ IF Settled THEN pc' = "write" /\ UNCHANGED <<file, saved>>
     ELSE \/ RecoverStep /\ UNCHANGED <<pc, saved>>
          \/ Return(FALSE) /\ UNCHANGED file
  /\ UNCHANGED <<after, mem, first, unread, profiles, build, unpacked>>

\* The text is written, flushed and synced; a failure removes the file.
Write ==
  /\ pc = "write"
  /\ \/ tmp' = mem /\ pc' = "aside" /\ UNCHANGED saved
     \/ tmp' = Missing /\ Return(FALSE)
  /\ UNCHANGED <<after, cur, old, mem, first, unread, profiles, build, unpacked>>

\* Mutant: the current file is removed, not moved aside.
AsideRemoved ==
  /\ pc = "aside"
  /\ \/ cur' = Missing /\ pc' = "place" /\ UNCHANGED <<old, tmp, saved>>
     \/ cur # Missing /\ tmp' = Missing /\ Return(FALSE) /\ UNCHANGED <<cur, old>>
  /\ UNCHANGED <<after, mem, first, unread, profiles, build, unpacked>>

Aside ==
  /\ pc = "aside"
  /\ \/ cur' = Missing /\ old' = cur /\ pc' = "place" /\ UNCHANGED <<tmp, saved>>
     \/ cur # Missing /\ tmp' = Missing /\ Return(FALSE) /\ UNCHANGED <<cur, old>>
  /\ UNCHANGED <<after, mem, first, unread, profiles, build, unpacked>>

Place ==
  /\ pc = "place"
  /\ \/ cur' = tmp /\ tmp' = Missing /\ pc' = "tidy"
     \/ pc' = "undo" /\ UNCHANGED <<cur, tmp>>
  /\ UNCHANGED <<after, old, mem, first, unread, profiles, build, unpacked, saved>>

\* The old file is moved back, if that works; the caller removes the new one.
Undo ==
  /\ pc = "undo" /\ tmp' = Missing
  /\ \/ cur' = old /\ old' = Missing
     \/ old # Missing /\ UNCHANGED <<cur, old>>
  /\ Return(FALSE)
  /\ UNCHANGED <<after, mem, first, unread, profiles, build, unpacked>>

Tidy ==
  /\ pc = "tidy"
  /\ old' \in {old, Missing} /\ Return(TRUE)
  /\ UNCHANGED <<after, cur, tmp, mem, first, unread, profiles, build, unpacked>>

Saving == SaveRecovers \/ Write \/ Aside \/ Place \/ Undo \/ Tidy

--------------------------------------------------------------------------------
(* main, up to the library *)

\* firstRun is what stat says of launcher.ini, before storeLoad recovers it.
Start ==
  /\ pc = "off" /\ pc' = "load" /\ first' = (cur = Missing)
  /\ mem' = Nothing
  /\ build' \in {b \in 1 .. Builds : b >= build}
  /\ UNCHANGED <<after, file, unread, profiles, unpacked, saved>>

Load ==
  /\ pc = "load"
  /\ IF Settled
     THEN /\ pc' = "migrate" /\ mem' = (IF cur = Missing THEN Nothing ELSE cur)
          /\ UNCHANGED <<file, unread>>
     ELSE \/ RecoverStep /\ UNCHANGED <<pc, mem, unread>>
          \/ unread' = TRUE /\ pc' = "migrate" /\ UNCHANGED <<file, mem>>
  /\ UNCHANGED <<after, first, profiles, build, unpacked, saved>>

\* migrateLauncherSettings in memory, migrateFastForwardProfiles on the card;
\* startup ends when a profile cannot be saved.
Migrate ==
  /\ pc = "migrate"
  /\ mem' = [mem EXCEPT !.version = 4]
  /\ \/ profiles' = (profiles \/ mem.version = 0) /\ pc' = "setup"
     \/ mem.version = 0 /\ pc' = "off" /\ UNCHANGED profiles
  /\ UNCHANGED <<after, file, first, unread, build, unpacked, saved>>

\* A first run binds the default folder and writes every option; later runs
\* save what was migrated.
Setup ==
  /\ pc = "setup"
  /\ mem' = IF first THEN [mem EXCEPT !.bound = FALSE] ELSE mem
  /\ \/ Save("startup")
     \/ ~first /\ mem = cur /\ pc' = "sources" /\ UNCHANGED after
  /\ UNCHANGED <<file, first, unread, profiles, build, unpacked, saved>>

--------------------------------------------------------------------------------
(* The user, and the end of main *)

\* A screen changes the settings; it saves them.
Change ==
  /\ pc = "sources" /\ mem.change < MaxChanges
  /\ mem' = [change |-> mem.change + 1, bound |-> TRUE, version |-> mem.version]
  /\ Save("sources")
  /\ UNCHANGED <<file, first, unread, profiles, build, unpacked, saved>>

Leave ==
  /\ pc = "sources" /\ \E next \in {"off", "unpack"} : Save(next)
  /\ UNCHANGED <<file, mem, first, unread, profiles, build, unpacked, saved>>

\* Mutant: the marker is written before the file.
UnpackMarked ==
  /\ pc = "unpack"
  /\ IF marker = build /\ core # NoBuild THEN pc' = "config" /\ UNCHANGED <<core, marker>>
     ELSE \/ core' = core /\ marker' = build /\ pc' = "mark"
          \/ pc' = "off" /\ UNCHANGED <<core, marker>>
  /\ UNCHANGED <<after, file, mem, first, unread, profiles, build, saved>>

\* ensureBundledFile, ensureResources: the file is replaced unless its marker
\* names this build; without it there is no launch.
Unpack ==
  /\ pc = "unpack"
  /\ IF marker = build /\ core # NoBuild THEN pc' = "config" /\ UNCHANGED <<core, marker>>
     ELSE \/ core' = build /\ pc' = "mark" /\ UNCHANGED marker
          \/ pc' = "off" /\ UNCHANGED <<core, marker>>
  /\ UNCHANGED <<after, file, mem, first, unread, profiles, build, saved>>

\* The marker is written after the file, and its failure is ignored.
Mark ==
  /\ pc = "mark" /\ pc' = "config"
  /\ marker' \in {marker, build}
  /\ UNCHANGED <<after, file, mem, first, unread, profiles, build, core, saved>>

\* The merged configuration is saved; then the launcher chains into the host.
Chain ==
  /\ pc = "config" /\ pc' \in {"game", "off"}
  /\ UNCHANGED <<after, file, mem, first, unread, profiles, build, unpacked, saved>>

\* The game ends, or the user removes the unpacked file from the card.
GameEnds ==
  /\ pc = "game" /\ pc' = "off"
  /\ UNCHANGED <<after, file, mem, first, unread, profiles, build, unpacked, saved>>

Remove ==
  /\ pc = "off" /\ core' = NoBuild
  /\ UNCHANGED <<pc, after, file, mem, first, unread, profiles, build, marker, saved>>

\* The power goes; what was being written is torn.
PowerCut ==
  /\ pc # "off" /\ pc' = "off"
  /\ tmp' \in IF pc = "write" THEN {Missing, Torn} ELSE {tmp}
  /\ UNCHANGED <<after, cur, old, mem, first, unread, profiles, build, unpacked, saved>>

--------------------------------------------------------------------------------
Init ==
  /\ pc = "off" /\ after = "off"
  /\ cur \in {Missing, [change |-> 0, bound |-> TRUE, version |-> 0]}
  /\ old = Missing /\ tmp = Missing
  /\ mem = Nothing /\ first = FALSE /\ unread = FALSE /\ profiles = FALSE
  /\ build = 1 /\ core = NoBuild /\ marker = NoBuild
  /\ saved = IF cur = Missing THEN Nothing ELSE cur

Startup == Start \/ Load \/ Migrate \/ Setup
Launch == Leave \/ Unpack \/ Mark \/ Chain

Next == Saving \/ Startup \/ Change \/ Launch \/ GameEnds \/ Remove \/ PowerCut

Spec == Init /\ [][Next]_vars

--------------------------------------------------------------------------------
(* Properties *)

(* What storeLoad reads is the last content whose save succeeded, or the one  *)
(* that was being saved: never nothing, an older one or a torn one; unless a  *)
(* recovery failed at a load, whose empty store the next save would keep.     *)
SavedIsRecovered ==
  pc = "migrate" /\ ~unread => mem.change \in saved.change .. MaxChanges

(* The emulator is started with the files of the launcher that starts it.     *)
ChainedWithOwnFiles == pc = "game" => core = build

(* Whenever the power went, the launcher starts with what was saved and      *)
(* starts games with its own files: both of the above.                       *)
RestartsWhole == SavedIsRecovered /\ ChainedWithOwnFiles

(* The comment of saveGameSources: saving while USB is still initializing     *)
(* must not erase a known stable binding.                                     *)
BindingsKept == [][pc = "setup" /\ mem.bound => mem'.bound]_vars

--------------------------------------------------------------------------------
(* What RestartsWhole rests on. *)

Contents == [change : 0 .. MaxChanges, bound : BOOLEAN, version : {0, 4}]

TypeOK ==
  /\ after \in {"off", "startup", "sources", "unpack"}
  /\ cur \in Contents \cup {Missing} /\ old \in Contents \cup {Missing}
  /\ tmp \in Contents \cup {Missing, Torn}
  /\ mem \in Contents /\ saved \in Contents
  /\ first \in BOOLEAN /\ unread \in BOOLEAN
  /\ build \in 1 .. Builds /\ core \in 0 .. Builds /\ marker \in 0 .. Builds

\* A content that is not older than the last one whose save succeeded.
Recent(f) == f \in Contents /\ saved.change <= f.change

\* What a recovery would find, from wherever the power goes.
OnCard ==
  /\ cur # Missing => Recent(cur)
  /\ cur = Missing /\ old # Missing => Recent(old)
  /\ cur = Missing /\ old = Missing => saved.change = 0

KeptSince == ~unread => OnCard /\ (pc = "off" \/ pc = "load" \/ Recent(mem))

\* How far a save has come.
SaveUnderWay ==
  /\ pc = "write" \/ pc = "aside" => old = Missing
  /\ pc = "aside" \/ pc = "place" \/ pc = "undo" => tmp = mem
  /\ pc = "place" \/ pc = "undo" => cur = Missing
  /\ pc = "tidy" => cur = mem

\* A marker never names a later build than the one installed, and where it
\* names that one, the file is its file or has been removed.
MarkedAsUnpacked ==
  /\ marker <= build
  /\ marker = build /\ core # NoBuild => core = build
  /\ pc = "mark" \/ pc = "config" \/ pc = "game" => core = build

IInv == TypeOK /\ KeptSince /\ SaveUnderWay /\ MarkedAsUnpacked
================================================================================
