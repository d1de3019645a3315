----------------------------- MODULE LauncherScreens -----------------------------
(***************************************************************************)
(* The screens of launcher/source/main.cpp: the modal loops that call each *)
(* other, the two stores their options edit (g_global, and g_game while    *)
(* the settings of a game are open), the files of both, and the request to *)
(* exit, which every loop answers by returning to its caller.              *)
(*                                                                         *)
(* A store's options are the number of their last change; 0 in a game's    *)
(* store or file means that there are none.  What a screen draws, and how  *)
(* a selection moves, is left out; popup stands for the choosers, the text *)
(* keyboard, the editors of a clock and of a binding, help cards and       *)
(* messages, tool for the screens that other parts of the launcher fill.   *)
(***************************************************************************)
EXTENDS Naturals, Sequences

CONSTANTS
  MaxChanges,  \* bound: changes of the global options
  MaxGame,     \* bound: distinct contents of a game's options
  MaxPages     \* bound: settings pages open at once, one in the other

VARIABLES
  stack,    \* the loops that are running, the current one last
  exit,     \* g_exitRequested, or the main loop's running is cleared
  active,   \* g_active
  global,   \* g_global: its options, and whether frame generation is on
  disk,     \* launcher.ini
  failed,   \* history: the last save of launcher.ini failed
  game,     \* g_game
  own,      \* the game's profile, under its key
  older,    \* its profile under the key of its path or its file name
  meant,    \* history: the game's options as its settings were last saved
  listed,   \* the game is in the library
  folders,  \* the game folders in g_global
  scanned,  \* gamePaths, which the library was scanned from
  rescan,   \* g_rescanAfterSettings
  launch    \* a game was selected

None == MaxGame + 1
file == <<disk, failed>>
profile == <<game, own, older, meant, listed>>
library == <<folders, scanned, rescan>>
vars == <<stack, exit, active, global, file, profile, library, launch>>

Top == stack[Len(stack)]
Below == stack[Len(stack) - 1]
Closed == stack = <<>>
On(screens) == ~Closed /\ Top \in screens

Push(s) == stack' = Append(stack, s)
Pop == stack' = SubSeq(stack, 1, Len(stack) - 1)

--------------------------------------------------------------------------------
(* The two stores *)

\* storeSave of launcher.ini: the new file replaces the old one, or nothing does.
SaveGlobal == \/ disk' = global' /\ failed' = FALSE
              \/ disk' = disk /\ failed' = TRUE

Changed(store) == [store EXCEPT !.options = @ + 1]

\* iniSet, storeRemove in resetOption: the active store.
SetOption ==
  IF active = "global"
  THEN global.options < MaxChanges /\ global' = Changed(global) /\ UNCHANGED game
  ELSE (\E n \in 0 .. MaxGame : n # game /\ game' = n) /\ UNCHANGED global

\* normalizeLsfgStore switches off what needs a library that is no longer there.
Normalized(store) == [store EXCEPT !.lsfg = FALSE]

--------------------------------------------------------------------------------
(* Events *)

\* pollUiEvent and beginUiFrame see that the applet is to end.
RequestExit ==
  /\ ~exit /\ ~Closed /\ exit' = TRUE
  /\ UNCHANGED <<stack, active, global, file, profile, library, launch>>

\* The screens a screen opens; a new loop returns at once after an exit request.
Children(s) ==
  CASE s = "grid"     -> {"filter"}
    [] s = "filter"   -> {"collections", "popup"}
    [] s = "menu"     -> {"organize", "tool", "confirm"}
    [] s = "root"     -> {"launcher", "library", "page", "popup"}
    [] s = "gameroot" -> {"page", "popup"}
    [] s = "page"     -> {"page", "layout", "popup"}
    [] s = "launcher" -> {"popup", "tool"}
    [] s = "library"  -> {"sources", "tool"}
    [] s = "sources"  -> {"tool", "confirm"}
    [] s \in {"collections", "organize"} -> {"popup", "confirm"}
    [] OTHER -> {}

\* The page for frame generation normalizes the global store in every scope.
Open(s) ==
  /\ ~Closed /\ ~exit /\ s \in Children(Top) /\ Push(s)
  /\ s = "page" => Len(SelectSeq(stack, LAMBDA t : t = "page")) < MaxPages
  /\ global' \in IF s = "page" THEN {global, Normalized(global)} ELSE {global}
  /\ UNCHANGED <<exit, active, file, profile, library, launch>>

\* A loop returns, because it is cancelled or by an exit request.
Return(screens) == On(screens) /\ Pop

Dismiss ==
  /\ Return({"popup", "confirm", "tool", "layout", "page", "library", "sources",
             "filter", "collections", "organize", "menu"})
  /\ UNCHANGED <<exit, active, global, file, profile, library, launch>>

--------------------------------------------------------------------------------
(* The settings pages *)

\* optAdjust and resetOption, and on the Launcher page applyChange.
Adjust ==
  /\ On({"page", "launcher"}) /\ SetOption
  /\ UNCHANGED <<stack, exit, active, file, own, older, meant, listed, library, launch>>

\* A popup's answer is set when it returns.
Choose ==
  /\ Return({"popup"}) /\ ~exit /\ Below \in {"page", "launcher"} /\ SetOption
  /\ UNCHANGED <<exit, active, file, own, older, meant, listed, library, launch>>

\* The layout editor saves at once what is global.
SaveLayout ==
  /\ Return({"layout"}) /\ SetOption
  /\ IF active = "global" THEN SaveGlobal ELSE UNCHANGED file
  /\ UNCHANGED <<exit, active, own, older, meant, listed, library, launch>>

\* The online account's key is saved at once.
SetAccountKey ==
  /\ Return({"popup"}) /\ ~exit /\ Below = "launcher"
  /\ global.options < MaxChanges /\ global' = Changed(global) /\ SaveGlobal
  /\ UNCHANGED <<exit, active, profile, library, launch>>

LeaveLauncher ==
  /\ Return({"launcher"}) /\ UNCHANGED global /\ SaveGlobal
  /\ UNCHANGED <<exit, active, profile, library, launch>>

\* gameSourcesScreen: a folder is added, changed, moved, or, confirmed, removed.
EditFolders ==
  /\ \/ On({"sources"}) /\ UNCHANGED stack
     \/ Return({"confirm", "tool"}) /\ ~exit /\ Below = "sources"
  /\ global.options < MaxChanges /\ global' = Changed(global)
  /\ folders' = global'.options /\ rescan' = TRUE
  /\ UNCHANGED <<exit, active, file, profile, scanned, launch>>

--------------------------------------------------------------------------------
(* The grid *)

OpenSettings ==
  /\ On({"grid"}) /\ ~exit /\ Push("root") /\ active' = "global"
  /\ UNCHANGED <<exit, global, file, profile, library, launch>>

\* Mutant: the grid does not save what the settings changed.
CloseSettingsUnsaved ==
  /\ Return({"root"}) /\ UNCHANGED <<global, file>>
  /\ scanned' = folders /\ rescan' = FALSE
  /\ UNCHANGED <<exit, active, profile, folders, launch>>

\* The options are saved, and the folders scanned when they have changed.
CloseSettings ==
  /\ Return({"root"}) /\ UNCHANGED global /\ SaveGlobal
  /\ scanned' = folders /\ rescan' = FALSE
  /\ UNCHANGED <<exit, active, profile, folders, launch>>

\* The sort mode, favourites and collections are saved as they change.
Organize ==
  /\ \/ On({"grid", "organize"}) /\ UNCHANGED stack
     \/ Return({"popup", "confirm"}) /\ ~exit /\ Below \in {"collections", "organize"}
  /\ global.options < MaxChanges /\ global' = Changed(global) /\ SaveGlobal
  /\ UNCHANGED <<exit, active, profile, library, launch>>

\* selectGame, from the grid or from the menu of the game, ends the main loop.
Select ==
  /\ listed /\ ~exit /\ On({"grid", "menu"})
  /\ exit' = TRUE /\ launch' = TRUE
  /\ stack' = <<"grid">>
  /\ UNCHANGED <<active, global, file, profile, library>>

Close ==
  /\ stack = <<"grid">> /\ exit /\ stack' = <<>>
  /\ active' = "global" /\ UNCHANGED global /\ SaveGlobal
  /\ UNCHANGED <<exit, profile, library, launch>>

--------------------------------------------------------------------------------
(* perGameMenu *)

\* The profile a launch merges, and the menu loads.
Picked == IF own # 0 THEN own ELSE older

OpenMenu ==
  /\ On({"grid"}) /\ ~exit /\ listed /\ Push("menu")
  /\ game' = Picked
  /\ UNCHANGED <<exit, active, global, file, own, older, meant, listed, library, launch>>

OpenGameSettings ==
  /\ On({"menu"}) /\ ~exit /\ Push("gameroot") /\ active' = "game"
  /\ UNCHANGED <<exit, global, file, profile, library, launch>>

\* Mutant: the older profile is removed only when there is a new one.
CloseGameSettingsKeepOlder ==
  /\ Return({"gameroot"}) /\ active' = "global"
  /\ \/ own' = game /\ older' = (IF game = 0 THEN older ELSE 0) /\ meant' = game
     \/ UNCHANGED <<own, older, meant>>
  /\ UNCHANGED <<exit, global, file, game, listed, library, launch>>

\* The game's store is saved or, when empty, its profile removed; then the
\* older profiles go.  The removal of those is taken to work.
CloseGameSettings ==
  /\ Return({"gameroot"}) /\ active' = "global"
  /\ \/ own' = game /\ older' = 0 /\ meant' = game
     \/ UNCHANGED <<own, older, meant>>
  /\ UNCHANGED <<exit, global, file, game, listed, library, launch>>

\* Of the older profiles, only the one named after the file is removed here.
ClearGameSettings ==
  /\ On({"menu"}) /\ game' = 0 /\ own' = 0 /\ older' \in {0, older} /\ meant' = None
  /\ UNCHANGED <<stack, exit, active, global, file, listed, library, launch>>

\* After the confirmation; the library is scanned again.
DeleteGame ==
  /\ Return({"confirm"}) /\ ~exit /\ Below = "menu"
  /\ own' = 0 /\ older' = 0 /\ meant' = None /\ listed' = FALSE
  /\ UNCHANGED <<exit, active, global, file, game, library, launch>>

--------------------------------------------------------------------------------
Init ==
  /\ stack = <<"grid">> /\ exit = FALSE /\ active = "global"
  /\ global \in [options : {0}, lsfg : BOOLEAN]
  /\ disk = global /\ failed = FALSE
  /\ game = 0 /\ own \in 0 .. 1 /\ older \in 0 .. 1 /\ meant = None /\ listed = TRUE
  /\ folders = 0 /\ scanned = 0 /\ rescan = FALSE /\ launch = FALSE

Leave == Dismiss \/ LeaveLauncher \/ CloseSettings \/ CloseGameSettings \/ Close

Edit == Adjust \/ Choose \/ SaveLayout \/ SetAccountKey \/ EditFolders \/ Organize
        \/ ClearGameSettings \/ DeleteGame

Next ==
  \/ RequestExit \/ Leave \/ Edit \/ Select
  \/ OpenSettings \/ OpenMenu \/ OpenGameSettings
  \/ \E s \in UNION {Children(t) : t \in {"grid", "filter", "menu", "root", "page", "launcher",
                                          "library", "sources", "organize"}} : Open(s)

Spec == Init /\ [][Next]_vars

--------------------------------------------------------------------------------
(* Properties *)

(* Whenever the grid is shown, however it was come back to, launcher.ini has  *)
(* every option that was changed, unless it could not be written.             *)
NothingUnsaved == stack = <<"grid">> \/ Closed =>
  disk.options = global.options \/ failed

(* A launch merges the options the game's settings were last saved with, none *)
(* when they were all reset: no older profile of the game comes back.         *)
MeantIsUsed == meant # None => Picked = meant

(* The options a game is played with are those chosen on the screens, today   *)
(* and in the next session: both of the above.                                *)
OptionsAreKept == NothingUnsaved /\ MeantIsUsed

--------------------------------------------------------------------------------
(* What holds in every state, and why nothing is left unsaved: what is changed  *)
(* and not saved at once is changed in the settings, and the loop that saves    *)
(* them when it returns is still running; every other loop that edits global    *)
(* options is above the grid without it.                                        *)
SettingsScreen == {"launcher", "library", "sources", "page", "layout", "popup", "tool", "confirm"}
FilterScreen == {"collections", "popup", "confirm"}
MenuScreen == {"organize", "tool", "popup", "confirm"}
GameScreen == {"page", "layout", "popup"}
Screen == {"grid", "root", "filter", "menu", "gameroot"}
          \cup SettingsScreen \cup FilterScreen \cup MenuScreen \cup GameScreen

Base == {"grid", "root", "filter", "menu"}

Store == [options : Nat, lsfg : BOOLEAN]

TypeOK ==
  /\ stack \in Seq(Screen) /\ exit \in BOOLEAN /\ active \in {"global", "game"}
  /\ global \in Store /\ disk \in Store /\ failed \in BOOLEAN

Above(i) ==
  \/ stack[2] = "root" /\ stack[i] \in SettingsScreen
  \/ stack[2] = "filter" /\ stack[i] \in FilterScreen
  \/ stack[2] = "menu" /\ stack[3] # "gameroot" /\ stack[i] \in MenuScreen
  \/ stack[2] = "menu" /\ stack[3] = "gameroot" /\ (i = 3 \/ stack[i] \in GameScreen)

WellNested ==
  /\ ~Closed => stack[1] = "grid"
  /\ Len(stack) > 1 => stack[2] \in {"root", "filter", "menu"}
  /\ \A i \in 3 .. Len(stack) : Above(i)

ActiveStore == active = IF Len(stack) > 2 /\ stack[3] = "gameroot" THEN "game" ELSE "global"

InSettings == Len(stack) > 1 /\ stack[2] = "root"

SavedOrOpen == disk.options = global.options \/ failed \/ InSettings

\* n loops run, and where the last of them is.
Standing(n) ==
  /\ n = Len(stack) /\ Top \in Screen /\ Top = stack[n]
  /\ Top = "grid" => n = 1
  /\ Top \in {"root", "filter", "menu"} => n = 2 /\ stack[2] = Top
  /\ Top = "gameroot" => n = 3 /\ stack[2] = "menu"
  /\ Top \notin Base => n > 2 /\ Above(n)
  /\ n > 1 => stack[2] \in {"root", "filter", "menu"} /\ stack[1] = "grid"
  /\ n > 2 /\ Below \notin Base => n > 3 /\ Above(n - 1) /\ Below = stack[n - 1]

IInv == TypeOK /\ WellNested /\ ActiveStore /\ SavedOrOpen /\ MeantIsUsed
================================================================================
