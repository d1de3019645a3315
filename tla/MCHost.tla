------------------------------- MODULE MCHost -------------------------------
(* The emulator's host and what the renderer draws, one component at a time.    *)
(* They share no state here: a behaviour exercises one of them, the part.  The  *)
(* textures' part has the variables of VkTextures, the others hold theirs in    *)
(* the slots v1, v2, ...; the slots a part has no use for stay as they are.     *)
(* - textures: two screens, two built-in filters of several passes, a custom    *)
(*   shader of several passes and one of a single pass; the layouts show the    *)
(*   top screen or both; every menu operation may come before any frame.        *)
(* - layout: a rectangle that may be moved and sized by two grid steps, and two *)
(*   layouts that were saved before, one in a corner.                           *)
(* - cheats: databases of two and four cheats, one folder of which is of the    *)
(*   one-only kind.                                                             *)
(* - prefs: settings of this version, of the two before and of none, with and   *)
(*   without a profile.                                                         *)
(* - pointers: a panel of 1280 x 720 pixels, five units each, screens of 4 x 3  *)
(*   pixels of the same shape as the DS's, and two custom layouts, one of which *)
(*   is not 4:3; points in each corner, and in and between the screens.         *)
EXTENDS VkTextures, Naturals, Integers, Sequences, TLC

CONSTANTS
  Top, Bottom,
  Config, SessionSlots, Together,                  \* Session
  PageFilters, PageShaders,                        \* Pages
  SquareSide, ShortestSide, EditMoves, EditSizes,  \* Editor
  SavedRects, EditsMade,                           \* Editor
  SaveSlots, Pictures,                             \* States
  PrefsLimit, Launches, Profiles, Global, Speeds,  \* Prefs
  Archive, Versions,                               \* Archives
  CheatCounts, CheatFolders, OneOnly, FoldersListed, \* Cheats
  CheatsListed, DigitBits, CheatNames, OwnCheats,    \* Cheats
  Panel, Native, Unit, Side, Gaps, Customs, Point, Fine  \* Pointers

MCScreen == {Top, Bottom}

MCLayout == {{Top}, {Top, Bottom}}

MCFilters == <<"nearest", "smaa">>

Moved == {<<8, 0>>, <<-8, 0>>, <<0, 8>>, <<0, -8>>}

Sized == {<<16, 0>>, <<-16, 0>>, <<0, 12>>, <<0, -12>>}

Rects == {[x |-> 8, y |-> 8, w |-> 16, h |-> 12], [x |-> 24, y |-> 12, w |-> 24, h |-> 24]}

Folders == (0 :> 0) @@ (1 :> 0) @@ (2 :> 1) @@ (3 :> -1)

Opt(k, values) == {<<>>} \cup {k :> v : v \in values}

NoPrefs == [missing |-> "yes"]

Launched ==
  {NoPrefs} \cup
  {h @@ s @@ y @@ ("menu" :> "L+R+Minus") @@ ("quit" :> q) @@ ("save" :> "L+R+Y")
     @@ ("speed" :> 0) @@ ("other" :> 1) :
     h \in Opt("hotkeys", {2}), s \in Opt("settings", {3}), y \in Opt("legacy", {FALSE}),
     q \in {"L+R+Plus", "None"}}

Profiled == {NoPrefs, "other" :> 2, ("legacy" :> FALSE) @@ ("other" :> 2)}

Globals ==
  ("menu" :> "L+R+Plus") @@ ("hotkeys" :> 3) @@ ("settings" :> 4) @@ ("stylus" :> "stick")
  @@ ("other" :> 3)

PanelSize == <<6400, 3600>>

Pixels == <<4, 3>>

Area(x, y, w, h) == [x |-> x, y |-> y, w |-> w, h |-> h]

Custom ==
  {<<Area(200, 700, 2800, 2100), Area(3400, 700, 2800, 2100)>>,
   <<Area(0, 0, 3200, 3600), Area(3200, 900, 3200, 1800)>>}

Points ==
  {<<100, 100>>, <<1500, 1000>>, <<2500, 1500>>, <<3100, 700>>, <<3300, 2900>>,
   <<4000, 1300>>, <<4700, 1799>>, <<4700, 2500>>, <<5700, 500>>, <<5800, 1300>>,
   <<5500, 2300>>, <<6100, 3300>>}

VARIABLES part, v1, v2, v3, v4, v5, v6, v7, v8, v9, v10, v11

after10 == <<v11>>

Zero10 == v11 = 0

after9 == <<v10, after10>>

Zero9 == v10 = 0 /\ Zero10

after7 == <<v8, v9, after9>>

Zero7 == v8 = 0 /\ v9 = 0 /\ Zero9

after6 == <<v7, after7>>

Zero6 == v7 = 0 /\ Zero7

slots == <<v1, v2, v3, v4, v5, v6, after6>>

hostVars == <<part, vars, slots>>

Session == INSTANCE EmuSession WITH
    Slots <- SessionSlots,
    stage <- v1, game <- v2, settings <- v3, controls <- v4,
    menuOpen <- v5, away <- v6, hooked <- v7, gameplay <- v8, rumble <- v9,
    cheated <- v10, opening <- v11

Pages == INSTANCE MenuPages WITH
    Filters <- PageFilters, Shader <- PageShaders,
    page <- v1, config <- v2, saved <- v3, core <- v4, installed <- v5,
    found <- v6, backup <- v7, picker <- v8, leaving <- v9

Editor == INSTANCE LayoutEditor WITH
    Side <- SquareSide, MinSide <- ShortestSide, Moves <- EditMoves, Sizes <- EditSizes,
    Loaded <- SavedRects, MaxEdits <- EditsMade,
    editing <- v1, rotation <- v2, layout <- v3, lock <- v4, rect <- v5,
    saved <- v6, backup <- v7, screen <- v8, asked <- v9, edits <- v10

States == INSTANCE MenuStates WITH
    Slots <- SaveSlots,
    files <- v1, slot <- v2, shown <- v3, open <- v4, confirm <- v5,
    pending <- v6, saving <- v7, removing <- v8, asked <- v9,
    disturbed <- v10

Cheats == INSTANCE MenuCheats WITH
    Counts <- CheatCounts, FolderOf <- CheatFolders, Single <- OneOnly,
    FolderLimit <- FoldersListed, Limit <- CheatsListed, Names <- CheatNames,
    MaxCustom <- OwnCheats,
    db <- v1, custom <- v2, running <- v3, saved <- v4, applied <- v5,
    open <- v6, list <- v7

Prefs == INSTANCE PrefsStore WITH
    Limit <- PrefsLimit,
    up <- v1, profiled <- v2, entries <- v3, launch <- v4, profile <- v5,
    temporary <- v6, pc <- v7, key <- v8, meant <- v9, spoiled <- v10

Archives == INSTANCE ArchiveCache WITH
    archives <- v1, wanted <- v2, rom <- v3, meta <- v4, pc <- v5,
    split <- v6

Pointers == INSTANCE ScreenLayout WITH
    config <- v1, screens <- v2, menu <- v3, pc <- v4, runtime <- v5,
    shown <- v6, stylus <- v7

(* There is a slot to save to, and a built-in filter, which is no custom one;    *)
(* versions, entries and cheats are counted, of the cheats up to four to a digit *)
(* of the bitmap; what the files start with has finitely many keys; lengths are  *)
(* integers, a screen is at least two pixels wide and high, and places within it *)
(* are exact.  In the editor the steps and the limits are such that every side   *)
(* that follows from the aspect is whole, and what was saved lies on the panel.  *)
ASSUME SlotsAssumption == SessionSlots \in Nat \ {0} /\ SaveSlots \in Nat \ {0}

ASSUME FiltersAssumption ==
  /\ PageFilters \in Seq(Pages!Values(PageFilters)) /\ PageFilters # <<>>
  /\ Pages!Custom \notin Pages!Values(PageFilters)

ASSUME VersionsAssumption == Versions \in Nat

ASSUME CheatsAssumption ==
  CheatCounts \subseteq Nat /\ CheatsListed \in Nat /\ DigitBits \in 1 .. 4

ASSUME PrefsAssumption ==
  PrefsLimit \in Nat /\ \A f \in Launches \cup Profiles \cup {Global} : Prefs!IsFile(f)

ASSUME EditorAssumption ==
  /\ SquareSide \in Nat /\ SquareSide % 24 = 0
  /\ ShortestSide \in Nat \ {0} /\ ShortestSide % 12 = 0 /\ 8 * ShortestSide <= 3 * SquareSide
  /\ EditMoves \subseteq Int \X Int /\ EditSizes \subseteq Int \X Int
  /\ \A s \in EditSizes : s[1] % 4 = 0 /\ s[2] % 3 = 0
  /\ \A r \in SavedRects :
       /\ r \in [x : Nat, y : Nat, w : Nat, h : Nat]
       /\ ShortestSide <= r.w /\ r.x + r.w <= SquareSide /\ r.w % 4 = 0
       /\ ShortestSide <= r.h /\ r.y + r.h <= SquareSide /\ r.h % 4 = 0

ASSUME PointersAssumption ==
  /\ Panel \in Int \X Int /\ Native \in (Nat \ {0, 1}) \X (Nat \ {0, 1})
  /\ Unit \in Nat \ {0} /\ Side \in Int /\ Gaps \subseteq Int /\ Point \subseteq Int \X Int
  /\ \A c \in Customs, i \in 1 .. 2 :
       c[i].x \in Int /\ c[i].y \in Int /\ c[i].w \in Int /\ c[i].h \in Int
  /\ Fine \in Nat \ {0}
  /\ \A axis \in 1 .. 2 : Fine % Native[axis] = 0 /\ Fine % (Native[axis] - 1) = 0

(* The textures' part, and the one state its variables keep in the others.       *)
NoSlots == v1 = 0 /\ v2 = 0 /\ v3 = 0 /\ v4 = 0 /\ v5 = 0 /\ v6 = 0 /\ Zero6

NoTextures ==
  /\ Init
  /\ config.filter = (CHOOSE f \in Builtin : TRUE) /\ config.layout = MCScreen
  /\ overlay.orientation = "landscape"

HostInit ==
  \/ part = "textures" /\ Init /\ NoSlots
  \/ part = "session" /\ Session!Init /\ NoTextures
  \/ part = "pages" /\ Pages!Init /\ NoTextures /\ Zero9
  \/ part = "layout" /\ Editor!Init /\ NoTextures /\ Zero10
  \/ part = "states" /\ States!Init /\ NoTextures /\ Zero10
  \/ part = "cheats" /\ Cheats!Init /\ NoTextures /\ Zero7
  \/ part = "prefs" /\ Prefs!Init /\ NoTextures /\ Zero10
  \/ part = "archive" /\ Archives!Init /\ NoTextures /\ Zero6
  \/ part = "pointers" /\ Pointers!Init /\ NoTextures /\ Zero7

HostNext ==
  /\ UNCHANGED part
  /\ \/ part = "textures" /\ Next /\ UNCHANGED slots
     \/ part = "session" /\ Session!Next /\ UNCHANGED vars
     \/ part = "pages" /\ Pages!Next /\ UNCHANGED vars /\ UNCHANGED after9
     \/ part = "layout" /\ Editor!Next /\ UNCHANGED vars /\ UNCHANGED after10
     \/ part = "states" /\ States!Next /\ UNCHANGED vars /\ UNCHANGED after10
     \/ part = "cheats" /\ Cheats!Next /\ UNCHANGED vars /\ UNCHANGED after7
     \/ part = "prefs" /\ Prefs!Next /\ UNCHANGED vars /\ UNCHANGED after10
     \/ part = "archive" /\ Archives!Next /\ UNCHANGED vars /\ UNCHANGED after6
     \/ part = "pointers" /\ Pointers!Next /\ UNCHANGED vars /\ UNCHANGED after7

HostSpec == HostInit /\ [][HostNext]_hostVars

(* What holds of the states of a part (the modules say what each means).        *)
SessionInStep == part = "session" => Session!SessionInStep

MenuLeavesNoTrace == part = "pages" => Pages!MenuLeavesNoTrace

SavedCheatsMatch == part = "cheats" => Cheats!SavedCheatsMatch

ChoicesSurvive == part = "prefs" => Prefs!ChoicesSurvive

PlaysChosenArchive == part = "archive" => Archives!PlaysChosenArchive

PointedAsSeen == part = "pointers" => Pointers!PointedAsSeen

(* What no step of a part may do. *)
EditsAsShown == [][part = "layout" => Editor!EditsAsShown]_hostVars

DeletesWhatIsShown == [][part = "states" => States!DeletesWhatIsShown]_hostVars
================================================================================
