SPECIFICATION HostSpec
CONSTANTS
  Top = Top
  Bottom = Bottom
  None = None
  Screen <- MCScreen
  Layout <- MCLayout
  Builtin = {Smaa, Quilez}
  Shader = {Crt, Tint}
  Direct = {Tint}
  Config = {1, 2}
  SessionSlots = 2
  Together = 2
  PageFilters <- MCFilters
  PageShaders = {"crt", "tint"}
  SquareSide = 48
  ShortestSide = 12
  EditMoves <- Moved
  EditSizes <- Sized
  SavedRects <- Rects
  EditsMade = 2
  SaveSlots = 2
  Pictures = 3
  PrefsLimit = 8
  Launches <- Launched
  Profiles <- Profiled
  Global <- Globals
  Speeds = {0}
  Archive = {"a", "b"}
  Versions = 2
  CheatCounts = {2, 4}
  CheatFolders <- Folders
  OneOnly = {0, 1}
  FoldersListed = 1
  CheatsListed = 3
  DigitBits = 2
  CheatNames = {"a", "b"}
  OwnCheats = 2
  Panel <- PanelSize
  Native <- Pixels
  Unit = 320
  Side = 1728
  Gaps = {0, 160}
  Customs <- Custom
  Point <- Points
  Fine = 12
INVARIANTS
  ShownAsConfigured
  SessionInStep
  MenuLeavesNoTrace
  SavedCheatsMatch
  ChoicesSurvive
  PlaysChosenArchive
  PointedAsSeen
PROPERTIES
  EditsAsShown
  DeletesWhatIsShown
CHECK_DEADLOCK FALSE
