SPECIFICATION LauncherSpec
CONSTANTS
  UsbDisk = {"own"}
  MaxChanges = 2
  Builds = 2
  OptionChanges = 2
  GameOptions = 2
  PagesOpen = 2
  GamePath = {1, 2}
  Files = {1, 2, 3}
  Share = {"s"}
  SavedFolder = {1}
  MaxShares = 2
  MaxFolders = 2
  LibrarySize = 2
  PageCols = 1
  PageRows = 1
  JobLimit = 1
  ReadyLimit = 1
  RequestBudget = 2
  UploadBudget = 1
  PumpLimit = 2
  CacheLimit = 1
  MaxRelease = 3
  ShortcutBuilds = 3
  Nro = {"launcher", "emulator"}
  MountThread = {"ui", "worker"}
  MaxMounts = 3
  FileSize = 5
  MaxSize = 6
  AheadMin = 2
  AheadMax = 4
  ReadMax = 3
  MaxLength = 4
  TagLimit = 12
  MaxCommands = 3
  Reader = {"r1", "r2"}
  Drive = {1, 2}
  Slots = 2
  MaxContexts = 3
  Sent <- SentNames
  Addresses <- TwoAddresses
  ResultsKept = 2
  ObjectsSent = 2
  IconsKept = 2
INVARIANTS
  DiskIsListed
  RestartsWhole
  OptionsAreKept
  NothingLost
  SavedHaveShares
  CoversAreServed
  LauncherSurvives
  ShortcutIsWhole
  ChosenGameOnly
  ContextOutlivesUse
  FileReadsItsBytes
  AnswerIsOwn
  TransportOutlivesUse
  FetchedWhole
PROPERTIES
  KeyNamesOneGame
  ReplacedIsKept
CHECK_DEADLOCK FALSE
