SPECIFICATION Spec
CONSTANTS
  Nil = Nil
  Locations <- MCLocations
  Configs <- MCConfigs
  BatchSize = 2
  LongEnough = 2
  MaxTicks = 2
  TrackerMoves = 3
  SessionOrder <- MCSessions
  CellOf <- MCCellOf
  Devices = {"desktop"}
  Places = {"", "p", "paris", "rome"}
  Short = {"", "p"}
  MaxVisible = 1
  MaxEvents = 2
  LiveMoves = 3
  GoalPool <- MCGoals
  GoalOrder <- MCGoalOrder
  Suggested = {"cta", "video"}
  RulePaths = {"/a", "//a"}
  NormalPath <- MCNormalPath
  StepPool <- MCSteps
  MaxSteps = 3
  SettingsMoves = 3
  ListRows = {1, 2, 3}
  ListTexts = {"", "a"}
  Matches <- MCMatches
  PerPage = 2
  ListMoves = 6
  RecordMoves = 8
  Ids = {"owner", "member"}
  Staff = {"owner"}
  Owners = {"owner"}
  MaxCached = 2
  ShellMoves = 5
  VersionNames <- MCNames
  ChannelFor <- MCChannelFor
  Rank <- MCRank
  Counts = {1, 9}
  MaxVersions = 2
  LibraryMoves = 4
INVARIANTS
  TrackerCounts
  LiveSettles
  SettingsAgree
  ListsSettle
  RecordsSettle
  ShellIsFresh
  LibraryServes
PROPERTIES
  NothingLeftBehind
  DefaultHealed
CHECK_DEADLOCK FALSE
