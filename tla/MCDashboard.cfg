SPECIFICATION Spec
CONSTANTS
  Nil = Nil
  BarUrls <- MCBarUrls
  Days <- MCDays
  Values <- MCValues
  Segments = {"s1", "s2"}
  Countries <- MCCountries
  Hints = {"D", "E", "M", "P", "S", "Y"}
  BarMoves = 3
  PanelUrls <- MCPanelUrls
  Rows <- MCRows
  StartModes <- MCStartModes
  PanelMoves = 3
  Tabs = {"visitors", "conversions", "props", "funnels"}
  Funnels <- MCFunnels
  Properties <- MCProperties
  Searches = {"", "a"}
  BehaviorsMoves = 4
  Queries = {"28d goal", "day"}
  Graphable <- MCGraphable
  UnitsOf <- MCIntervals
  DefaultOf <- MCDefaultOf
  Urls <- MCUrls
  Stored <- MCStored
  GraphMoves = 2
  MaxCount = 1
  Scopes = {"pages", "entry"}
  MetricsOf <- MCMetricsOf
  DefaultSort = "duration"
  Texts = {"", "a"}
  ReportPages = 3
  DetailsMoves = 4
  Profiles = {"ann", "bob"}
  HeatmapDays = {"monday"}
  Visits <- MCVisits
  SessionPages = 2
  JourneyMoves = 5
INVARIANTS
  UrlIsWhatWasAsked
  GraphIsAsked
  ShownIsAsked
  FirstPageIsAsked
  FirstPageShown
  SessionsAreOfDay
PROPERTIES
  TopBarSteps
  ClickMatchesRow
  AnswersSettle
  LoadingEnds
CHECK_DEADLOCK FALSE
