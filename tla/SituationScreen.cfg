SPECIFICATION Spec
CONSTANTS
  Nothing = Nothing
  ExplicitAge = 1
  NowAge = 2
  ForecastAge = 3
  TrackAge = 4
  Facts <- MCFacts
  Names <- MCNames
  City = "kremenchuk"
  RiverCity = "dnipro"
  River <- MCRiver
  Marks <- MCMarks
  ClauseBreaks = {".", "newline"}
  Separators = {"/", ",", "i"}
  Designators <- MCDesignators
  RelationRules <- MCRules
  Governing = {"na", "u"}
  Na = "na"
  Joins <- MCJoins
  Water <- MCWater
  NoPlace = Nothing
  Lexicon <- MCLexicon
  Threats <- MCThreats
  Counts <- MCCounts
  RaionId = "kremenchuk_raion"
  InRaion = {"kremenchuk", "hlobyne"}
  NotWords = {"not"}
  NoneWords = {"not", "none"}
  YetWords = {"yet"}
  AlertStale = 0
  AlertUnknown = 1
  EvalStale = 0
  EvalUnknown = 1
  VisiblePoll = 1
  HiddenPoll = 1
  RequestTimeout = 1
  MaxAge = 1
  Timelines <- MCTimelines
  Watched <- MCWatched
  AiSays <- MCAiSays
  FeedAge = 3
  FeedSize = 2
  MaxTime = 4
  MaxConfirms = 1
  MaxEvaluations = 1
  MaxRefreshes = 1
INVARIANTS ThreatNotOver AgeingOnlyCalms ShownIsChecked TileIsRecent NothingHidden
PROPERTIES AnswersForward
