SPECIFICATION FairSpec
CONSTANTS
  c1 = c1
  c2 = c2
  c3 = c3
  c4 = c4
  src = src
  msg = msg
  other = other
  rev = rev
  adm = adm
  view = view
  s1 = s1
  s2 = s2
  k1 = k1
  k2 = k2
  Nothing = Nothing
  None = None
  Session = {s1, s2}
  Key = {k1, k2}
  Claim = {c1, c2, c3, c4}
  Source = {src}
  Message = {msg, other}
  Incident = {1, 2, 3}
  Actor = {rev, adm, view}
  RankOf <- MCRankOf
  Template <- MCTemplate
  FirstEvidence <- MCFirstEvidence
  FirstDecision <- MCFirstDecision
  PublishedAt <- MCPublishedAt
  MessageOf <- MCMessageOf
  Input <- MCInput
  Terms <- MCTerms
  Amounts <- MCAmounts
  ClosureWords = {"clear"}
  HedgeWords = {"probably"}
  InjectionWords = {"ignore_rules"}
  NegationWords = {"no"}
  SignalWords = {"hit", "to"}
  ClauseMarks = {",", "."}
  TimeWords <- MCTimeWords
  KyivToUtc <- MCKyivToUtc
  YearDays = 365
  AnchorDistance = 3
  FutureTolerance = 5
  PastTolerance = 15
  Unknown = None
  ContextWindow = 3
  MaxPrior = 1
  Threshold = 90
  MinMargin = 20
  Limit = 1
  MaxSent = 2
  MaxBeside = 1
INVARIANTS VersionsAudited OneHome PublicIsVouched
PROPERTIES RetryAnswered PagesAcrossWrites CommandsEnd
