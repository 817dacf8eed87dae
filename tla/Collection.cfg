SPECIFICATION MCSpec
CONSTANTS
  v1 = v1
  v2 = v2
  v3 = v3
  v4 = v4
  v5 = v5
  r1 = r1
  r2 = r2
  r3 = r3
  Day = {1, 2}
  Vacancy = {v1, v2, v3, v4}
  Shards = 2
  Listing <- Pages
  MaxPages = 2
  Limit = 3
  MaxAttempts = 2
  Wrong = {v4}
  NoSnapshot = none
  MaxFailures = 2
  Horizon = 4
  DayLength = 4
  MinWindow = 1
  Dimension = {1}
  SplitValues <- Values
  AnyValue = any
  Posting <- Postings
  MaxFound = 2
  Process = {refresher, other}
  Refresher = refresher
  MaxRuns = 2
  MaxLines = 3
  NoPointer = none
  Files = 2
  MaxRun = 2
  Syncer = {sync1, sync2}
  NoRun = none
  Advert = {v1, v2, v3, v4, v5}
  Searches = 2
  Listed <- Adverts
  SitePage = 2
  HtmlPages = 3
  ApiPage = 2
  Limits = {1, 2, 3, 4, 9}
INVARIANTS
  
  RawIsWhole
  MirrorIsWhole
  CollectedIsWhole
PROPERTIES
  LedgerIsKept
  EndsOnceAnswered
CHECK_DEADLOCK FALSE
