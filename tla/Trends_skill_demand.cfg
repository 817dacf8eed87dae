SPECIFICATION MCTrendsSpec
CONSTANTS
  Steps <- TwoSteps
  Other = {"geo"}
  Edited = {"skills", "geo"}
  Value = {known}
  Empty = empty
  Absent = absent
  Update = {h1, h2}
  Person = {p1, p2}
  Vacancy = {v1, v2}
  Token = {t1, t2}
  TTL = 1
  MaxTime = 2
  MaxCached = 1
  Bot = {b1, b2}
  Subscriber = {s1, s2}
  MaxNews = 2
  MaxUpdates = 4
  MaxOverlapping = 3
  MaxPresses = 3
  MaxEdits = 1
  g1 = g1
  g2 = g2
  LastWeek = 2
  MaxRun = 2
  Input <- RawFiles
  NoPayload = NoPayload
  Segment <- BothSegments
  Unknown = Unknown
  Skilled <- OneSegment
  Query <- Queries
  MinRows = 2
  MinSegmentRows = 2
  MinPeriods = 2
  MaxUnknown = 80
  MinSalary = 1
  MinTrendSalary = 10
  MinSegmentSalary = 5
  Reloader = {q1, q2}
SYMMETRY Symmetry
INVARIANT SkillDemandIsShown
CHECK_DEADLOCK FALSE
