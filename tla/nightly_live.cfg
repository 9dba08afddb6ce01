CONSTANTS
  NoRun = NoRun
  SuiteRuns = {r1, r2}
  MaxEntries = 1
  MaxNights = 2
  MaxSlots = 2
  MaxDeaths = 2
  Manual = FALSE
  b1 = b1
  b2 = b2
  b3 = b3
  Fleet <- TwoBoards
  Baked = {b1}
  NoBoard = NoBoard
  Aborts = {"clearing", "suspending", "preflight", "window", "sending"}
  MaxSends = 3
  MaxRestarts = 1
  Publish = Publish
  Reposts = {}
  NoCall = NoCall
  WriteFails = {"analysis", "store", "reread", "delivery"}
  Lossy = FALSE
  MaxReportDeaths = 1
SPECIFICATION NightsFairSpec
INVARIANTS
  SuiteCap
PROPERTIES
  NightsSettle
