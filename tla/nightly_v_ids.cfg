CONSTANTS
  NoRun = NoRun
  SuiteRuns = {r1, r2}
  MaxEntries = 2
  MaxNights = 2
  MaxSlots = 1
  MaxDeaths = 1
  Manual = TRUE
  b1 = b1
  b2 = b2
  b3 = b3
  Fleet <- ThreeBoards
  Baked = {b1, b2}
  NoBoard = NoBoard
  Aborts = {"clearing", "suspending", "preflight", "window", "sending"}
  MaxSends = 3
  MaxRestarts = 2
  Publish = Publish
  Reposts = {p1}
  NoCall = NoCall
  WriteFails = {}
  Lossy = FALSE
  MaxReportDeaths = 0
SPECIFICATION NightsSpec
INVARIANTS
  IdsNotReused
