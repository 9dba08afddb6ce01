CONSTANTS
  None = None
  NoJob = NoJob
  e1 = e1
  a = a
  b = b
  Keys <- TwoCommits
  Callers = {c1, c2}
  Images = {f1, f2}
  MaxCalls = 2
  MaxDeaths = 1
  JobIds = {j1, j2}
  MaxEdits = 1
  MaxJobDeaths = 1
  s1 = s1
  s2 = s2
  g = g
  Captures = {s1, s2}
  Grinds = {g}
  Stoppers = {x1}
  NoTool = NoTool
SPECIFICATION FairSpec
INVARIANTS
  OneBuilder
  RowHasBuilder
  
  JobsInv
  ToolsInv
PROPERTIES
  OnlyLiveBuildsDefer
  BuildsSettle
