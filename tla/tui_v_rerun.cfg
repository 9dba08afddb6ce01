CONSTANTS
  NoTest = NoTest
  t1 = t1
  Tests <- TuiTests
  SetupOutcomes = {"passed", "skipped"}
  CallOutcomes = {"failed"}
  MaxRuns = 2
  MaxFlakes = 1
  MaxQueue = 2
SPECIFICATION TuiSpec
PROPERTIES
  TailSeesNewFile
CHECK_DEADLOCK FALSE
