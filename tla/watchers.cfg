CONSTANTS
  None = None
  Connects = {c}
  Uploads = {u}
  Sessions = {s, t}
  Others = {o}
  Observer = o
  MaxAttempts = 2
  Aborts = {"holding", "closing"}
  Submitters = {w1, w2}
  QueueMax = 3
  BatchMax = 2
  Debug = {2}
  MaxRecs = 6
  NoSerial = NoSerial
  Serials = {d1, d2}
  MaxBroken = 1
  Clients = {c1, c2}
  MaxSent = 2
  MaxStarts = 1
  MaxDeletes = 0
  MaxDeaths = 1
  NoTest = NoTest
  t1 = t1
  Tests <- TuiTests
  SetupOutcomes = {"passed"}
  CallOutcomes = {"failed"}
  MaxRuns = 2
  MaxFlakes = 0
  MaxQueue = 1
SPECIFICATION WatchersSpec
INVARIANTS
  SessionsKeepApart
  ObserverInv
  DatadogInv
PROPERTIES
  RegistrySpec
  WatchersSettle
CHECK_DEADLOCK FALSE
