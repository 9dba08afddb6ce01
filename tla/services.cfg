CONSTANTS
  NoPeer = NoPeer
  Peers = {p, q}
  Lines = {n}
  MaxBeats = 1
  NoHandler = NoHandler
  Handlers = {h1}
  KeepArchives = 1
  FileMax = 1
  MaxRows = 3
  MaxCrashes = 1
  Pagers = {p1, p2}
  RingSize = 2
  MaxPage = 2
  MaxLines = 5
  Kinds = {"mono", "left"}
  Signatures = {s1, s2}
  NoSignature = NoSignature
  Chunks = 3
  MaxFrames = 2
  MaxTables = 2
  Clients = {c1, c2}
  MaxSent = 2
  MaxStarts = 2
  MaxDeletes = 1
  MaxDeaths = 1
  NoTest = NoTest
  t1 = t1
  Tests <- TuiTests
  SetupOutcomes = {"passed", "skipped"}
  CallOutcomes = {"failed"}
  MaxRuns = 2
  MaxFlakes = 1
  MaxQueue = 2
SPECIFICATION Spec
SYMMETRY Symmetry
INVARIANTS
  HubInv
  RecInv
  SessionInv
  DisplayInv
  CotInv
  TuiInv
PROPERTIES
  ServicesKeep
CHECK_DEADLOCK FALSE
