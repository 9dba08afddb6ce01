CONSTANTS
  None = None
  Readers = {t1, t2}
  Ops = {a, k}
  Rechecking = {k}
  Owners = {o}
  Clients = {c, p}
  Runs = {r}
  Sweeps = {s}
  CanWedge = TRUE
  stays = p
  b1 = b1
  b2 = b2
  p1 = p1
  p2 = p2
  p3 = p3
  s1 = s1
  Boards = {b1, b2}
  Ports = {p1, p2, p3}
  Slots = {s1}
  Recoveries = {r1, r2}
  Nowhere = Nowhere
  Wired <- FleetWired
  Stored <- FleetStored
  Budgets <- FleetBudgets
SPECIFICATION FleetSpec
INVARIANTS
  DiscInv
  NeverDoubleOpenedThere
PROPERTIES
  GuardTerminates
  MonitorComesBack
  DiscoverySettles
