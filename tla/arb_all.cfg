CONSTANTS
  None = None
  Readers = {t1, t2}
  Ops = {a, k}
  Rechecking = {k}
  Owners = {o}
  Clients = {c, d}
  Runs = {r, q}
  Sweeps = {s}
  CanWedge = TRUE
  Count = 2
  Consoles = 3
  Relays = {r1, r2}
  NoRelay = NoRelay
  MaxUps = 2
  MaxClis = 1
  MaxAtakDeaths = 1
SPECIFICATION HostSpec
SYMMETRY Symmetry
INVARIANTS
  GuardExclusive
  MonitorBooks
  ReadersKeepOut
  AtakInv
PROPERTIES
  ExclusiveUse
