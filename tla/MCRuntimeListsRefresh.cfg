SPECIFICATION FairSpec
CONSTANTS
  boot = boot
  next = next
  k1 = k1
  k2 = k2
  r1 = r1
  r2 = r2
  x1 = x1
  x2 = x2
  d1 = d1
  d2 = d2
  Key = {k1}
  Caller <- Callers
  Feature = {"prompts"}
  Config = {boot, next}
  BootConfig = boot
  Listed <- Lists
  Notifies <- SomeNotified
  Reload = {r1}
  Refresher = {x1, x2}
  Flusher = {}
  Boot = Boot
  None = None
  MaxVersion = 2
  MaxEvents = 0
  Capacity = 1
INVARIANTS
  ClientKept
PROPERTIES
  CacheMovesForward
  RefreshReturnsInTheEnd
CHECK_DEADLOCK FALSE
