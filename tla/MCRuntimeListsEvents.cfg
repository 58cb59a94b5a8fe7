SPECIFICATION FairSpec
CONSTANTS
  boot = boot
  next = next
  k1 = k1
  k2 = k2
  r1 = r1
  r2 = r2
  x1 = x1
  x2 = x2
  d1 = d1
  d2 = d2
  Key = {}
  Caller <- Callers
  Feature = {"tools", "prompts"}
  Config = {boot, next}
  BootConfig = boot
  Listed <- Lists
  Notifies <- SomeNotified
  Reload = {r1}
  Refresher = {}
  Flusher = {d1, d2}
  Boot = Boot
  None = None
  MaxVersion = 0
  MaxEvents = 2
  Capacity = 1
INVARIANTS
  EventOnItsWay
PROPERTIES
  EventAnnounced
CHECK_DEADLOCK FALSE
