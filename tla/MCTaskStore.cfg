SPECIFICATION FairSpec
CONSTANTS
  t1 = t1
  t2 = t2
  p1 = p1
  p2 = p2
  w1 = w1
  w2 = w2
  TaskId = {t1}
  Peer = {p1, p2}
  Waiter = {w1, w2}
  WaitTask <- BothOnFirst
  WaitPeer <- TwoPeers
  Ttl = {0, 1, 2}
  NoTtl = NoTtl
  NoEntry = NoEntry
  MaxNow = 3
  StatusNotifications = TRUE
INVARIANTS
  WorkingTaskHasWorker
  NoOrphanWorker
  OneOutcome
  AtMostOneNotice
PROPERTIES
  TerminalIsFinal
  ImplementsLifecycle
  CancelledToolStops
  TaskSettles
  RegisteredWaiterAnswered
CHECK_DEADLOCK FALSE
