SPECIFICATION ReturningSpec
CONSTANTS
  t1 = t1
  t2 = t2
  p1 = p1
  p2 = p2
  w1 = w1
  w2 = w2
  TaskId = {t1}
  Peer = {p1, p2}
  Waiter = {w1, w2}
  WaitTask <- BothOnFirst
  WaitPeer <- SamePeer
  Ttl = {}
  NoTtl = NoTtl
  NoEntry = NoEntry
  MaxNow = 2
  StatusNotifications = TRUE
PROPERTIES
  ResultAnswered
CHECK_DEADLOCK FALSE
