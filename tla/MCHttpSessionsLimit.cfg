SPECIFICATION Spec
CONSTANTS
  c1 = c1
  c2 = c2
  c3 = c3
  a1 = a1
  a2 = a2
  s1 = s1
  s2 = s2
  s3 = s3
  Session = {s1, s2}
  Creator = {c1, c2}
  Request = {q1}
  Address = {a1}
  MaxSessions = 1
  MaxLifetime = 2
  Second = 2
  CreationRate <- Unlimited
  NoSpec = NoSpec
  NoAddress = NoAddress
  UnknownPeer = UnknownPeer
  NoTime = NoTime
  NoSession = NoSession
  NoBucket = NoBucket
  MaxNow = 1
SYMMETRY Interchangeable
INVARIANTS
  SessionLimit
CHECK_DEADLOCK FALSE
