SPECIFICATION FairSpec
CONSTANTS
  c1 = c1
  c2 = c2
  r1 = r1
  r2 = r2
  r3 = r3
  Call = {c1, c2}
  Cancellable = {c1}
  Reporter = {r1, r2, r3}
  CallOf <- TwoOnFirst
  Detached = {r2}
  Interval = 2
  MaxProgress = 2
  MaxNow = 3
  None = None
INVARIANTS
  ProgressSpaced
PROPERTIES
  CancellationObeyed
CHECK_DEADLOCK FALSE
