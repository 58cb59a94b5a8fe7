SPECIFICATION FairSpec
CONSTANTS
  get1 = get1
  post1 = post1
  Call = {get1, post1}
  Policy <- Policies
  Lifetime <- Lifetimes
  Skew = 1
  Never = Never
  TooLong = TooLong
  NoToken = NoToken
  NoEntry = NoEntry
  NoCall = NoCall
  MaxIssued = 4
  MaxNow = 1
  Making <- Makers
  Retryable = {get1}
  Cancellable = {get1}
  MaxAttempts = 2
  Retried <- AnyRetried
INVARIANTS
  ExchangeShared
  RotationFollowed
  RequestsBounded
  RefusedTokenNotReused
PROPERTIES
  CancelledToolEnds
  ImplementsService
  CallEnds
CHECK_DEADLOCK FALSE
