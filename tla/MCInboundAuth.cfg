SPECIFICATION FairSpec
CONSTANTS
  r1 = r1
  r2 = r2
  Request = {r1, r2}
  ProviderLists <- Lists
  Carries <- Tokens
  MetadataRequest = {r2}
  MissingIssAllowed = FALSE
  Ttl = 1
  Timeout = 1
  None = None
  NoRequest = NoRequest
  MaxNow = 2
  MaxRotations = 1
INVARIANTS
  FetchShared
  KeysRecent
  OwnerDecides
PROPERTIES
  RequestDecided
CHECK_DEADLOCK FALSE
