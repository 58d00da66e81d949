CONSTANTS
  Op = {o1, o2}
  None = None
  Token <- OddTokens
  Uri <- Uris
  Alg <- Algs
  Kid <- Kids
  KeyAlg <- AllRs256
  WeakKid <- NoWeakKid
  Schedule <- Rotation
  CacheControl <- LastingOrNoStore
  DefaultFreshness = 1
  MaximumFreshness = 3
  StaleAllowance = 2
  RequestTimeout = 1
  RefreshCooldown = 2
  FailureBackoff = 2
  MaxTime = 2
  MaxDrops = 1
SPECIFICATION FairSpec
PROPERTIES
  EveryCallCompletes
