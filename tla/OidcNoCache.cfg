CONSTANTS
  Op = {o1, o2, o3}
  None = None
  Token <- K2Token
  Uri <- Uris
  Alg <- Algs
  Kid <- Kids
  KeyAlg <- AllRs256
  WeakKid <- NoWeakKid
  Schedule <- BackAndForth
  CacheControl <- NoCacheOnly
  DefaultFreshness = 1
  MaximumFreshness = 3
  StaleAllowance = 2
  RequestTimeout = 1
  RefreshCooldown = 2
  FailureBackoff = 2
  MaxTime = 1
  MaxDrops = 0
SYMMETRY OpSymmetry
SPECIFICATION Spec
PROPERTIES
  NoCacheRevalidated
