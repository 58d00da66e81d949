CONSTANTS
  Op = {o1, o2}
  None = None
  Token <- AnyToken
  Uri <- Uris
  Alg <- Algs
  Kid <- Kids
  KeyAlg <- AllRs256
  WeakKid <- WeakK2
  Schedule <- Withdrawal
  CacheControl <- CappedOrStrict
  DefaultFreshness = 1
  MaximumFreshness = 1
  StaleAllowance = 1
  RequestTimeout = 1
  RefreshCooldown = 2
  FailureBackoff = 2
  MaxTime = 4
  MaxDrops = 0
SYMMETRY OpSymmetry
SPECIFICATION Spec
PROPERTIES
  KeepsContract
