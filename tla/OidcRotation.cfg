CONSTANTS
  Op = {o1, o2}
  None = None
  Token <- BothTokens
  Uri <- Uris
  Alg <- Algs
  Kid <- Kids
  KeyAlg <- AllRs256
  WeakKid <- NoWeakKid
  Schedule <- Rotation
  CacheControl <- CappedOrStrict
  DefaultFreshness = 1
  MaximumFreshness = 3
  StaleAllowance = 2
  RequestTimeout = 1
  RefreshCooldown = 2
  FailureBackoff = 2
  MaxTime = 5
  MaxDrops = 1
SYMMETRY OpSymmetry
SPECIFICATION Spec
INVARIANTS
  TypeOK
  DocumentAgeBounded
  RejectionJustified
PROPERTIES
  StaleOnlyDuringOutage
