CONSTANTS
  Op = {o1, o2, o3}
  None = None
  Token <- K2Token
  Uri <- Uris
  Alg <- Algs
  Kid <- Kids
  KeyAlg <- AllRs256
  WeakKid <- NoWeakKid
  Schedule <- Moves
  CacheControl <- LastingOnly
  DefaultFreshness = 1
  MaximumFreshness = 3
  StaleAllowance = 2
  RequestTimeout = 1
  RefreshCooldown = 2
  FailureBackoff = 2
  MaxTime = 2
  MaxDrops = 1
SYMMETRY OpSymmetry
SPECIFICATION Spec
INVARIANTS
  IdentityIsolation
  NobodyForgotten
PROPERTIES
  OnlyLastRequestPublishes
  JwksRequestsSpaced
