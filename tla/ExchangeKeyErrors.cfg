SPECIFICATION CombinedSpec
CONSTANTS
  Request = {r1}
  App <- Apps
  Subject <- OneSubject
  Target <- OneTarget
  Arrival <- PermittedArrivals
  Accepts <- AcceptedByAll
  Outcome <- PolicyForAll
  Pem <- Pems
  KeyHistory <- Rotated
  UsablePem <- Usable
  SigningPem <- Signing
  Call = {c1}
  Invocation <- Calls
  None = None
INVARIANTS InvalidKeysAreConfiguration
