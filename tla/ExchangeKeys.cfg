SPECIFICATION CombinedSpec
CONSTANTS
  Request = {r1, r2}
  App <- Apps
  Subject <- OneSubject
  Target <- OneTarget
  Arrival <- PermittedArrivals
  Accepts <- AcceptedByAll
  Outcome <- PolicyForAll
  Pem <- Pems
  KeyHistory <- Rotated
  UsablePem <- Usable
  SigningPem <- Signing
  Call = {c1}
  Invocation <- Calls
  None = None
CONSTRAINTS BeforeMint EndTogether
SYMMETRY RequestSymmetry
INVARIANTS KeysCurrent RpcKeysCurrent RpcFailuresExplained
