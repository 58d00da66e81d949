SPECIFICATION FairSpec
CONSTANTS
  Request = {r1, r2}
  App <- Apps
  Subject <- OneSubject
  Target <- OneTarget
  Arrival <- PermittedArrivals
  Accepts <- AcceptedByAll
  Outcome <- PolicyForAll
  Pem <- Pems
  KeyHistory <- Rotated
  UsablePem <- Usable
  SigningPem <- Signing
  None = None
PROPERTIES EndsUnlessPlatformHangs
