SPECIFICATION Spec
CONSTANTS
  Request = {r1, r2}
  App <- Apps
  Subject <- Subjects
  Target <- Targets
  Arrival <- EveryArrival
  Accepts <- AcceptedSubjects
  Outcome <- Policy
  Pem <- Pems
  KeyHistory <- Unrotated
  UsablePem <- Usable
  SigningPem <- Signing
  None = None
SYMMETRY RequestSymmetry
INVARIANTS TypeOK IssuanceJustified TokensAccountedFor AnswersAcknowledged ClientErrorsMintNothing
PROPERTIES KeepsCustody
