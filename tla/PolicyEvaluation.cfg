SPECIFICATION CompositionSpec
CONSTANTS
  AppId <- ClientIdentifiers
  Owner <- Owners
  Repository <- Repositories
  AnyRepository = AnyRepository
  Issuer <- Issuers
  Claim <- Claims
  Value <- Values
  Text <- Texts
  Permission <- Permissions
  Slug <- Slugs
  Audience <- Audiences
  Algorithm <- Algorithms
  Binding <- Bindings
  Key <- Keys
  Malformed = Malformed
  Configuration <- ChosenConfigurations
  IdToken <- ChosenTokens
  Statements <- CompiledStatements
  Subjects <- VerifiedSubjects
  Requests <- ChosenRequests
  Policies <- CompiledPolicies
  None = None
INVARIANTS TypeOK EvaluationCorrect AuthorityAsWritten RefusesTheUnsound
CHECK_DEADLOCK FALSE
