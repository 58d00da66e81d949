SPECIFICATION Spec
CONSTANTS
  Purpose <- Purposes
  Response <- Responses
  Chunk <- Chunks
  ByteLimit = 2
  ErrorLimit = 1
  None = None
INVARIANTS TypeOK NothingLeaks SizeDecides OutcomeEarned
PROPERTIES EveryRequestSettles
