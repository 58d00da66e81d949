SPECIFICATION HostSpec
CONSTANTS
  Permission <- Names
  Right = Right
  Wrong = Wrong
  Blank = Blank
  NoText = NoText
  Malformed = Malformed
  Empty = Empty
  Forms <- ChosenForms
  Requests <- ChosenRequests
  HookBodies <- ChosenBodies
  None = None
INVARIANTS AnswerJustified PermissionsExact AdmissionExact SelectionFirst
CHECK_DEADLOCK FALSE
