SPECIFICATION Spec
CONSTANTS
  MaxCalls = 3
  Ids = {i1}
  Callers = {h1, h2}
  MaxClients = 2
  MaxUplinks = 1
SYMMETRY Interchangeable
INVARIANTS SlotMatchesCall StatusHasCall NoStrayCall SessionWasAccepted
PROPERTIES AnswerIsFinal OneVisitorAtATime
CHECK_DEADLOCK FALSE
