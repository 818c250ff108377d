SPECIFICATION Spec
CONSTANTS
  Panel = a
  None = None
  MaxLines = 2
PROPERTY ManualOnRequest
CHECK_DEADLOCK FALSE
