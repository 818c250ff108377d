SPECIFICATION Spec
CONSTANTS
  Panel = a
  None = None
  MaxLines = 2
INVARIANTS PanelFollows RequestIsReal
CHECK_DEADLOCK FALSE
