SPECIFICATION FairSpec
CONSTANTS
  Conns = {a}
  None = None
  KeepaliveLimit = 1
  Lines = {"a", "o", "p"}
  MaxLines = 2
  MaxCredit = 0
PROPERTIES Announced SilentPanelGivenUp
CHECK_DEADLOCK FALSE
