SPECIFICATION Spec
CONSTANTS
  Conns = {a, b}
  KeepaliveLimit = 0
  None = None
  Lines = {"r", "a", "d"}
  MaxLines = 1
  MaxCredit = 0
INVARIANTS TypeOK StreamsOwned CallSoundHasCall OneEndpoint StatusAgreed
SYMMETRY Symmetry
CHECK_DEADLOCK FALSE
