SPECIFICATION FairSpec
CONSTANTS
  Keys = {enter, menu, spurious}
  Mapped = {enter, menu}
  None = None
INVARIANTS TypeOK PressedIsTimed DownIsPressed
PROPERTY NoKeyStuck
