SPECIFICATION FairSpec
CONSTANTS
  MaxCalls = 2
  Ids = {i1}
  Callers = {h1}
  MaxClients = 1
  MaxUplinks = 2
INVARIANTS TypeOK MicrophoneInCall
PROPERTIES SlotFreed HangupEnds
CHECK_DEADLOCK FALSE
