SPECIFICATION FairSpec
CONSTANTS
  MaxStreams = 2
  MaxQueued = 1
INVARIANTS TypeOK BlockedByFailure StopIsWhole OneStaleFrame
PROPERTIES SpokenIsSent ThreadsEnd
CHECK_DEADLOCK FALSE
