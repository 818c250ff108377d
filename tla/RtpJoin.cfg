SPECIFICATION FairSpec
CONSTANTS
  MaxStreams = 1
  MaxQueued = 1
PROPERTY ThreadsClose
CHECK_DEADLOCK FALSE
