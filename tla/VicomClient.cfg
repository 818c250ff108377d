SPECIFICATION FairSpec
CONSTANTS
  Period = 1
  KeepaliveLimit = 2
  RxMax = 1
  TxMax = 1
  CtrMax = 1
INVARIANTS TypeOK ProgramsMatchMode SocketMatchesMode KeepaliveBounded
PROPERTIES FreshSession DeafnessNoticed SilentPeerGivenUp
