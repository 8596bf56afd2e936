SPECIFICATION Spec
CONSTANTS
  NumRocs = 2
  IdSpace = 2
  Timeout = 2
  WriteAllowance = 1
  DiscoveryTimeout = 1
  DiscoveryGuard = 1
INVARIANTS TypeOK AnswerIsFresh ScanIsSound
PROPERTY WindowIsWaitedOut
