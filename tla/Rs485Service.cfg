SPECIFICATION Spec
CONSTANTS
  Delay = 3
  RetrySeconds = 4
  BusyRetry = 1
  ErrorRetry = 2
  SocketRoom = 2
  Mns = {1}
  StartRange = {1}
  Users = {u1, u2}
  MaxWarnings = 2
  Probes = 2
INVARIANTS TypeOK EventNotForgotten ScanOwnsUart AnswerIsHonest
PROPERTIES BeginsInWindow WarningsAreKept WarningIsDelivered
