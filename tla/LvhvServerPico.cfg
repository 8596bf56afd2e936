SPECIFICATION Spec
CONSTANTS
  Clients = {c1, c2, c3}
  QueueSize <- MCQueueSize
  Requests <- MCRequests
INVARIANT QueuedForConnectedPico
