SPECIFICATION FairSpec
CONSTANTS
  Clients = {c1, c2, c3}
  QueueSize <- MCQueueSize
  Requests <- MCRequests
INVARIANTS TypeOK NoDanglingTask ExecutedOnce ReplyAnswersRequest
PROPERTIES StoredAnswerIsSent QueuedIsServed
