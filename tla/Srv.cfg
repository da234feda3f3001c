SPECIFICATION SrvFairSpec
CONSTANTS
  tinit = tinit
  panel = panel
  guest = guest
  Clients <- AllClients
  Accepted <- Trusted
  BuffNr = 2
  QueueLen = 1
  SeqNr = 5
  FirstSeqNo = 4
  MaxRequests <- Bounds
INVARIANTS
  SrvTypeOK
  NoBufferLeak
  WatchMeansBusy
  RepliesInOrder
  AnswerMatches
PROPERTIES
  Answered
CHECK_DEADLOCK FALSE
