SPECIFICATION FairSpec
CONSTANTS
  Sender = sender
  Acceptor = acceptor
  Protocols = {"rounds", "ecdsa", "frost"}
  Rounds = 2
  OutSize = 1
  MaxAttempts = 2
  MaxFaults = 1
INVARIANTS
  
  ReadInOrder
PROPERTIES
  BothFinish
CHECK_DEADLOCK FALSE
