SPECIFICATION Spec
CONSTANTS
  Order = 11
  Calls = {c1, c2}
  bob = bob
  Requests <- MCRequests
  Token = token
  Recipient = bob
  Prices = {1, 2}
  Coins = {1, 2}
  Expected = {0, 1}
  Word = 4
  MaxDrafts = 2
  Funds = {0}
  MaxFaults = 1
INVARIANTS
  
  NoncesInOrder
  SignaturesUsable
  
  SufficientIsTrue
SYMMETRY MCSymmetry
