\* Two requests at a time, four in all, one fault.
CONSTANTS
  Alice = Alice
  Bob = Bob
  eth1 = eth1
  btc1 = btc1
  i1 = i1
  i2 = i2
  v = v
  w = w
  None = None
  Users = {Alice, Bob}
  ECDSAAccounts = {eth1}
  FROSTAccounts = {btc1}
  Ids = {i1, i2}
  Values = {v, w}
  Requests <- MCRequests
  Slots = {k1, k2}
  MaxRequests = 4
  MaxFaults = 1
SPECIFICATION Spec
SYMMETRY MCSymmetry

  
  
PROPERTY OwnerKept
CHECK_DEADLOCK FALSE
