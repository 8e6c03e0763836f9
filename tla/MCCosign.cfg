\* Two ECDSA withdrawals of one swap, two requests at a time, four in all, one fault.
CONSTANTS
  Alice = Alice
  Bob = Bob
  h1 = h1
  h2 = h2
  swap = swap
  NoSwap = NoSwap
  None = None
  Clients <- MCClients
  Hashes = {h1, h2}
  Swaps = {swap}
  Requests <- MCRequests
  Slots = {k1, k2}
  MaxPresigs = 2
  MaxRequests = 4
  HistoryMax = 2
  MaxFaults = 1
SPECIFICATION Spec
SYMMETRY MCSymmetry
INVARIANTS
  OneCosignECDSA
  RecordsKept
  SingleUse
  PresigsAgree
CHECK_DEADLOCK FALSE
