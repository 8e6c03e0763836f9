\* Two FROST withdrawals of one swap.
CONSTANTS
  Alice = Alice
  Bob = Bob
  h1 = h1
  h2 = h2
  swap = swap
  NoSwap = NoSwap
  None = None
  Clients <- MCClients
  Hashes = {h1, h2}
  Swaps = {swap}
  Requests <- MCFrostRequests
  Slots = {k1, k2}
  MaxPresigs = 2
  MaxRequests = 4
  HistoryMax = 2
  MaxFaults = 0
SPECIFICATION Spec
SYMMETRY MCSymmetry
INVARIANTS
  OneCosign
CHECK_DEADLOCK FALSE
