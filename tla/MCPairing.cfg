SPECIFICATION PairingSpec
CONSTANTS
  alice = alice
  bob = bob
  Users <- TwoUsers
  PairIds <- OnePair
  Handlers = {h1, h2}
  Faults = TRUE
  Nil = Nil
INVARIANTS
  Consent
  
PROPERTY AcceptedStays
