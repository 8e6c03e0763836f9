SPECIFICATION LoginSpec
CONSTANTS
  alice = alice
  bob = bob
  h1 = h1
  h2 = h2
  Addresses <- TwoAddresses
  LoginHandlers <- TwoHandlers
  nonceTTL = 1
  tokenTTL = 1
  MaxNonces = 3
  Horizon = 2
  NoNonce = NoNonce
  NoLogin = NoLogin
  NoSignature = NoSignature
SYMMETRY Symmetric
INVARIANTS
  LoginOnce
  LoginFresh
  
