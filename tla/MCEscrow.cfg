SPECIFICATION FairSpec
CONSTANTS
  Alice = Alice
  Bob = Bob
  Carol = Carol
  x = x
  pubA = pubA
  pubB = pubB
  pubC = pubC
  hashA = hashA
  hashB = hashB
  sigA = sigA
  sigB = sigB
  garbled = garbled
  NoSig = NoSig
  Nobody = Nobody
  NoFlower = NoFlower
  NoRequest = NoRequest
  Free = Free
  Ids = {x}
  Pubs = {pubA, pubB, pubC}
  EcdsaPubs = {pubA, pubB}
  Hashes = {hashA, hashB}
  Sigs = {sigA, sigB, garbled}
  Malformed = {garbled, NoSig}
  Verify <- MCVerify
  Handlers = {h1, h2}
  Users = {Alice, Bob, Carol}
  Requests <- MCRequests
  LegacyFlowers <- MCLegacy
INVARIANTS
  DepositsKept
  ReleasesBacked
  ReleasesUsable
  
  
PROPERTIES
  
  EveryRequestAnswered
  SwapCompletes
