SPECIFICATION TimeboxSpec
CONSTANTS
  Alice = Alice
  Bob = Bob
  Carol = Carol
  ab = ab
  pub = pub
  hash1 = hash1
  hash2 = hash2
  sig1 = sig1
  wrong = wrong
  h1 = h1
  h2 = h2
  NoSig = NoSig
  Pubs = {pub}
  EcdsaPubs = {pub}
  Hashes = {hash1, hash2}
  Sigs = {sig1, wrong}
  Malformed = {NoSig}
  Verify <- MCVerify
  Users = {Alice, Carol}
  Pairs = {ab}
  Members <- MCMembers
  Posts <- AnyPosts
  Deletable = {ab}
  Handlers <- TwoHandlers
  timeboxDelay = 1
  Horizon = 2
  NoEntry = NoEntry
  NoCall = NoCall
  NoReply = NoReply
SYMMETRY Symmetric
INVARIANTS
  ReleasesLate
  PromisesKept
