SPECIFICATION MailboxSpec
CONSTANTS
  alice = alice
  bob = bob
  carol = carol
  ab = ab
  Users <- ThreeUsers
  Pairs = {ab}
  Members <- MCMembers
  MaxMessages = 2
  Handlers = {h1, h2}
  Faults = TRUE
  Nil = Nil
INVARIANTS
  MessagesKept
  AckedStaysGone
  ShownUntilAcked
