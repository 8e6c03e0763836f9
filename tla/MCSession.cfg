SPECIFICATION SessionSpec
CONSTANTS
  s1 = s1
  SessionIds <- OneSession
  TTL = 2
  Horizon = 5
  MaxRestarts = 1
  NoSession = NoSession
INVARIANTS
  OneWinner
  RefusalsJustified
