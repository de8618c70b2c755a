\* Two bets, a payment event and a rotation on three connections, against two
\* resets: every order in which they can take their locks.
SPECIFICATION Spec
CONSTANTS
  Client = {c1, c2, c3}
  Resetter = {x1, x2}
  Reader = {}
  Bet = {b1, b2}
  Deposit = {d1}
  Rotation = {r1}
  MaxSeed = 3
  MaxAttempts = 2
  NoRequest = NoRequest
SYMMETRY Interchangeable
INVARIANTS WholeOrNothing
PROPERTIES EnvironmentKept
