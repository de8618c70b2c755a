\* Bets and deposits of two users on three connections: they meet only at the
\* rows of the house accounts and of the seed. Every bet loses, so each one also
\* posts the commission entry and takes all the rows a bet can take; a stake of
\* 300 is refused.
SPECIFICATION Spec
CONSTANTS
  User = {demo, other}
  Referred = {demo, other}
  MinBet = 100
  MaxBet = 200
  DailyLossLimit = 150
  BetId = {b1, b2}
  EventId = {e1, e2}
  Seed = {s1}
  Stake = {100, 300}
  Amount = {200}
  Target = {4950}
  Roll = {4950}
  MaxDay = 0
  NoRow = NoRow
  Worker = {w1, w2, w3}
  NoSeed = NoSeed
SYMMETRY InterchangeableUsers
INVARIANTS NoWaitCycle NonceSequence
