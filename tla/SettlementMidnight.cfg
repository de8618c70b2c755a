\* A bet that began before midnight is measured after a win of the next day;
\* the limit allows one lost stake.
SPECIFICATION Spec
CONSTANTS
  User = {demo}
  Referred = {demo}
  MinBet = 100
  MaxBet = 200
  DailyLossLimit = 100
  BetId = {b1, b2, b3}
  EventId = {e1}
  Seed = {s1}
  Stake = {100}
  Amount = {200}
  Target = {4950}
  Roll = {4949, 4950}
  MaxDay = 1
  NoRow = NoRow
  Worker = {w1, w2}
  NoSeed = NoSeed
SYMMETRY Interchangeable
INVARIANTS DailyLossPerDay
