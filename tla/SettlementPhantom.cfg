\* The smallest instance in which a request can lose the race for the active
\* seed twice: two rotations commit while a third request waits.
SPECIFICATION Spec
CONSTANTS
  User = {demo}
  Referred = {demo}
  MinBet = 100
  MaxBet = 200
  DailyLossLimit = 150
  BetId = {b1}
  EventId = {e1}
  Seed = {s1, s2, s3}
  Stake = {100}
  Amount = {200}
  Target = {4950}
  Roll = {4950}
  MaxDay = 0
  NoRow = NoRow
  Worker = {w1, w2, w3}
  NoSeed = NoSeed
SYMMETRY Interchangeable
INVARIANTS NoPhantomAbsence
