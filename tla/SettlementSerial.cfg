\* Two connections doing everything the service does, over a midnight, against
\* the service that does one thing at a time.
SPECIFICATION Spec
CONSTANTS
  User = {demo, other}
  Referred = {demo}
  MinBet = 100
  MaxBet = 200
  DailyLossLimit = 250
  BetId = {b1, b2}
  EventId = {e1}
  Seed = {s1, s2}
  Stake = {100}
  Amount = {200}
  Target = {4950}
  Roll = {4949, 4950}
  MaxDay = 1
  NoRow = NoRow
  Worker = {w1, w2}
  NoSeed = NoSeed
SYMMETRY Interchangeable
PROPERTIES Serialises
