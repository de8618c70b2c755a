\* Three connections and one user: the same bet twice, two bets on one
\* allowance, two rotations, and a payment event sent three times.
SPECIFICATION Spec
CONSTANTS
  User = {demo}
  Referred = {demo}
  MinBet = 100
  MaxBet = 200
  DailyLossLimit = 150
  BetId = {b1, b2}
  EventId = {e1}
  Seed = {s1, s2, s3}
  Stake = {100}
  Amount = {200}
  Target = {4950}
  Roll = {4949, 4950}
  MaxDay = 0
  NoRow = NoRow
  Worker = {w1, w2, w3}
  NoSeed = NoSeed
SYMMETRY Interchangeable
INVARIANTS TypeOK NoOverdraft BooksReconcile NoIntegrityFailure LocksProtect
PROPERTIES LossLimitAtCommit CommitBeforeReveal NamedCommitmentKept
