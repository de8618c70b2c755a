\* A page of ledger entries read across a reset.
SPECIFICATION Spec
CONSTANTS
  Client = {c1}
  Resetter = {x1}
  Reader = {v}
  Bet = {}
  Deposit = {d1}
  Rotation = {}
  MaxSeed = 2
  MaxAttempts = 2
  NoRequest = NoRequest
INVARIANTS EntriesHavePostings
