\* A proof is open while newer bets push its row out of the list.
SPECIFICATION Spec
CONSTANTS
  Bet = {b1, b2}
  RowLimit = 1
  BetLimit = 2
  EntryLimit = 4
  MaxResets = 0
  MaxMounts = 1
  MaxOpens = 0
  NoBet = NoBet
INVARIANTS ProofHasItsRow
CHECK_DEADLOCK FALSE
