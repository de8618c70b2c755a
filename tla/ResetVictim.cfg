\* One bet against one reset: which of the two a deadlock ends.
SPECIFICATION Spec
CONSTANTS
  Client = {c1}
  Resetter = {x1}
  Reader = {}
  Bet = {b1}
  Deposit = {}
  Rotation = {}
  MaxSeed = 2
  MaxAttempts = 2
  NoRequest = NoRequest
PROPERTIES NoBetSacrificed
