\* One part at a time, under fairness; the instances are in MCLive.
\* Boot and the storms stop when all is served.
SPECIFICATION FairSpec
CONSTANTS
  NullRow = NullRow
  NullRequest = NullRequest
  NullSeed = NullSeed
PROPERTIES EveryRequestEnds ResetEnds RequestEnds EveryInstanceServes
  StormAnswered
CHECK_DEADLOCK FALSE
