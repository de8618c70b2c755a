\* One part of the service at a time.  Every part stops when its bounds are
\* used up.
SPECIFICATION Spec
CONSTANTS
  Session = {"w1", "w2"}
  Account = {"u", "gateway", "pending"}
  User = {"u"}
  Entry <- Entries
  MaxEntries = 2
  MaxId = 3
  Caller = {"c1", "c2"}
  Reader = {"v"}
  Round = {"r1", "r2"}
  NoRound = "no round"
  OtherCaller = {"c1", "c2"}
  Hand = {"h1", "h2"}
  OtherRound = {"r1"}
  Instance = {"a", "b", "c"}
  Files = 2
  Content <- Releases
  MaxRetries = 1
  MaxSeed = 2
  MaxCrashes = 1
  Storms = {"s1", "s2"}
  Delivery = {"d1", "d2", "d3", "d4"}
  StormOf <- StormOfEach
  EventOf <- OneEvent
  IsUser <- AllUsers
  PoolMax = 2
  MaxFaults = 2
  Client <- Clients
  Base = 2
  MaxBets = 3
  MaxSeeds = 3
  MaxResets = 1
  Typed <- Hundredths
  Below = {}
  ProductBelow = {}
  Stake <- Stakes
  Roll <- Rolls
INVARIANTS FundedByThePast IdsFollowCommits StepsRecorded HistoryCoversStatus
  AppliedOnceInOrder BootFindsSeed CreditedOnce ReportHolds MessagesDiffer
  ConcludedChecksAgree SettledAsShown VerifiersAgree
PROPERTIES Linear BootKeepsSeed
CHECK_DEADLOCK FALSE
