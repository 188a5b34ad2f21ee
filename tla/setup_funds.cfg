SPECIFICATION FairSpec
CONSTANTS
  a1 = a1
  a2 = a2
  a3 = a3
  hotWallet = hotWallet
  AccountIds <- Drawn
  HotName = hotWallet
  Wallet0 <- Leftover
  HotUuids <- Uuids
  Concurrency = 1
  ResolveAttempts = 2
  MaxFaults = 2
  Scenarios <- SomeScenarios
  Second = 2
  Shapes <- SomeShapes
  FirstShare = 2
  Slowest = 50
  MaxLag = 1
  MinTransparent = 1
  MinShielded = 1
  MinerPools = {"transparent", "shielded"}
  Reward = 2
  Fee = 1
  Anchor = 2
  Maturity = 3
  TopUpBlocks = 3
  TopUpRounds = 2
  ChunkBlocks = 2
  ChunkAttempts = 2
  ProbeAttempts = 2
  SendRetries = 4
  MaxHeight = 24
INVARIANTS
  OwnAccounts
  WaitingConverges
  PaidOnce
  FundedForLoad
  PacedByTheShape
PROPERTY SetupEnds
CHECK_DEADLOCK FALSE
