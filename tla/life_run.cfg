SPECIFICATION FairSpec
CONSTANTS
  main = main
  miner = miner
  watcher = watcher
  i1 = i1
  i2 = i2
  NoCall = NoCall
  Main = main
  Background = {miner}
  Intents = {i1, i2}
  MaxTries = 2
  HealthPolls = 4
  Required = 3
  Project = "z3-sim-a"
  Containers <- HostContainers
INVARIANTS
  TypeOK
  WorkloadTagged
  NoStackLeftBehind
  SuccessIsDocumented
 
CHECK_DEADLOCK FALSE
