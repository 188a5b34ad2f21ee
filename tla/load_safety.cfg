SPECIFICATION Spec
CONSTANTS
  i1 = i1
  i2 = i2
  i3 = i3
  Intents = {i1, i2, i3}
  MaxInFlight = 1
  ActiveAccounts = 2
  Results = {"confirmed", "failed", "timedOut", "panic"}
SYMMETRY Symmetry
INVARIANTS
  TypeOK
  PermitsConserved
  QueueServed
  ActiveCounted
  MinerOutlivesIntents
  ReportBalances
  AtMostOneLateDispatch
PROPERTY LedgerSpec
CHECK_DEADLOCK FALSE
