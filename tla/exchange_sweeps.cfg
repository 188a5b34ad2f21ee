SPECIFICATION Spec
CONSTANTS
  i1 = i1
  i2 = i2
  i3 = i3
  a1 = a1
  a2 = a2
  c1 = c1
  c2 = c2
  c3 = c3
  Intents = {i1, i2, i3}
  Accounts = {a1, a2}
  Flow <- Sweeps
  Sender <- FromA1
  Recipient <- ToA2
  Provisioned = {a1}
  Coins = {c1, c2, c3}
  Purse0 <- ShieldedPurses
  Since0 <- YoungNote
  SendRetries = 2
  MaxPolls = 2
  AnchorDepth = 2
  Height0 = 2
  MaxHeight = 6
  MaxFaults = 1
SYMMETRY SweepsAlike
INVARIANTS
  OneRequestPerLeg
  PayoutAfterSweep
  ConfirmedIsMined
PROPERTY PaymentSpec
CHECK_DEADLOCK FALSE
