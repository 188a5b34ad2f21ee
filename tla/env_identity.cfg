SPECIFICATION Spec
CONSTANTS
  p1 = p1
  p2 = p2
  p3 = p3
  e1 = e1
  e2 = e2
  e3 = e3
  NoEnv = NoEnv
  NoProc = NoProc
  Placeholder = Placeholder
  Procs = {p1, p2}
  Fresh = {}
  Envs = {e1, e2}
  Printers = {}
  IdByte <- Bytes
  IdOffset <- Offsets
  Octets = 3
  Off = Off
  MaxAttempts = 2
  MaxCrashes = 0
INVARIANT StableIdentity
CHECK_DEADLOCK FALSE
