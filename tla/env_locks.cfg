SPECIFICATION Spec
CONSTANTS
  p1 = p1
  p2 = p2
  p3 = p3
  e1 = e1
  e2 = e2
  e3 = e3
  NoEnv = NoEnv
  NoProc = NoProc
  Placeholder = Placeholder
  Procs = {p1, p2, p3}
  Fresh = {p3}
  Envs = {e1, e2, e3}
  Printers = {p2}
  IdByte <- Bytes
  IdOffset <- Offsets
  Octets = 3
  Off = Off
  MaxAttempts = 2
  MaxCrashes = 2
SYMMETRY EnvSymmetry
INVARIANTS
  OneRunPerEnv
  ScriptInOwnProject
  RunKeepsItsStack
  LocksAreInUse
CHECK_DEADLOCK FALSE
