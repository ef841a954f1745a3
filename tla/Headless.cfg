SPECIFICATION Spec
CONSTANTS
  NoProc = NoProc
  Procs = {p1, p2, p3}
  Commands <- AllCommands
  Ports = {8080, 8081}
  MaxServers = 3
  MaxCrashes = 2
SYMMETRY ProcSymmetry
INVARIANTS
  TypeOK
  LockHeld
  EveryServerTracked
