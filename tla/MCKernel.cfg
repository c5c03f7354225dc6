SPECIFICATION KSpec
CONSTANTS
  Tasks = {t1, t2, t3}
  NULL = NULL
  Values = {0}
  FlagValues = {0}
  Delay = 0
  Procs = {p1, p2, p3, p4}
  MaxProcesses = 3
  NumShells = 3
  BootMayFail = TRUE
INVARIANTS
  KTypeOK
  TableMatchesTasks
  EveryShellReached
PROPERTIES
  ExitLeavesForeground
