SPECIFICATION KSpec
CONSTANTS
  Tasks = {t1, t2}
  NULL = NULL
  Values = {0}
  FlagValues = {0}
  Delay = 0
  Procs = {p1, p2}
  MaxProcesses = 2
  NumShells = 1
  BootMayFail = FALSE
INVARIANT
  NoInvalidPointer
