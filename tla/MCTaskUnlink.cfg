SPECIFICATION Spec
CONSTANTS
  Tasks = {t1, t2, t3}
  NULL = NULL
  Values = {0}
  FlagValues = {0}
  Delay = 0
INVARIANT
  NothingFreedIsLinked
