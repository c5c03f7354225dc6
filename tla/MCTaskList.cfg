SPECIFICATION Spec
CONSTANTS
  Tasks = {t1, t2, t3}
  NULL = NULL
  Values = {0, 1}
  FlagValues = {0}
  Delay = 1
INVARIANTS
  TypeOK
  ListSound
  ContextIntact
PROPERTIES
  BreaksExactly
  ImplementsRunQueue
  NoStarvationWithoutExits
