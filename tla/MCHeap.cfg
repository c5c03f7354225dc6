SPECIFICATION Spec
CONSTANTS
  Total = 6
  Requests = {1, 2, 3, 4}
INVARIANTS
  TypeOK
  NoOverlap
  Accounting
  Chained
  LoopsAgree
PROPERTY
  ImplementsBlockPool
