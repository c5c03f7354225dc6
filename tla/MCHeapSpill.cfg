SPECIFICATION Spec
CONSTANTS
  Total = 3
  Requests = {1, 2}
INVARIANT
  InsideHeap
