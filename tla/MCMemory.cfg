SPECIFICATION MSpec
CONSTANTS
  Total = 6
  Requests = {1, 2}
  Procs = {p, q}
  MaxAllocations = 3
  ImageBlocks = 1
  BssBlocks = 0
  StackBlocks = 1
  MaxArguments = 2
  ElfWhenFull = FALSE
INVARIANTS
  MTypeOK
  WritesOnlyItsOwn
  Isolation
  ArgumentsSound
  ArrayListsGrants
  EndedHoldsNothing
