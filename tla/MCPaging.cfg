SPECIFICATION ESpec
CONSTANTS
  PageSize = 3
  Entries = 3
  NewFlags = 1
  Flags = {0, 2}
  WriteFlag = 1
  MaxSize = 4
  StackAddress = 3
  StackSize = 3
  ProgramAddress = 6
  ProgramEnd = 12
  Heap = {18, 21}
  MaxOffset = 2
  MaxBss = 1
  MaxHeaders = 3
  MaxCalls = 1
CHECK_DEADLOCK FALSE
INVARIANTS
  ETypeOK
  ImageMapped
  LoadBounds
PROPERTY
  ImplementsAddressSpace
