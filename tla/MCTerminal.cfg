SPECIFICATION Spec
CONSTANTS
  Shells = {s1, s2}
  Width = 2
  BufferCells = 3
  Range16 = 3
INVARIANTS
  TypeOK
  ScreenShowsCurrent
PROPERTY
  OwnCursor
