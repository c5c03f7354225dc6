SPECIFICATION Spec
CONSTANTS
  SectorSize = 2
  SectorsPerCluster = 2
  FatSector = 3
  DataSector = 8
  Fat <- SmallFat
  Elsewhere = 0
  ItemSize = 1
  NameSize = 2
  ExtSize = 1
  Root <- SmallRoot
  Items <- SmallItems
  NULL = NULL
  WILD = WILD
  NullIsFile = TRUE
  MaxPath = 11
  MaxDescriptors = 3
  Privates = {d1, d2, d3, d4}
  Signatures = {0, 41}
  Paths <- SmallPaths
  Modes = {"r", "w", "x"}
  Offsets = {1, 4}
  Whence = {"SEEK_SET", "SEEK_END"}
  Sizes = {1, 2, 3}
  Members = {1, 2}
  MaxPos = 4
SYMMETRY Addresses
INVARIANTS
  TypeOK
  OwnDescriptor
  ReadsFile
PROPERTY
  OpensWhatPathNames
