CONSTANTS
  NULL = NULL
  DevLength = 5
  MaxGrain = 6
  Window = 30
  Alignments <- MCAlignments
  Sizes <- MCSizes
  LowCylinders = 2
  SectorField = 4
  MaxChsCylinder = 5
  MaxHeads = 3
  LastSector = 55
  Kilobyte = 10
  Megabyte = 100
  Kibibyte = 16
  Mebibyte = 256
  Devices <- MCDevices
SPECIFICATION Spec
INVARIANTS
  AlignmentIntersectionIsExact
  SolutionsAreSolutions
  NearestIsNearest
  IntersectionIsExact
  ReadFindsGeometry
  PrintedIsNear
CHECK_DEADLOCK FALSE
